CONSTANTS
  Clients = {c1, c2}
  Nobody = nobody
  Names = {"a", "b"}
  KeyArgs <- BothKeys
  Timeouts = {1}
  WakeBatch = 2
  MaxLen = 2
  MaxQueue = 1
  MaxWakes = 1
  MaxTime = 1
  Workload = {"push2", "kill", "rename", "exec", "del"}
SPECIFICATION BlockingSpec
PROPERTY RegistrationsExpire

