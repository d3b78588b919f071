CONSTANTS
  Clients = {c1, c2, c3}
  Nobody = nobody
  Names = {"a", "b"}
  KeyArgs <- SingleKeys
  Timeouts = {0, 1}
  WakeBatch = 2
  MaxLen = 2
  MaxQueue = 3
  MaxWakes = 3
  MaxTime = 2
  Workload = {"push", "pop", "del", "set", "quit"}
SYMMETRY ClientSymmetry
SPECIFICATION BlockingSpec
INVARIANTS BlockingTypeOK FastCheckExact NoWaiterLeftBehind
PROPERTIES WakeupDelivers TimeoutIsOwn
CHECK_DEADLOCK FALSE
