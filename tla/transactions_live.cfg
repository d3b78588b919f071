CONSTANTS
  Dbs <- OneDb
  Names = {"a", "b"}
  Shards <- OneShard
  get_shard_index <- SameShard
  ShardOrder <- VisitOne
  Ttls = {0}
  MaxContent = 1
  MaxTime = 1
  UsizeMod = 8
  Workload = {"set_ex", "list", "rename", "renamenx", "select", "close"}
  Clients = {c1}
  MaxQueue = 1
  MaxMarks = 1
  MaxWatches = 1
SPECIFICATION Spec
PROPERTY ExecTerminates
