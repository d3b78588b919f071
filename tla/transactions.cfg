CONSTANTS
  Dbs <- OneDb
  Names = {"a", "b"}
  Shards <- OneShard
  get_shard_index <- SameShard
  ShardOrder <- VisitOne
  Ttls = {0}
  MaxContent = 1
  MaxTime = 1
  UsizeMod = 8
  Workload = {"set_ex", "delete", "close"}
  Clients = {c1, c2}
  MaxQueue = 1
  MaxMarks = 2
  MaxWatches = 2
SYMMETRY ClientSymmetry
SPECIFICATION Spec
INVARIANT WatchesRegistered
PROPERTY ExecIsolation
