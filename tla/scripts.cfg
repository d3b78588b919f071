CONSTANTS
  Dbs <- OneDb
  Names = {"a"}
  Shards <- OneShard
  get_shard_index <- SameShard
  ShardOrder <- VisitOne
  Ttls = {0}
  MaxContent = 1
  MaxTime = 1
  UsizeMod = 8
  Workload = {"get", "delete", "persist", "incr_by", "flush_db", "expire", "set", "set_ex", "getset", "set_xx", "bit", "string", "list", "set_type", "hash", "zset", "stream", "rename", "renamenx", "select", "close"}
  Clients = {c1}
  MaxQueue = 1
  MaxMarks = 2
  MaxWatches = 1
  ScriptIds = {"s"}
  MaxCalls = 2
SPECIFICATION ScriptsSpec
INVARIANT ScriptsTypeOK
PROPERTIES  ScriptsEnd
