CONSTANTS
  Dbs <- OneDb
  Names = {"a", "b"}
  Shards <- TwoShards
  get_shard_index <- SplitNames
  ShardOrder <- VisitTwo
  Ttls = {1}
  MaxContent = 1
  MaxTime = 2
  UsizeMod = 8
  Workload = {"get", "delete", "persist", "incr_by", "flush_db", "expire", "set", "set_nx", "set_ex", "set_nx_ex", "setnx", "set_xx", "getset", "string", "list", "set_type", "hash", "zset", "stream"}
SPECIFICATION KeyspaceSpec
INVARIANTS DeadlinesIndexed NoEmptyCollection
PROPERTY ExpiredKeysReaped
