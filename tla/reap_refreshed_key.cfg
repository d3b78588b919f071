CONSTANTS
  Dbs <- OneDb
  Names = {"a", "b"}
  Shards <- TwoShards
  get_shard_index <- SplitNames
  ShardOrder <- VisitTwo
  Ttls = {1}
  MaxContent = 1
  MaxTime = 2
  UsizeMod = 8
  Workload = {"set_ex", "expire"}
SPECIFICATION KeyspaceSpec
PROPERTY OnlyExpiredReaped
