\* A transaction fails and a later flush swaps the same shard.
SPECIFICATION Spec
CONSTANTS
  Shards = {"A"}
  Tables = {"queue_jobs", "nodes"}
  Ops <- OneShardOps
  ShardOf <- MCShardOf
  TableOf <- MCTableOf
  JobOf <- MCJobOf
  NoJob = NoJob
  NoAgent = NoAgent
  NoShard = NoShard
  Agents = {}
  Workers = {w1}
  Readers = {}
  Timers = {t1}
  Stoppers = {}
  Reapers = {}
  MaxBuffer = 3
  MaxTxFailures = 1
  MaxTimeouts = 0
  MaxCrashes = 0
INVARIANTS
  RetryKeepsOps
