\* One worker, one agent, a flush timer and stop() on two shards; a transaction
\* may fail, an acquire may time out and the process may crash, once each.
SPECIFICATION Spec
CONSTANTS
  Shards = {"A", "B"}
  Tables = {"queue_jobs", "nodes"}
  Ops <- TwoShardOps
  ShardOf <- MCShardOf
  TableOf <- MCTableOf
  JobOf <- MCJobOf
  NoJob = NoJob
  NoAgent = NoAgent
  NoShard = NoShard
  Agents = {a1}
  Workers = {w1}
  Readers = {}
  Timers = {t1}
  Stoppers = {x1}
  Reapers = {}
  MaxBuffer = 3
  MaxTxFailures = 1
  MaxTimeouts = 1
  MaxCrashes = 1
INVARIANTS
  Conserved
  CommitAtomicPerShard
  StopPersists
PROPERTIES
  ImplementsDurableLog
