\* A commit that fills a buffer while it holds stateMutex.  The system may stop:
\* the flusher and the commit wait for each other.
SPECIFICATION FairSpec
CONSTANTS
  Shards = {"A"}
  Tables = {"queue_jobs", "nodes"}
  Ops <- OneShardOps
  ShardOf <- MCShardOf
  TableOf <- MCTableOf
  JobOf <- MCJobOf
  NoJob = NoJob
  NoAgent = NoAgent
  NoShard = NoShard
  Agents = {a1}
  Workers = {w1}
  Readers = {}
  Timers = {t1}
  Stoppers = {}
  Reapers = {}
  MaxBuffer = 1
  MaxTxFailures = 0
  MaxTimeouts = 1
  MaxCrashes = 0
PROPERTIES
  BackpressureEnds
CHECK_DEADLOCK FALSE
