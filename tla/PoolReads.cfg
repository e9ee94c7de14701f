\* Reads against pushes, a commit, the reaper and flushes, on one shard.  A commit of two
\* operations into an empty buffer fits; one of three, or of two behind another push, is
\* stuck for room with stateMutex held.  Then every call ends up waiting for that mutex:
\* the system really may stop.
SPECIFICATION FairSpec
CONSTANTS
  Shards = {"A"}
  Tables = {"queue_jobs", "nodes"}
  Ops <- OneShardOps
  ShardOf <- MCShardOf
  TableOf <- MCTableOf
  JobOf <- MCJobOf
  NoJob = NoJob
  NoAgent = NoAgent
  NoShard = NoShard
  Agents = {a1}
  Workers = {w1}
  Readers = {r1}
  Timers = {t1}
  Stoppers = {}
  Reapers = {c1}
  MaxBuffer = 2
  MaxTxFailures = 0
  MaxTimeouts = 0
  MaxCrashes = 0
INVARIANTS
  TypeOK
  ReadYourWrites
  ReadsWholeCommits
PROPERTIES
  CommitReturns
CHECK_DEADLOCK FALSE
