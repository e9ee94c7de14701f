\* Two workers push against a buffer of one operation; the flush timer ticks until
\* stop() is called.  The system may stop: after stop() nothing empties a full buffer,
\* and a push that found it full polls for ever.
SPECIFICATION FairSpec
CONSTANTS
  Shards = {"A"}
  Tables = {"nodes"}
  Ops <- OneTableOps
  ShardOf <- MCShardOf
  TableOf <- MCTableOf
  JobOf <- MCJobOf
  NoJob = NoJob
  NoAgent = NoAgent
  NoShard = NoShard
  Agents = {}
  Workers = {w1, w2}
  Readers = {}
  Timers = {t1}
  Stoppers = {x1}
  Reapers = {}
  MaxBuffer = 1
  MaxTxFailures = 0
  MaxTimeouts = 0
  MaxCrashes = 0
INVARIANTS
  BoundedBuffer
PROPERTIES
  EventuallyDurable
  CallsEnd
CHECK_DEADLOCK FALSE
