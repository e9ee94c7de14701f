\* One loop of process() or processBatch() over jobs that arrive while it runs; stop() at
\* any time.  The system may stop: a loop that has ended stays so.
SPECIFICATION RunnerSpec
CONSTANTS
  Jobs = {j1, j2}
  Backlog = {}
  Producers = {p1}
  Consumers = {c1}
  Failers = {}
  Maintainers = {}
  Limit = 2
  RingSlots = 4
  MaxAttempts = 2
  NoJob = NoJob
  MaxSlow = 0
  MaxFaults = 0
  Concurrency = 2
INVARIANTS
  RunnerTypeOK
  ProcessingIsOwned
  DeliveriesCount
  StopRecordsOutcomes
PROPERTIES
  StopEnds
  EveryJobRuns
CHECK_DEADLOCK FALSE
