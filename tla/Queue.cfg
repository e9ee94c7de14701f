\* One producer, one consumer and one maintainer against the same rows and a ring of one
\* job, with a backlog on disk; one acquire may time out or the process may crash once.
SPECIFICATION FairSpec
CONSTANTS
  Jobs = {j1, j2}
  Backlog = {j1}
  Producers = {p1}
  Consumers = {c1}
  Failers = {f1}
  Maintainers = {m1}
  Limit = 1
  RingSlots = 2
  MaxAttempts = 2
  NoJob = NoJob
  MaxSlow = 0
  MaxFaults = 1
INVARIANTS
  TypeOK
  BacklogExclusive
  DeliveriesCount
PROPERTIES
  DoneIsFinal
  FailsAtTheEnd
  EveryJobEnds
