\* Two agents, in one process or in two, compete for a resource; statements may fail,
\* processes crash and restart at any time.
SPECIFICATION FairSpec
CONSTANTS
  p1 = p1
  p2 = p2
  a1 = a1
  a2 = a2
  Processes = {p1, p2}
  Agents = {a1, a2}
  Homes <- MCHomes
  Timers = {i1, i2}
  NoAgent = NoAgent
  NoTimer = NoTimer
  Period = 2
  MaxDelay = 1
INVARIANTS
  TypeOK
  MutualExclusion
  LeaseKept
PROPERTIES
  AbandonedClaimGivesWay
