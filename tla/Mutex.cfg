\* Five callers that acquire, release and time out in any order; guarded sections end,
\* timeouts need not happen.
SPECIFICATION FairSpec
CONSTANT Callers = {c1, c2, c3, c4, c5}
INVARIANTS
  MutualExclusion
  NoLostWakeup
PROPERTIES
  NoOvertaking
  AcquireReturns
