\* Two rows with two statuses; updates of either row or of both.  The system stops when
\* the operations are used up and flushed.
SPECIFICATION Spec
CONSTANTS
  Ids = {1, 2}
  Statuses = {"pending", "done"}
  Lists <- MCLists
  NoStatus = NoStatus
  MaxOps = 3
INVARIANTS
  TypeOK
  FlushMatches
  ReadByIdMatches
  StatusReads
CHECK_DEADLOCK FALSE
