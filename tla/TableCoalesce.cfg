\* Updates of one row and of both in one flush.  The system stops when the operations
\* are used up and flushed.
SPECIFICATION Spec
CONSTANTS
  Ids = {1, 2}
  Statuses = {"pending", "done"}
  Lists <- MCLists
  NoStatus = NoStatus
  MaxOps = 3
INVARIANTS
  LatestSurvives
CHECK_DEADLOCK FALSE
