SPECIFICATION Spec
CONSTANTS
  Entries <- MCEntries
  ProcessOf <- MCProcessOf
  FileOf <- MCFileOf
  Clients = {"audit", "u1", "u2"}
  RawClients = {"u2"}
  NoEntry = NoEntry
  Starts <- MCStarts
  Auditor = "audit"
  Host = "p1"
  Ids = {1, 2, 3, 4, 5}
  NoId = NoId
  Page = 2
  AuditLimit = 3
  UserOps = {"insertNode", "deleteNode", "addKnowledge"}
INVARIANTS TypeOK OneConnectionPerShard SchemaHealed AuditCutsOnlyDangling
PROPERTIES OrphansRepaired
\* Users need not call.
CHECK_DEADLOCK FALSE
