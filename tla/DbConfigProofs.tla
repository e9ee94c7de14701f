--------------------------- MODULE DbConfigProofs ---------------------------
(***************************************************************************)
(* Theorems about the connections and schemas of DbConfig in the system of *)
(* IntegrityAudit: for any processes, entries and files, any number of     *)
(* openings, failures, closes and crashes, and whatever the audit does;    *)
(* and about the audit itself, for any rows, buffers and size of a page.   *)
(***************************************************************************)
EXTENDS IntegrityAudit, SequenceTheorems, TLAPS

-----------------------------------------------------------------------------
(* The programme of initializeSchema(), statement by statement *)

LEMMA ProgrammeIs ==
  /\ Len(Programme) = 17
  /\ Programme[1] = Statement("pragmas", "nodes", "none")
  /\ Programme[2] = Statement("inspect", "settings", "rename")
  /\ Programme[3] = Statement("alter", "settings", "rename")
  /\ Programme[4] = Statement("inspect", "queue_settings", "rename")
  /\ Programme[5] = Statement("alter", "queue_settings", "rename")
  /\ Programme[6] = Statement("create", "nodes", "none")
  /\ Programme[7] = Statement("index", "nodes", "none")
  /\ Programme[8] = Statement("create", "settings", "none")
  /\ Programme[9] = Statement("create", "queue_settings", "none")
  /\ Programme[10] = Statement("create", "queue_settings", "none")
  /\ Programme[11] = Statement("inspect", "nodes", "id")
  /\ Programme[12] = Statement("alter", "nodes", "id")
  /\ Programme[13] = Statement("inspect", "settings", "id")
  /\ Programme[14] = Statement("alter", "settings", "id")
  /\ Programme[15] = Statement("inspect", "queue_settings", "id")
  /\ Programme[16] = Statement("alter", "queue_settings", "id")
  /\ Programme[17] = Statement("index", "nodes", "none")
  BY DEF Programme, Pragmas, Migration, CoreTables, CoreIndices, SettingsTables, QueueTables,
         HiveTables, EnsureColumns, LastIndices, Heal, Statement

LEMMA MigrationEnds == Len(Pragmas \o Migration) = 5
  BY DEF Pragmas, Migration, Heal, Statement

-----------------------------------------------------------------------------
(* What a step of the system is to the connections *)

\* The audit has an entry to read, and a record to keep it in.
AuditShape ==
  /\ audit = [at |-> audit.at, todo |-> audit.todo, entry |-> audit.entry, conn |-> audit.conn,
              offset |-> audit.offset, total |-> audit.total, work |-> audit.work]
  /\ audit.todo \subseteq Entries
  /\ audit.at \in {"off", "next", "failed"} \/ audit.entry \in Entries

LEMMA AuditShapeInit == Init => AuditShape
  BY DEF Init, AuditShape, NoAudit

LEMMA AuditShapeStep == AuditShape /\ [Next]_vars => AuditShape'
<1> SUFFICES ASSUME AuditShape, [Next]_vars PROVE AuditShape'
  OBVIOUS
<1>1. CASE audit' = audit
  BY <1>1 DEF AuditShape
<1>2. ASSUME NEW stage \in {"off", "next"}, NEW todo \in SUBSET Entries,
             audit' = [NoAudit EXCEPT !.at = stage, !.todo = todo]
      PROVE  AuditShape'
  BY <1>2 DEF AuditShape, NoAudit
<1>14. CASE audit' = NoAudit
  BY <1>14 DEF AuditShape, NoAudit
<1>15. CASE RunAudit
  BY <1>2, <1>15 DEF RunAudit
<1>3. ASSUME NEW stage, audit' = [audit EXCEPT !.at = stage], audit.entry \in Entries
      PROVE  AuditShape'
  BY <1>3 DEF AuditShape
<1>4. ASSUME NEW w, audit' = [audit EXCEPT !.work = w] PROVE AuditShape'
  BY <1>4 DEF AuditShape
<1>5. ASSUME NEW stage, NEW w, audit' = [audit EXCEPT !.at = stage, !.work = w],
             audit.entry \in Entries
      PROVE  AuditShape'
  BY <1>5 DEF AuditShape
<1>6. ASSUME ShardNext PROVE AuditShape'
  BY <1>6 DEF AuditShape, ShardNext, NoAudit
<1>7. ASSUME audit.at \notin {"off", "next", "failed"} PROVE audit.entry \in Entries
  BY <1>7 DEF AuditShape
<1>8. ASSUME ReadFails PROVE AuditShape'
  BY <1>3, <1>7, <1>8 DEF ReadFails, Throw, Go, Reads
<1>9. ASSUME QuickCheck PROVE AuditShape'
  BY <1>7, <1>9 DEF QuickCheck, ReadAt, At, AuditShape
<1>10. ASSUME ReadPage PROVE AuditShape'
  BY <1>7, <1>10 DEF ReadPage, ReadAt, At, AuditShape
<1>11. ASSUME Sync PROVE AuditShape'
  BY <1>3, <1>7, <1>11 DEF Sync, Throw, Go
<1>12. ASSUME ReadEdges \/ ReadSources PROVE AuditShape'
  <2>1. \E stage, w : audit' = [audit EXCEPT !.at = stage, !.work = w]
    BY <1>12 DEF ReadEdges, ReadSources
  <2>2. audit.at \in {"edges", "sources"}
    BY <1>12 DEF ReadEdges, ReadSources, ReadAt, At
  <2> QED
    BY <1>5, <1>7, <2>1, <2>2
<1>13. ASSUME Repair \/ DropEdge PROVE AuditShape'
  BY <1>4, <1>13 DEF Repair, DropEdge
<1>16. ASSUME Prune PROVE AuditShape'
  BY <1>5, <1>7, <1>16 DEF Prune, At
<1>17. ASSUME Maintain PROVE AuditShape'
  <2>1. PICK stage : audit' = [audit EXCEPT !.at = stage]
    BY <1>17 DEF Maintain, Go
  <2> QED
    BY <1>3, <1>7, <1>17, <2>1 DEF Maintain, At
<1> QED
  BY ZenonT(60), <1>1, <1>6, <1>8, <1>9, <1>10, <1>11, <1>12, <1>13, <1>14, <1>15, <1>16, <1>17
  DEF Next, ConfigStep, auditVars, UserPush, TimerFlush, StartWorker, StopWorker, Tick,
      InitialRun, AuditStep, AuditEnd, AuditGetDb, Crash, vars

\* A read of the audit is over, or the step is of another part of the system.
Elsewhere ==
  /\ UNCHANGED <<file, connections, closing>>
  /\ \/ call' = call
     \/ call' = [call EXCEPT ![Auditor] = NoCall]

ConfigMove ==
  \/ \E c : \E e \in Entries : GetDb(c, e)
  \/ \E c : Drop(c)
  \/ \E c \in Clients : Settle(c)
  \/ \E k \in DOMAIN opens : InitializeStep(k) \/ OpenFails(k) \/ StatementFails(k)
  \/ \E p \in Processes : CloseCall(p) \/ CloseStep(p) \/ DestroyFails(p) \/ CrashOf(p)
  \/ Elsewhere

LEMMA StepIsMove == AuditShape /\ [Next]_vars => ConfigMove
<1> SUFFICES ASSUME AuditShape, [Next]_vars PROVE ConfigMove
  OBVIOUS
<1>1. CASE ConfigStep
  BY <1>1 DEF ConfigStep, ConfigMove
<1>2. CASE UNCHANGED <<file, connections, call, closing>>
  BY <1>2 DEF ConfigMove, Elsewhere
<1>3. CASE AuditGetDb
  BY <1>3 DEF AuditGetDb, AuditShape, Reads, ConfigMove
<1>4. CASE ReadFails \/ QuickCheck \/ ReadPage \/ ReadEdges \/ ReadSources
  <2>1. Elsewhere
    BY <1>4 DEF ReadFails, QuickCheck, ReadPage, ReadEdges, ReadSources, ReadAt, Elsewhere
  <2> QED
    BY <2>1 DEF ConfigMove
<1>5. ASSUME NEW p \in Processes, Crash(p) PROVE ConfigMove
  BY <1>5 DEF Crash, ConfigMove
<1> QED
  BY ZenonT(60), <1>1, <1>2, <1>3, <1>4, <1>5
  DEF Next, UserPush, TimerFlush, StartWorker, StopWorker, Tick, InitialRun, AuditStep,
      ShardNext, AuditEnd, Repair, Sync, DropEdge, Prune, Maintain, vars, configVars

-----------------------------------------------------------------------------
(* Types *)

OpeningRecord ==
  [entry : Entries, stage : {"loading", "schema", "ready", "rejected"},
   next : 1 .. Len(Programme) + 1, health : {"clean", "raced", "faulty", "skipped"},
   handle : {"none", "open", "closed"}]

\* Of the openings, only k changes, and not its entry.
Touched(k) ==
  /\ opens' \in Seq(OpeningRecord) /\ Len(opens') = Len(opens) /\ DOMAIN opens' = DOMAIN opens
  /\ \A j \in DOMAIN opens : j # k => opens'[j] = opens[j]
  /\ opens'[k].entry = opens[k].entry

LEMMA Touch ==
  ASSUME opens \in Seq(OpeningRecord), NEW k \in DOMAIN opens, NEW r \in OpeningRecord,
         r.entry = opens[k].entry, opens' = [opens EXCEPT ![k] = r]
  PROVE  Touched(k) /\ opens'[k] = r
<1>1. opens' \in Seq(OpeningRecord) /\ Len(opens') = Len(opens)
  BY ExceptSeq
<1> QED
  BY <1>1 DEF Touched

\* Where a statement leads that does not change its connection otherwise.
LEMMA GoOnTouches ==
  ASSUME opens \in Seq(OpeningRecord), NEW k \in DOMAIN opens,
         NEW next \in 1 .. Len(Programme) + 1, GoOn(k, next)
  PROVE  Touched(k) /\ opens'[k] = [opens[k] EXCEPT !.next = next]
<1>1. opens[k] \in OpeningRecord
  OBVIOUS
<1>2. PICK r : r = [opens[k] EXCEPT !.next = next]
  OBVIOUS
<1>3. r \in OpeningRecord /\ r.entry = opens[k].entry
  BY <1>1, <1>2 DEF OpeningRecord
<1>4. opens' = [opens EXCEPT ![k] = r]
  BY <1>2 DEF GoOn
<1> QED
  BY <1>2, <1>3, <1>4, Touch

\* The numbers of the statements of each kind.
LEMMA Kinds ==
  ASSUME NEW k, opens[k].next \in 1 .. Len(Programme)
  PROVE  /\ Current(k).op = "pragmas" <=> opens[k].next = 1
         /\ Current(k).op = "inspect" <=> opens[k].next \in {2, 4, 11, 13, 15}
         /\ Current(k).op = "alter" <=> opens[k].next \in {3, 5, 12, 14, 16}
         /\ Current(k).op = "create" <=> opens[k].next \in {6, 8, 9, 10}
         /\ Current(k).op = "index" <=> opens[k].next \in {7, 17}
         /\ Current(k).change = "rename" <=> opens[k].next \in {2, 3, 4, 5}
         /\ Current(k).change = "id" <=> opens[k].next \in 11 .. 16
         /\ Current(k).change = "none" <=> opens[k].next \notin {2, 3, 4, 5} \cup 11 .. 16
         /\ Current(k).table \in Tables
<1>1. opens[k].next \in 1 .. 17
  BY ProgrammeIs
<1>2. PICK n \in 1 .. 17 : n = opens[k].next
  BY <1>1
<1>3. Current(k) = Programme[n]
  BY <1>2 DEF Current
<1>4. \/ n = 1 \/ n = 2 \/ n = 3 \/ n = 4 \/ n = 5 \/ n = 6 \/ n = 7 \/ n = 8 \/ n = 9 \/ n = 10
      \/ n = 11 \/ n = 12 \/ n = 13 \/ n = 14 \/ n = 15 \/ n = 16 \/ n = 17
  OBVIOUS
<1> QED
  BY <1>2, <1>3, <1>4, ProgrammeIs DEF Statement, Tables, KeyTables

\* After a failure the programme goes on in another try block, or the opening is rejected.
LEMMA FailureTouches ==
  ASSUME opens \in Seq(OpeningRecord), NEW k \in DOMAIN opens,
         opens[k].next \in 1 .. Len(Programme),
         NEW health \in {"clean", "raced", "faulty", "skipped"}, Failed(k, health)
  PROVE  /\ Touched(k)
         /\ \/ /\ opens[k].next \notin {2, 3, 4, 5} \cup 11 .. 16
               /\ opens'[k] = [opens[k] EXCEPT !.stage = "rejected"]
            \/ /\ opens[k].next \in {2, 3, 4, 5}
               /\ opens'[k] = [opens[k] EXCEPT !.next = 6, !.health = health]
            \/ /\ opens[k].next \in {11, 13, 15}
               /\ opens'[k] = [opens[k] EXCEPT !.next = opens[k].next + 2, !.health = health]
            \/ /\ opens[k].next \in {12, 14, 16}
               /\ opens'[k] = [opens[k] EXCEPT !.next = opens[k].next + 1, !.health = health]
<1>1. opens[k] \in OpeningRecord /\ Len(Programme) = 17 /\ opens[k].next \in 1 .. 17
  BY ProgrammeIs
<1>2. PICK n \in 1 .. 17 : n = opens[k].next
  BY <1>1
<1>21. /\ n \notin {2, 3, 4, 5} \cup 11 .. 16 => AfterFailure(k) = 0
       /\ n \in {2, 3, 4, 5} => AfterFailure(k) = 6
       /\ n \in {11, 13, 15} => AfterFailure(k) = n + 2
       /\ n \in {12, 14, 16} => AfterFailure(k) = n + 1
  <2>1. /\ Current(k).op = "inspect" <=> n \in {2, 4, 11, 13, 15}
        /\ Current(k).change = "rename" <=> n \in {2, 3, 4, 5}
        /\ Current(k).change = "id" <=> n \in 11 .. 16
        /\ Current(k).change = "none" <=> n \notin {2, 3, 4, 5} \cup 11 .. 16
    BY <1>1, <1>2, Kinds
  <2>2. CASE n \notin {2, 3, 4, 5} \cup 11 .. 16
    BY <2>1, <2>2 DEF AfterFailure
  <2>3. CASE n \in {2, 3, 4, 5}
    BY <2>1, <2>3, MigrationEnds DEF AfterFailure
  <2>4. CASE n \in 11 .. 16
    <3>1. AfterFailure(k) = n + IF n \in {11, 13, 15} THEN 2 ELSE 1
      BY <1>2, <2>1, <2>4 DEF AfterFailure
    <3> QED
      BY <2>4, <3>1
  <2> QED
    BY <2>2, <2>3, <2>4
<1>3. PICK r : r = IF AfterFailure(k) = 0 THEN [opens[k] EXCEPT !.stage = "rejected"]
                   ELSE [opens[k] EXCEPT !.next = AfterFailure(k), !.health = health]
  OBVIOUS
<1>4. opens' = [opens EXCEPT ![k] = r]
  BY <1>3 DEF Failed
<1>5. AfterFailure(k) # 0 => AfterFailure(k) \in 1 .. Len(Programme) + 1
  BY SMTT(30), <1>1, <1>21
<1>6. r \in OpeningRecord /\ r.entry = opens[k].entry
  BY <1>1, <1>3, <1>5 DEF OpeningRecord
<1>7. Touched(k) /\ opens'[k] = r
  BY <1>4, <1>6, Touch
<1>8. CASE n \notin {2, 3, 4, 5} \cup 11 .. 16
  BY <1>2, <1>21, <1>3, <1>7, <1>8
<1>9. CASE n \in {2, 3, 4, 5}
  <2>1. AfterFailure(k) # 0 /\ AfterFailure(k) = 6
    BY <1>2, <1>21, <1>9
  <2>2. r = [opens[k] EXCEPT !.next = 6, !.health = health]
    BY <1>3, <2>1
  <2> QED
    BY <1>2, <1>7, <1>9, <2>2
<1>10. CASE n \in {11, 13, 15}
  <2>1. AfterFailure(k) # 0 /\ AfterFailure(k) = opens[k].next + 2
    BY <1>2, <1>21, <1>10
  <2>2. r = [opens[k] EXCEPT !.next = opens[k].next + 2, !.health = health]
    BY <1>3, <2>1
  <2> QED
    BY <1>2, <1>7, <1>10, <2>2
<1>11. CASE n \in {12, 14, 16}
  <2>1. AfterFailure(k) # 0 /\ AfterFailure(k) = opens[k].next + 1
    BY <1>2, <1>21, <1>11
  <2>2. r = [opens[k] EXCEPT !.next = opens[k].next + 1, !.health = health]
    BY <1>3, <2>1
  <2> QED
    BY <1>2, <1>7, <1>11, <2>2
<1> QED
  BY <1>8, <1>9, <1>10, <1>11

ClosingTypes ==
  [stage : {"idle", "next", "destroying", "destroyed"}, conn : 0 .. Len(opens),
   passed : SUBSET (1 .. Len(opens))]

CallTypes ==
  [stage : {"idle", "waiting", "holding", "error"}, entry : Entries \cup {NoEntry},
   conn : 0 .. Len(opens)]

\* A call that waits has an entry; a shard that is being destroyed a connection.
Typed ==
  /\ ConfigTypeOK
  /\ \A c \in Clients : call[c].stage = "waiting" => call[c].entry \in Entries
  /\ \A p \in Processes : closing[p].stage \in {"destroying", "destroyed"} => closing[p].conn # 0

LEMMA TypedIs ==
  ConfigTypeOK <=>
    /\ file \in [Files -> [Tables -> SUBSET {"id", "key", "name", "parentId"}]]
    /\ opens \in Seq(OpeningRecord)
    /\ dbs \in [Entries -> 0 .. Len(opens)] /\ initPromises \in [Entries -> 0 .. Len(opens)]
    /\ isInitialized \subseteq Entries
    /\ call \in [Clients -> CallTypes] /\ closing \in [Processes -> ClosingTypes]
  BY DEF ConfigTypeOK, OpeningRecord, CallTypes, ClosingTypes

\* More openings leave the types of the rest as they are.
LEMMA MoreOpenings ==
  ASSUME Typed, Len(opens') \in Nat, Len(opens) <= Len(opens')
  PROVE  /\ dbs \in [Entries -> (0 .. Len(opens))']
         /\ initPromises \in [Entries -> (0 .. Len(opens))']
         /\ call \in [Clients -> CallTypes']
         /\ closing \in [Processes -> ClosingTypes']
<1>1. Len(opens) \in Nat
  BY TypedIs DEF Typed
<1>2. 0 .. Len(opens) \subseteq 0 .. Len(opens') /\ 1 .. Len(opens) \subseteq 1 .. Len(opens')
  BY <1>1
<1>3. CallTypes \subseteq CallTypes'
  BY <1>2 DEF CallTypes
<1>4. ClosingTypes \subseteq ClosingTypes'
  BY <1>2 DEF ClosingTypes
<1> QED
  BY <1>2, <1>3, <1>4, TypedIs DEF Typed

FileTypes == [Files -> [Tables -> SUBSET {"id", "key", "name", "parentId"}]]

Statements(k) ==
  SetPragmas(k) \/ Inspect(k) \/ Alter(k) \/ CreateTable(k) \/ CreateIndex(k)
  \/ StatementOnClosed(k) \/ StatementFails(k) \/ Initialized(k)

LEMMA StatementMoves ==
  ASSUME Typed, NEW k \in DOMAIN opens, Statements(k)
  PROVE  /\ Touched(k)
         /\ opens[k].stage = "schema" /\ opens'[k].stage \in {"schema", "ready", "rejected"}
         /\ opens'[k].handle = opens[k].handle
         /\ UNCHANGED <<dbs, initPromises, call, closing>>
         /\ isInitialized' \subseteq Entries /\ file' \in FileTypes
<1>1. /\ opens \in Seq(OpeningRecord) /\ opens[k] \in OpeningRecord /\ file \in FileTypes
      /\ Len(Programme) = 17 /\ isInitialized \subseteq Entries
  BY TypedIs, ProgrammeIs DEF Typed, FileTypes
<1>2. opens[k].stage = "schema" /\ UNCHANGED <<dbs, initPromises, call, closing>>
  BY DEF Statements, SetPragmas, Inspect, Alter, CreateTable, CreateIndex, StatementOnClosed,
         StatementFails, Initialized, Running
<1>3. ASSUME NEW next \in 1 .. 18, GoOn(k, next)
      PROVE  Touched(k) /\ opens'[k].stage = "schema" /\ opens'[k].handle = opens[k].handle
  <2>1. next \in 1 .. Len(Programme) + 1
    BY <1>1
  <2>2. Touched(k) /\ opens'[k] = [opens[k] EXCEPT !.next = next]
    BY <1>1, <1>3, <2>1, GoOnTouches
  <2> QED
    BY <1>1, <1>2, <2>2 DEF OpeningRecord
<1>4. ASSUME opens[k].next <= Len(Programme),
             NEW health \in {"clean", "raced", "faulty", "skipped"}, Failed(k, health)
      PROVE  /\ Touched(k) /\ opens'[k].stage \in {"schema", "rejected"}
             /\ opens'[k].handle = opens[k].handle
  <2>1. opens[k].next \in 1 .. Len(Programme)
    BY <1>1, <1>4 DEF OpeningRecord
  <2> QED
    BY <1>1, <1>2, <1>4, <2>1, FailureTouches DEF OpeningRecord
<1>5. opens[k].next \in 1 .. 18
  BY <1>1 DEF OpeningRecord
<1>6. ASSUME opens[k].next <= Len(Programme)
      PROVE  /\ opens[k].next + 1 \in 1 .. 18 /\ Current(k).table \in Tables
             /\ Current(k).op = "inspect" => opens[k].next + 2 \in 1 .. 18
  BY SMTT(30), <1>1, <1>5, <1>6, Kinds
<1>7. File(k) \in Files
  BY <1>1 DEF File, Entry, Files, OpeningRecord
<1>8. CASE SetPragmas(k)
  BY <1>1, <1>2, <1>3, <1>6, <1>8 DEF SetPragmas, Running
<1>9. CASE Inspect(k)
  <2>1. \E next \in 1 .. 18 : GoOn(k, next)
    BY <1>6, <1>9 DEF Inspect, Running
  <2> QED
    BY <1>1, <1>2, <1>3, <1>9, <2>1 DEF Inspect
<1>10. CASE Alter(k)
  <2>1. PICK t \in Tables : t = Current(k).table
    BY <1>6, <1>10 DEF Alter, Running
  <2>2. CASE Lacks(Columns0(k), Current(k).change)
    <3>1. GoOn(k, opens[k].next + 1) /\ opens[k].next <= Len(Programme)
      BY <1>10, <2>2 DEF Alter, Running
    <3>2. file' = [file EXCEPT ![File(k)][t] = Changed(@, Current(k).change)]
      BY <1>10, <2>1, <2>2 DEF Alter
    <3>3. Changed(file[File(k)][t], Current(k).change) \subseteq {"id", "key", "name", "parentId"}
      BY <1>1, <1>7 DEF FileTypes, Changed
    <3>4. file' \in FileTypes
      BY <1>1, <1>7, <3>2, <3>3 DEF FileTypes
    <3> QED
      BY <1>1, <1>2, <1>3, <1>6, <1>10, <3>1, <3>4 DEF Alter
  <2>3. CASE ~Lacks(Columns0(k), Current(k).change)
    <3>1. /\ Failed(k, IF opens[k].health = "clean" THEN "raced" ELSE opens[k].health)
          /\ UNCHANGED file /\ opens[k].next <= Len(Programme)
      BY <1>10, <2>3 DEF Alter, Running
    <3>2. opens[k].health \in {"clean", "raced", "faulty", "skipped"}
      BY <1>1 DEF OpeningRecord
    <3> QED
      BY <1>1, <1>2, <1>4, <1>10, <3>1, <3>2 DEF Alter
  <2> QED
    BY <2>2, <2>3
<1>11. CASE CreateTable(k)
  <2>1. GoOn(k, opens[k].next + 1) /\ opens[k].next <= Len(Programme)
    BY <1>11 DEF CreateTable, Running
  <2>2. PICK t \in Tables : t = Current(k).table
    BY <1>6, <2>1
  <2>3. file' = [file EXCEPT ![File(k)][t] = IF @ = {} THEN Columns(t) ELSE @]
    BY <1>11, <2>2 DEF CreateTable
  <2>4. Columns(t) \subseteq {"id", "key", "name", "parentId"}
    BY DEF Columns
  <2>6. PICK v : v = IF file[File(k)][t] = {} THEN Columns(t) ELSE file[File(k)][t]
    OBVIOUS
  <2>7. v \subseteq {"id", "key", "name", "parentId"} /\ file' = [file EXCEPT ![File(k)][t] = v]
    BY <1>1, <1>7, <2>3, <2>4, <2>6 DEF FileTypes
  <2>5. file' \in FileTypes
    BY <1>1, <1>7, <2>7 DEF FileTypes
  <2> QED
    BY <1>1, <1>2, <1>3, <1>6, <1>11, <2>1, <2>5 DEF CreateTable
<1>12. CASE CreateIndex(k)
  <2>1. opens[k].next <= Len(Programme)
    BY <1>12 DEF CreateIndex, Running
  <2> QED
    BY <1>1, <1>2, <1>3, <1>4, <1>6, <1>12, <2>1 DEF CreateIndex
<1>13. CASE StatementOnClosed(k) \/ StatementFails(k)
  BY <1>1, <1>2, <1>4, <1>13 DEF StatementOnClosed, StatementFails
<1>14. CASE Initialized(k)
  <2>1. PICK r : r = [opens[k] EXCEPT !.stage = "ready"]
    OBVIOUS
  <2>2. r \in OpeningRecord /\ r.entry = opens[k].entry /\ r.handle = opens[k].handle /\ r.stage = "ready"
    BY <1>1, <2>1 DEF OpeningRecord
  <2>3. opens' = [opens EXCEPT ![k] = r]
    BY <1>14, <2>1 DEF Initialized
  <2>4. Touched(k) /\ opens'[k] = r
    BY <1>1, <2>2, <2>3, Touch
  <2>5. isInitialized' \subseteq Entries /\ file' = file
    BY <1>1, <1>14 DEF Initialized, Entry, OpeningRecord
  <2> QED
    BY <1>1, <1>2, <2>2, <2>4, <2>5
<1> QED
  BY <1>8, <1>9, <1>10, <1>11, <1>12, <1>13, <1>14 DEF Statements

LEMMA PublishMoves ==
  ASSUME Typed, NEW k \in DOMAIN opens, Publish(k)
  PROVE  /\ Touched(k)
         /\ opens[k].stage = "loading" /\ opens'[k].stage \in {"schema", "ready"}
         /\ opens'[k].handle = "open"
         /\ opens'[k].stage = "ready" => opens'[k].health = "skipped" /\ Entry(k) \in isInitialized
         /\ opens'[k].stage = "schema" => /\ opens'[k].health = opens[k].health
                                          /\ opens'[k].next = opens[k].next
         /\ Entry(k) \in Entries /\ dbs' = [dbs EXCEPT ![Entry(k)] = k]
         /\ UNCHANGED <<file, initPromises, isInitialized, call, closing>>
<1>1. opens \in Seq(OpeningRecord) /\ opens[k] \in OpeningRecord
  BY TypedIs DEF Typed
<1>2. PICK r : r = [opens[k] EXCEPT !.handle = "open",
                      !.stage = IF Entry(k) \in isInitialized THEN "ready" ELSE "schema",
                      !.health = IF Entry(k) \in isInitialized THEN "skipped" ELSE @]
  OBVIOUS
<1>3. /\ r \in OpeningRecord /\ r.entry = opens[k].entry /\ r.handle = "open"
      /\ r.stage = IF Entry(k) \in isInitialized THEN "ready" ELSE "schema"
      /\ r.health = IF Entry(k) \in isInitialized THEN "skipped" ELSE opens[k].health
      /\ r.next = opens[k].next
  BY <1>1, <1>2 DEF OpeningRecord
<1>4. opens' = [opens EXCEPT ![k] = r]
  BY <1>1, <1>2 DEF Publish
<1>5. Touched(k) /\ opens'[k] = r
  BY <1>1, <1>3, <1>4, Touch
<1> QED
  BY <1>1, <1>3, <1>5 DEF Publish, Entry, OpeningRecord

LEMMA OpenFailsMoves ==
  ASSUME Typed, NEW k \in DOMAIN opens, OpenFails(k)
  PROVE  /\ Touched(k)
         /\ opens[k].stage = "loading" /\ opens'[k].stage = "rejected"
         /\ opens'[k].handle = opens[k].handle
         /\ UNCHANGED <<file, dbs, initPromises, isInitialized, call, closing>>
<1>1. opens \in Seq(OpeningRecord) /\ opens[k] \in OpeningRecord
  BY TypedIs DEF Typed
<1>2. PICK r : r = [opens[k] EXCEPT !.stage = "rejected"]
  OBVIOUS
<1>3. r \in OpeningRecord /\ r.entry = opens[k].entry /\ r.handle = opens[k].handle
      /\ r.stage = "rejected"
  BY <1>1, <1>2 DEF OpeningRecord
<1>4. Touched(k) /\ opens'[k] = r
  BY <1>1, <1>2, <1>3, Touch DEF OpenFails
<1> QED
  BY <1>3, <1>4 DEF OpenFails

LEMMA DestroyedMoves ==
  ASSUME Typed, NEW p \in Processes, Destroyed(p)
  PROVE  /\ closing[p].conn \in DOMAIN opens /\ Touched(closing[p].conn)
         /\ opens'[closing[p].conn] = [opens[closing[p].conn] EXCEPT !.handle = "closed"]
         /\ closing[p].stage = "destroying"
         /\ closing' = [closing EXCEPT ![p].stage = "destroyed"]
         /\ UNCHANGED <<file, dbs, initPromises, isInitialized, call>>
<1>1. PICK k : k = closing[p].conn
  OBVIOUS
<1>2. opens \in Seq(OpeningRecord) /\ k \in DOMAIN opens
  BY <1>1, TypedIs DEF Typed, ClosingTypes, Destroyed
<1>3. PICK r : r = [opens[k] EXCEPT !.handle = "closed"]
  OBVIOUS
<1>4. opens[k] \in OpeningRecord
  BY <1>2
<1>5. r \in OpeningRecord /\ r.entry = opens[k].entry
  BY <1>3, <1>4 DEF OpeningRecord
<1>6. opens' = [opens EXCEPT ![k] = r]
  BY <1>1, <1>3 DEF Destroyed
<1>7. Touched(k) /\ opens'[k] = r
  BY <1>2, <1>5, <1>6, Touch
<1> QED
  BY <1>1, <1>2, <1>3, <1>7 DEF Destroyed

\* A crashed process has no connection and no call, and the others keep theirs.
LEMMA CrashMoves ==
  ASSUME Typed, NEW p \in Processes, CrashOf(p)
  PROVE  /\ opens' \in Seq(OpeningRecord) /\ Len(opens') = Len(opens) /\ DOMAIN opens' = DOMAIN opens
         /\ \A k \in DOMAIN opens : /\ opens'[k].entry = opens[k].entry
                                    /\ opens'[k].next = opens[k].next
                                    /\ opens'[k].health = opens[k].health
         /\ \A k \in DOMAIN opens :
              IF ProcessOf[Entry(k)] # p THEN opens'[k] = opens[k]
              ELSE /\ opens'[k].stage = IF opens[k].stage = "ready" THEN "ready" ELSE "rejected"
                   /\ opens'[k].handle # "open"
         /\ \A e \in Entries : /\ dbs'[e] = IF ProcessOf[e] = p THEN 0 ELSE dbs[e]
                               /\ initPromises'[e] = IF ProcessOf[e] = p THEN 0 ELSE initPromises[e]
         /\ dbs' \in [Entries -> 0 .. Len(opens)] /\ initPromises' \in [Entries -> 0 .. Len(opens)]
         /\ \A e : e \in isInitialized' <=> e \in isInitialized /\ ~(e \in Entries /\ ProcessOf[e] = p)
         /\ closing' = [closing EXCEPT ![p] = NotClosing]
         /\ \A c \in Clients : call'[c] = NoCall \/ call'[c] = call[c]
         /\ call' \in [Clients -> CallTypes]
         /\ file' = file
<1>1. PICK mine : mine = {e \in Entries : ProcessOf[e] = p}
  OBVIOUS
<1>2. /\ opens' = [k \in DOMAIN opens |->
                     IF Entry(k) \notin mine THEN opens[k]
                     ELSE [opens[k] EXCEPT !.stage = IF @ = "ready" THEN @ ELSE "rejected",
                                           !.handle = IF @ = "open" THEN "closed" ELSE @]]
      /\ dbs' = [e \in Entries |-> IF e \in mine THEN 0 ELSE dbs[e]]
      /\ initPromises' = [e \in Entries |-> IF e \in mine THEN 0 ELSE initPromises[e]]
      /\ isInitialized' = isInitialized \ mine
      /\ call' = [c \in Clients |-> IF call[c].entry \in mine THEN NoCall ELSE call[c]]
      /\ closing' = [closing EXCEPT ![p] = NotClosing] /\ file' = file
  BY <1>1 DEF CrashOf
<1>3. opens \in Seq(OpeningRecord) /\ dbs \in [Entries -> 0 .. Len(opens)]
      /\ initPromises \in [Entries -> 0 .. Len(opens)] /\ call \in [Clients -> CallTypes]
  BY TypedIs DEF Typed
<1>4. ASSUME NEW k \in DOMAIN opens
      PROVE  /\ opens'[k] \in OpeningRecord
             /\ opens'[k].entry = opens[k].entry /\ opens'[k].next = opens[k].next
             /\ opens'[k].health = opens[k].health
             /\ IF ProcessOf[Entry(k)] # p THEN opens'[k] = opens[k]
                ELSE /\ opens'[k].stage = IF opens[k].stage = "ready" THEN "ready" ELSE "rejected"
                     /\ opens'[k].handle # "open"
  <2>1. opens[k] \in OpeningRecord /\ Entry(k) \in Entries
    <3>1. opens[k] \in OpeningRecord
      BY <1>3
    <3> QED
      BY <3>1 DEF OpeningRecord, Entry
  <2>2. CASE Entry(k) \notin mine
    <3>1. opens'[k] = opens[k] /\ ProcessOf[Entry(k)] # p
      BY <1>1, <1>2, <2>1, <2>2
    <3> QED
      BY <2>1, <3>1
  <2>3. CASE Entry(k) \in mine
    <3>1. opens'[k] = [opens[k] EXCEPT !.stage = IF @ = "ready" THEN @ ELSE "rejected",
                                       !.handle = IF @ = "open" THEN "closed" ELSE @]
      BY <1>2, <2>3
    <3> QED
      BY <1>1, <2>1, <2>3, <3>1 DEF OpeningRecord
  <2> QED
    BY <2>2, <2>3
<1>5. DOMAIN opens' = DOMAIN opens
  BY <1>2
<1>6. opens' \in Seq(OpeningRecord) /\ Len(opens') = Len(opens)
  <2>1. DOMAIN opens = 1 .. Len(opens) /\ Len(opens) \in Nat
    BY <1>3
  <2>2. opens' \in [1 .. Len(opens) -> OpeningRecord]
    BY <1>2, <1>4, <2>1
  <2>3. opens' \in Seq(OpeningRecord)
    BY <2>1, <2>2
  <2> QED
    BY <1>5, <2>1, <2>3, LenProperties
<1>7. NoCall \in CallTypes
  <2>1. Len(opens) \in Nat
    BY <1>3
  <2> QED
    BY <2>1 DEF NoCall, CallTypes
<1>8. dbs' \in [Entries -> 0 .. Len(opens)] /\ initPromises' \in [Entries -> 0 .. Len(opens)]
  <2>1. 0 \in 0 .. Len(opens)
    BY <1>3
  <2> QED
    BY <1>2, <1>3, <2>1
<1>9. call' \in [Clients -> CallTypes]
  BY <1>2, <1>3, <1>7
<1>10. \A e \in Entries : /\ dbs'[e] = IF ProcessOf[e] = p THEN 0 ELSE dbs[e]
                          /\ initPromises'[e] = IF ProcessOf[e] = p THEN 0 ELSE initPromises[e]
  BY <1>1, <1>2
<1>11. \A e : e \in isInitialized' <=> e \in isInitialized /\ ~(e \in Entries /\ ProcessOf[e] = p)
  BY <1>1, <1>2
<1>12. \A c \in Clients : call'[c] = NoCall \/ call'[c] = call[c]
  BY <1>2
<1>13. DOMAIN opens' = DOMAIN opens /\ closing' = [closing EXCEPT ![p] = NotClosing] /\ file' = file
  BY <1>2
<1> QED
  BY <1>4, <1>6, <1>8, <1>9, <1>10, <1>11, <1>12, <1>13

\* The initial connections are those of the entries that are open at the start.
LEMMA OpenAtStart ==
  ASSUME NEW start \in Starts, ConfigInit(start)
  PROVE  /\ opens \in Seq(OpeningRecord) /\ Len(opens) \in Nat
         /\ DOMAIN opens = 1 .. Len(opens) /\ DOMAIN opens = DOMAIN start.open
         /\ \A k \in DOMAIN opens :
              opens[k] = [entry |-> start.open[k], stage |-> "ready", next |-> 1,
                          health |-> "clean", handle |-> "open"]
         /\ \A k \in DOMAIN opens : start.open[k] \in isInitialized /\ start.open[k] \in Entries
         /\ isInitialized \subseteq Entries
         /\ dbs \in [Entries -> 0 .. Len(opens)]
         /\ \A k \in DOMAIN opens : dbs[start.open[k]] = k
         /\ \A e \in Entries : dbs[e] # 0 => dbs[e] \in DOMAIN opens /\ start.open[dbs[e]] = e
         /\ \A e \in isInitialized : \E k \in DOMAIN opens : start.open[k] = e
<1>1. PICK open \in Seq(Entries) : open = start.open
  BY StartsAssumption
<1>2. Len(open) \in Nat /\ DOMAIN open = 1 .. Len(open) /\ \A k \in 1 .. Len(open) : open[k] \in Entries
  OBVIOUS
<1>3. /\ \A e \in Range(open) : e \in Entries /\ \E k \in 1 .. Len(open) : open[k] = e
      /\ \A k \in 1 .. Len(open) : open[k] \in Range(open)
  BY <1>2 DEF Range
<1>4. opens = [k \in 1 .. Len(open) |-> [entry |-> open[k], stage |-> "ready", next |-> 1,
                                         health |-> "clean", handle |-> "open"]]
  BY <1>1 DEF ConfigInit
<1>5. opens \in Seq(OpeningRecord)
  <2>1. \A k \in 1 .. Len(open) : opens[k] \in OpeningRecord
    BY <1>2, <1>4, ProgrammeIs DEF OpeningRecord
  <2>2. opens \in [1 .. Len(open) -> OpeningRecord]
    BY <1>4, <2>1
  <2> QED
    BY <1>2, <2>2
<1>6. Len(opens) = Len(open) /\ DOMAIN opens = 1 .. Len(open)
  BY <1>2, <1>4, <1>5
<1>7. ASSUME NEW e \in Entries
      PROVE  /\ dbs[e] \in 0 .. Len(open)
             /\ IF dbs[e] = 0 THEN e \notin Range(open) ELSE open[dbs[e]] = e
  <2>1. \E k \in 0 .. Len(open) : IF k = 0 THEN e \notin Range(open) ELSE open[k] = e
    <3>1. 0 \in 0 .. Len(open) /\ \A k \in 1 .. Len(open) : k \in 0 .. Len(open) /\ k # 0
      BY <1>2
    <3> QED
      BY <1>3, <3>1
  <2>2. dbs[e] = CHOOSE k \in 0 .. Len(start.open) :
                   IF k = 0 THEN e \notin Range(start.open) ELSE start.open[k] = e
    BY DEF ConfigInit
  <2>3. \E k \in 0 .. Len(start.open) :
          IF k = 0 THEN e \notin Range(start.open) ELSE start.open[k] = e
    BY <1>1, <2>1
  <2>4. /\ dbs[e] \in 0 .. Len(start.open)
        /\ IF dbs[e] = 0 THEN e \notin Range(start.open) ELSE start.open[dbs[e]] = e
    BY <2>2, <2>3
  <2> QED
    BY <1>1, <2>4
<1>8. isInitialized = Range(open) /\ DOMAIN dbs = Entries /\ dbs = [e \in Entries |-> dbs[e]]
  BY <1>1 DEF ConfigInit
<1>9. dbs \in [Entries -> 0 .. Len(opens)]
  BY <1>6, <1>7, <1>8
<1>10. ASSUME NEW k \in DOMAIN opens PROVE dbs[open[k]] = k
  <2>1. IsInjective(open)
    BY <1>1, StartsAssumption
  <2>2. k \in DOMAIN open /\ open[k] \in Entries /\ open[k] \in Range(open)
    BY <1>2, <1>3, <1>6
  <2>3. dbs[open[k]] \in DOMAIN open /\ open[dbs[open[k]]] = open[k]
    BY <1>2, <1>7, <2>2
  <2> QED
    BY <2>1, <2>2, <2>3 DEF IsInjective
<1>11. \A e \in Entries : dbs[e] # 0 => dbs[e] \in DOMAIN opens /\ open[dbs[e]] = e
  BY <1>2, <1>6, <1>7
<1> QED
  BY <1>1, <1>2, <1>3, <1>4, <1>5, <1>6, <1>8, <1>9, <1>10, <1>11

LEMMA TypedInit == Init => Typed
<1> SUFFICES ASSUME Init PROVE Typed
  OBVIOUS
<1>1. PICK start \in Starts : ConfigInit(start)
  BY DEF Init
<1>2. /\ opens \in Seq(OpeningRecord) /\ Len(opens) \in Nat
      /\ dbs \in [Entries -> 0 .. Len(opens)] /\ isInitialized \subseteq Entries
  BY <1>1, OpenAtStart
<1>3. initPromises \in [Entries -> 0 .. Len(opens)]
  BY <1>1, <1>2 DEF ConfigInit
<1>4. call \in [Clients -> CallTypes] /\ \A c \in Clients : call[c].stage = "idle"
  <2>1. NoCall \in CallTypes /\ NoCall.stage = "idle"
    BY <1>2 DEF NoCall, CallTypes
  <2>2. call = [c \in Clients |-> NoCall]
    BY <1>1 DEF ConfigInit
  <2> QED
    BY <2>1, <2>2
<1>5. closing \in [Processes -> ClosingTypes] /\ \A p \in Processes : closing[p].stage = "idle"
  <2>1. NotClosing \in ClosingTypes /\ NotClosing.stage = "idle"
    BY <1>2 DEF NotClosing, ClosingTypes
  <2>2. closing = [p \in Processes |-> NotClosing]
    BY <1>1 DEF ConfigInit
  <2> QED
    BY <2>1, <2>2
<1>6. file \in FileTypes
  BY <1>1, StartsAssumption DEF ConfigInit, FileTypes
<1> QED
  BY <1>2, <1>3, <1>4, <1>5, <1>6, TypedIs DEF Typed, FileTypes

\* The parts of Typed that change with the maps, the calls and the closes.
LEMMA TypedParts ==
  ASSUME opens' \in Seq(OpeningRecord), file' \in FileTypes,
         dbs' \in [Entries -> (0 .. Len(opens))'], initPromises' \in [Entries -> (0 .. Len(opens))'],
         isInitialized' \subseteq Entries, call' \in [Clients -> CallTypes'],
         closing' \in [Processes -> ClosingTypes'],
         \A c \in Clients : call'[c].stage = "waiting" => call'[c].entry \in Entries,
         \A p \in Processes : closing'[p].stage \in {"destroying", "destroyed"} => closing'[p].conn # 0
  PROVE  Typed'
  BY DEF Typed, ConfigTypeOK, OpeningRecord, CallTypes, ClosingTypes, FileTypes

LEMMA TypedCall ==
  ASSUME Typed, UNCHANGED <<file, connections, closing>>,
         NEW c, NEW r \in CallTypes, r.stage = "waiting" => r.entry \in Entries,
         call' = [call EXCEPT ![c] = r]
  PROVE  Typed'
<1>1. call' \in [Clients -> CallTypes'] /\ \A d \in Clients : call'[d] = r \/ call'[d] = call[d]
  BY TypedIs DEF Typed, CallTypes, connections
<1>2. \A d \in Clients : call'[d].stage = "waiting" => call'[d].entry \in Entries
  BY <1>1 DEF Typed
<1> QED
  BY <1>1, <1>2, TypedIs, TypedParts DEF Typed, FileTypes, ClosingTypes, connections

LEMMA TypedClosing ==
  ASSUME Typed, UNCHANGED <<file, connections, call>>,
         NEW p \in Processes, NEW r \in ClosingTypes,
         r.stage \in {"destroying", "destroyed"} => r.conn # 0,
         closing' = [closing EXCEPT ![p] = r]
  PROVE  Typed'
<1>1. /\ closing' \in [Processes -> ClosingTypes']
      /\ \A q \in Processes : closing'[q] = r \/ closing'[q] = closing[q]
  BY TypedIs DEF Typed, ClosingTypes, connections
<1>2. \A q \in Processes : closing'[q].stage \in {"destroying", "destroyed"} => closing'[q].conn # 0
  BY <1>1 DEF Typed
<1> QED
  BY <1>1, <1>2, TypedIs, TypedParts DEF Typed, FileTypes, CallTypes, connections

\* An opening changes, and with it the maps.
LEMMA TypedTouched ==
  ASSUME Typed, NEW k \in DOMAIN opens, Touched(k), file' \in FileTypes,
         dbs' \in [Entries -> 0 .. Len(opens)], initPromises' = initPromises,
         isInitialized' \subseteq Entries, UNCHANGED <<call, closing>>
  PROVE  Typed'
<1>1. opens' \in Seq(OpeningRecord) /\ Len(opens') = Len(opens)
  BY DEF Touched
<1>2. /\ call \in [Clients -> CallTypes] /\ closing \in [Processes -> ClosingTypes]
      /\ initPromises \in [Entries -> 0 .. Len(opens)]
  BY TypedIs DEF Typed
<1>3. call' \in [Clients -> CallTypes'] /\ closing' \in [Processes -> ClosingTypes']
  BY <1>1, <1>2 DEF CallTypes, ClosingTypes
<1>4. /\ dbs' \in [Entries -> (0 .. Len(opens))']
      /\ initPromises' \in [Entries -> (0 .. Len(opens))']
  BY <1>1, <1>2
<1>5. /\ \A c \in Clients : call'[c].stage = "waiting" => call'[c].entry \in Entries
      /\ \A p \in Processes :
           closing'[p].stage \in {"destroying", "destroyed"} => closing'[p].conn # 0
  BY DEF Typed
<1> QED
  BY <1>1, <1>3, <1>4, <1>5, TypedParts

\* What opening a shard adds: one opening, which the promise of the entry stands for.
LEMMA GetNewMoves ==
  ASSUME Typed, NEW c, NEW e \in Entries, GetNew(c, e)
  PROVE  /\ opens' \in Seq(OpeningRecord) /\ Len(opens) \in Nat
         /\ Len(opens') = Len(opens) + 1 /\ DOMAIN opens' = DOMAIN opens \cup {Len(opens) + 1}
         /\ DOMAIN opens = 1 .. Len(opens)
         /\ \A k \in DOMAIN opens : opens'[k] = opens[k]
         /\ opens'[Len(opens) + 1] = Opening(e)
         /\ dbs[e] = 0 /\ initPromises[e] = 0
         /\ initPromises' = [initPromises EXCEPT ![e] = Len(opens) + 1]
         /\ call' = [call EXCEPT ![c] = [stage |-> "waiting", entry |-> e, conn |-> Len(opens) + 1]]
         /\ UNCHANGED <<file, dbs, isInitialized, closing>>
<1>1. Opening(e) \in OpeningRecord
  BY ProgrammeIs DEF Opening, OpeningRecord
<1>2. PICK o \in OpeningRecord : o = Opening(e)
  BY <1>1
<1>3. opens \in Seq(OpeningRecord) /\ opens' = Append(opens, o)
  BY <1>2, TypedIs DEF Typed, GetNew
<1>4. Len(opens) \in Nat /\ DOMAIN opens = 1 .. Len(opens)
  BY <1>3
<1>5. /\ opens' \in Seq(OpeningRecord) /\ Len(opens') = Len(opens) + 1
      /\ \A k \in 1 .. Len(opens) : opens'[k] = opens[k]
      /\ opens'[Len(opens) + 1] = o
  BY <1>3, AppendProperties
<1>6. DOMAIN opens' = 1 .. Len(opens) + 1
  BY <1>5
<1>7. DOMAIN opens' = DOMAIN opens \cup {Len(opens) + 1}
  BY <1>4, <1>6
<1> QED
  BY <1>2, <1>4, <1>5, <1>7 DEF GetNew, Await

LEMMA TypedStep == Typed /\ ConfigMove => Typed'
<1> SUFFICES ASSUME Typed, ConfigMove PROVE Typed'
  OBVIOUS
<1>1. /\ file \in FileTypes /\ opens \in Seq(OpeningRecord)
      /\ dbs \in [Entries -> 0 .. Len(opens)] /\ initPromises \in [Entries -> 0 .. Len(opens)]
      /\ isInitialized \subseteq Entries
      /\ call \in [Clients -> CallTypes] /\ closing \in [Processes -> ClosingTypes]
  BY TypedIs DEF Typed, FileTypes
<1>2. Len(opens) \in Nat /\ DOMAIN opens = 1 .. Len(opens)
  BY <1>1
<1>3. 0 \in 0 .. Len(opens) /\ \A k \in DOMAIN opens : k \in 0 .. Len(opens) /\ k # 0
  BY <1>2
<1>4. ASSUME NEW c, NEW e \in Entries, GetPublished(c, e) PROVE Typed'
  <2>1. PICK r : r = [stage |-> "holding", entry |-> e, conn |-> dbs[e]]
    OBVIOUS
  <2>2. r \in CallTypes /\ r.stage = "holding"
    BY <1>1, <2>1 DEF CallTypes
  <2> QED
    BY <1>4, <2>1, <2>2, TypedCall DEF GetPublished
<1>5. ASSUME NEW c, NEW e \in Entries, GetPending(c, e) PROVE Typed'
  <2>1. PICK r : r = [stage |-> "waiting", entry |-> e, conn |-> initPromises[e]]
    OBVIOUS
  <2>2. r \in CallTypes /\ r.entry \in Entries
    BY <1>1, <2>1 DEF CallTypes
  <2> QED
    BY <1>5, <2>1, <2>2, TypedCall DEF GetPending, Await
<1>6. ASSUME NEW c, NEW e \in Entries, GetNew(c, e) PROVE Typed'
  <2>1. PICK n : n = Len(opens) + 1
    OBVIOUS
  <2>2. /\ opens' \in Seq(OpeningRecord) /\ Len(opens') = n
        /\ initPromises' = [initPromises EXCEPT ![e] = n]
        /\ call' = [call EXCEPT ![c] = [stage |-> "waiting", entry |-> e, conn |-> n]]
        /\ UNCHANGED <<file, dbs, isInitialized, closing>>
    BY <1>6, <2>1, GetNewMoves
  <2>3. Len(opens') \in Nat /\ Len(opens) <= Len(opens') /\ n \in 0 .. n /\ n \in Nat
    BY <1>2, <2>1, <2>2
  <2>4. /\ dbs \in [Entries -> (0 .. Len(opens))']
        /\ initPromises \in [Entries -> (0 .. Len(opens))']
        /\ call \in [Clients -> CallTypes'] /\ closing \in [Processes -> ClosingTypes']
    BY <2>3, MoreOpenings
  <2>5. PICK r : r = [stage |-> "waiting", entry |-> e, conn |-> n]
    OBVIOUS
  <2>6. r \in CallTypes' /\ r.entry \in Entries
    BY <2>2, <2>3, <2>5 DEF CallTypes
  <2>7. /\ call' \in [Clients -> CallTypes']
        /\ \A d \in Clients : call'[d] = r \/ call'[d] = call[d]
    BY <2>2, <2>4, <2>5, <2>6
  <2>8. initPromises' \in [Entries -> (0 .. Len(opens))']
    BY <2>2, <2>3, <2>4
  <2>9. \A d \in Clients : call'[d].stage = "waiting" => call'[d].entry \in Entries
    BY <2>6, <2>7 DEF Typed
  <2>10. \A p \in Processes :
           closing'[p].stage \in {"destroying", "destroyed"} => closing'[p].conn # 0
    BY <2>2 DEF Typed
  <2>11. /\ file' \in FileTypes /\ isInitialized' \subseteq Entries
         /\ dbs' \in [Entries -> (0 .. Len(opens))'] /\ closing' \in [Processes -> ClosingTypes']
    BY <1>1, <2>2, <2>4
  <2> QED
    BY <2>2, <2>7, <2>8, <2>9, <2>10, <2>11, TypedParts
<1>7. NoCall \in CallTypes /\ NoCall.stage # "waiting"
  BY <1>3 DEF NoCall, CallTypes
<1>8. ASSUME NEW c, Drop(c) PROVE Typed'
  BY <1>7, <1>8, TypedCall DEF Drop
<1>9. ASSUME NEW c \in Clients, Settle(c) PROVE Typed'
  <2>1. PICK got : got = IF c \in RawClients THEN dbs[call[c].entry] ELSE call[c].conn
    OBVIOUS
  <2>2. call[c] \in CallTypes /\ call[c].entry \in Entries
    BY <1>1, <1>9 DEF Typed, Settle
  <2>3. got \in 0 .. Len(opens)
    BY <1>1, <2>1, <2>2 DEF CallTypes
  <2>4. PICK r : r = IF opens[call[c].conn].stage = "rejected" \/ got = 0
                     THEN [call[c] EXCEPT !.stage = "error"]
                     ELSE [call[c] EXCEPT !.stage = "holding", !.conn = got]
    OBVIOUS
  <2>5. r \in CallTypes /\ r.stage # "waiting"
    BY <2>2, <2>3, <2>4 DEF CallTypes
  <2>6. call' = [call EXCEPT ![c] = r] /\ UNCHANGED <<file, connections, closing>>
    BY <1>1, <1>9, <2>1, <2>4 DEF Settle
  <2> QED
    BY <2>5, <2>6, TypedCall
<1>10. ASSUME NEW k \in DOMAIN opens, Publish(k) PROVE Typed'
  <2>1. /\ Touched(k) /\ Entry(k) \in Entries /\ dbs' = [dbs EXCEPT ![Entry(k)] = k]
        /\ UNCHANGED <<file, initPromises, isInitialized, call, closing>>
    BY <1>10, PublishMoves
  <2>2. dbs' \in [Entries -> 0 .. Len(opens)]
    BY <1>1, <1>3, <2>1
  <2> QED
    BY <1>1, <2>1, <2>2, TypedTouched
<1>11. ASSUME NEW k \in DOMAIN opens, Statements(k) PROVE Typed'
  BY <1>1, <1>11, StatementMoves, TypedTouched
<1>12. ASSUME NEW k \in DOMAIN opens, OpenFails(k) PROVE Typed'
  BY <1>1, <1>12, OpenFailsMoves, TypedTouched
<1>13. ASSUME NEW p \in Processes, CloseCall(p) PROVE Typed'
  <2>1. PICK r : r = [stage |-> "next", conn |-> 0, passed |-> {}]
    OBVIOUS
  <2>2. r \in ClosingTypes /\ r.stage = "next"
    BY <1>3, <2>1 DEF ClosingTypes
  <2> QED
    BY <1>13, <2>1, <2>2, TypedClosing DEF CloseCall
<1>14. ASSUME NEW p \in Processes, CloseNext(p) PROVE Typed'
  <2>1. PICK e \in Entries : /\ dbs[e] # 0
                             /\ closing' = [closing EXCEPT ![p].stage = "destroying", ![p].conn = dbs[e]]
    BY <1>14 DEF CloseNext
  <2>2. PICK r : r = [closing[p] EXCEPT !.stage = "destroying", !.conn = dbs[e]]
    OBVIOUS
  <2>3. closing[p] \in ClosingTypes /\ dbs[e] \in 0 .. Len(opens)
    BY <1>1
  <2>4. r \in ClosingTypes /\ r.conn # 0
    BY <2>1, <2>2, <2>3 DEF ClosingTypes
  <2>5. closing' = [closing EXCEPT ![p] = r]
    BY <1>1, <2>1, <2>2
  <2> QED
    BY <1>14, <2>4, <2>5, TypedClosing DEF CloseNext
<1>15. ASSUME NEW p \in Processes, Destroyed(p) PROVE Typed'
  <2>1. PICK k \in DOMAIN opens : k = closing[p].conn
    BY <1>15, DestroyedMoves
  <2>2. /\ Touched(k) /\ closing' = [closing EXCEPT ![p].stage = "destroyed"]
        /\ UNCHANGED <<file, dbs, initPromises, isInitialized, call>>
    BY <1>15, <2>1, DestroyedMoves
  <2>3. PICK r : r = [closing[p] EXCEPT !.stage = "destroyed"]
    OBVIOUS
  <2>4. closing[p] \in ClosingTypes
    BY <1>1
  <2>5. r \in ClosingTypes /\ r.conn # 0
    BY <1>3, <2>1, <2>3, <2>4 DEF ClosingTypes
  <2>6. closing' = [closing EXCEPT ![p] = r]
    BY <2>2, <2>3
  <2>7. closing' \in [Processes -> ClosingTypes] /\ \A q \in Processes : closing'[q] = r \/ closing'[q] = closing[q]
    BY <1>1, <2>5, <2>6
  <2>8. Len(opens') = Len(opens) /\ opens' \in Seq(OpeningRecord)
    BY <2>2 DEF Touched
  <2>9. closing' \in [Processes -> ClosingTypes'] /\ call' \in [Clients -> CallTypes']
    BY <1>1, <2>2, <2>7, <2>8 DEF CallTypes, ClosingTypes
  <2>10. /\ dbs' \in [Entries -> (0 .. Len(opens))']
         /\ initPromises' \in [Entries -> (0 .. Len(opens))']
    BY <1>1, <2>2, <2>8
  <2>11. /\ \A c \in Clients : call'[c].stage = "waiting" => call'[c].entry \in Entries
         /\ \A q \in Processes :
              closing'[q].stage \in {"destroying", "destroyed"} => closing'[q].conn # 0
    BY <2>2, <2>5, <2>7 DEF Typed
  <2> QED
    BY <1>1, <2>2, <2>8, <2>9, <2>10, <2>11, TypedParts
<1>16. ASSUME NEW p \in Processes, DestroyFails(p) PROVE Typed'
  <2>1. PICK r : r = [closing[p] EXCEPT !.stage = "next", !.passed = @ \cup {closing[p].conn}]
    OBVIOUS
  <2>2. closing[p] \in ClosingTypes /\ closing[p].conn # 0
    BY <1>1, <1>16 DEF Typed, DestroyFails
  <2>3. closing[p].conn \in 1 .. Len(opens)
    BY <1>2, <2>2 DEF ClosingTypes
  <2>4. r \in ClosingTypes /\ r.stage = "next"
    BY <2>1, <2>2, <2>3 DEF ClosingTypes
  <2>5. closing' = [closing EXCEPT ![p] = r]
    BY <1>1, <1>16, <2>1 DEF DestroyFails
  <2> QED
    BY <1>16, <2>4, <2>5, TypedClosing DEF DestroyFails
<1>17. ASSUME NEW p \in Processes, Forget(p) PROVE Typed'
  <2>1. PICK e : e = Entry(closing[p].conn)
    OBVIOUS
  <2>2. /\ dbs' = [dbs EXCEPT ![e] = 0] /\ initPromises' = [initPromises EXCEPT ![e] = 0]
        /\ isInitialized' \subseteq isInitialized
        /\ closing' = [closing EXCEPT ![p].stage = "next"] /\ UNCHANGED <<file, opens, call>>
    BY <1>17, <2>1 DEF Forget
  <2>3. PICK r : r = [closing[p] EXCEPT !.stage = "next"]
    OBVIOUS
  <2>4. closing[p] \in ClosingTypes
    BY <1>1
  <2>5. r \in ClosingTypes /\ r.stage = "next"
    BY <2>3, <2>4 DEF ClosingTypes
  <2>6. /\ closing' \in [Processes -> ClosingTypes]
        /\ \A q \in Processes : closing'[q] = r \/ closing'[q] = closing[q]
    BY <1>1, <2>2, <2>3, <2>5
  <2>7. /\ dbs' \in [Entries -> 0 .. Len(opens)] /\ initPromises' \in [Entries -> 0 .. Len(opens)]
    BY <1>1, <1>3, <2>2
  <2>8. /\ \A c \in Clients : call'[c].stage = "waiting" => call'[c].entry \in Entries
        /\ \A q \in Processes :
             closing'[q].stage \in {"destroying", "destroyed"} => closing'[q].conn # 0
    BY <2>2, <2>5, <2>6 DEF Typed
  <2> QED
    BY <1>1, <2>2, <2>6, <2>7, <2>8, TypedParts DEF CallTypes, ClosingTypes
<1>18. NotClosing \in ClosingTypes /\ NotClosing.stage = "idle"
  BY <1>3 DEF NotClosing, ClosingTypes
<1>19. ASSUME NEW p \in Processes, CloseEnd(p) PROVE Typed'
  BY <1>18, <1>19, TypedClosing DEF CloseEnd
<1>20. ASSUME NEW p \in Processes, CrashOf(p) PROVE Typed'
  <2>1. /\ opens' \in Seq(OpeningRecord) /\ Len(opens') = Len(opens)
        /\ dbs' \in [Entries -> 0 .. Len(opens)] /\ initPromises' \in [Entries -> 0 .. Len(opens)]
        /\ closing' = [closing EXCEPT ![p] = NotClosing]
        /\ \A c \in Clients : call'[c] = NoCall \/ call'[c] = call[c]
        /\ call' \in [Clients -> CallTypes] /\ file' = file
    BY <1>20, CrashMoves
  <2>2. /\ closing' \in [Processes -> ClosingTypes]
        /\ \A q \in Processes : closing'[q] = NotClosing \/ closing'[q] = closing[q]
    BY <1>1, <1>18, <2>1
  <2>3. isInitialized' \subseteq Entries
    BY <1>1, <1>20 DEF CrashOf
  <2>4. /\ \A c \in Clients : call'[c].stage = "waiting" => call'[c].entry \in Entries
        /\ \A q \in Processes :
             closing'[q].stage \in {"destroying", "destroyed"} => closing'[q].conn # 0
    BY <1>7, <1>18, <2>1, <2>2 DEF Typed
  <2>5. call' \in [Clients -> CallTypes'] /\ closing' \in [Processes -> ClosingTypes']
    BY <2>1, <2>2 DEF CallTypes, ClosingTypes
  <2>6. /\ dbs' \in [Entries -> (0 .. Len(opens))']
        /\ initPromises' \in [Entries -> (0 .. Len(opens))']
    BY <2>1
  <2> QED
    BY <1>1, <2>1, <2>3, <2>4, <2>5, <2>6, TypedParts
<1>21. CASE Elsewhere
  <2>1. CASE call' = call
    BY <1>1, <1>21, <2>1, TypedParts DEF Typed, Elsewhere, connections, CallTypes, ClosingTypes
  <2>2. CASE call' = [call EXCEPT ![Auditor] = NoCall]
    BY <1>7, <1>21, <2>2, TypedCall DEF Elsewhere
  <2> QED
    BY <1>21, <2>1, <2>2 DEF Elsewhere
<1> QED
  BY <1>4, <1>5, <1>6, <1>8, <1>9, <1>10, <1>11, <1>12, <1>13, <1>14, <1>15, <1>16, <1>17,
     <1>19, <1>20, <1>21
  DEF ConfigMove, GetDb, InitializeStep, CloseStep, Statements

-----------------------------------------------------------------------------
(* One connection per shard *)

\* An open connection is the one of its entry.
OpenIsMapped == OneConnectionPerShard

\* While a connection is being opened its entry has none, and its promise is the one
\* that others find.
LoadingIsAlone ==
  \A k \in DOMAIN opens :
    opens[k].stage = "loading" =>
      dbs[Entry(k)] = 0 /\ initPromises[Entry(k)] = k /\ opens[k].handle = "none"

MappedIsOwn == \A e \in Entries : dbs[e] # 0 => opens[dbs[e]].entry = e

\* closeAllShards() forgets only what it has destroyed: the connection it is at is in the
\* map until then, and no other process closes it.
ClosesItsOwn ==
  \A p \in Processes :
    closing[p].stage \in {"destroying", "destroyed"} =>
      LET k == closing[p].conn IN
      /\ dbs[opens[k].entry] = k /\ ProcessOf[opens[k].entry] = p
      /\ closing[p].stage = "destroyed" => opens[k].handle # "open"

Wiring == OpenIsMapped /\ LoadingIsAlone /\ MappedIsOwn /\ ClosesItsOwn

LEMMA WiringInit == Init => Wiring
<1> SUFFICES ASSUME Init PROVE Wiring
  OBVIOUS
<1>1. PICK start \in Starts : ConfigInit(start)
  BY DEF Init
<1>2. /\ DOMAIN opens = 1 .. Len(opens) /\ Len(opens) \in Nat
      /\ \A k \in DOMAIN opens :
           opens[k] = [entry |-> start.open[k], stage |-> "ready", next |-> 1,
                       health |-> "clean", handle |-> "open"]
      /\ \A k \in DOMAIN opens : dbs[start.open[k]] = k
      /\ \A e \in Entries : dbs[e] # 0 => dbs[e] \in DOMAIN opens /\ start.open[dbs[e]] = e
  BY <1>1, OpenAtStart
<1>3. \A k \in DOMAIN opens : Entry(k) = start.open[k] /\ opens[k].stage = "ready"
  BY <1>2 DEF Entry
<1>4. \A p \in Processes : closing[p].stage = "idle"
  BY <1>1 DEF ConfigInit, NotClosing
<1> QED
  BY <1>2, <1>3, <1>4
  DEF Wiring, OpenIsMapped, OneConnectionPerShard, LoadingIsAlone, MappedIsOwn, ClosesItsOwn, Entry

\* What a step leaves of an opening that it does not end, start or close.
LEMMA WiringTouched ==
  ASSUME Typed, Wiring, NEW k \in DOMAIN opens, Touched(k),
         opens'[k].stage # "loading", opens'[k].handle = opens[k].handle,
         UNCHANGED <<dbs, initPromises, closing>>
  PROVE  Wiring'
<1>1. /\ DOMAIN opens' = DOMAIN opens
      /\ \A j \in DOMAIN opens : opens'[j].entry = opens[j].entry
                                 /\ opens'[j].handle = opens[j].handle
                                 /\ (opens'[j].stage = "loading" => opens[j].stage = "loading")
  BY DEF Touched
<1>2. Len(opens) \in Nat /\ DOMAIN opens = 1 .. Len(opens) /\ dbs \in [Entries -> 0 .. Len(opens)]
      /\ closing \in [Processes -> ClosingTypes]
  BY TypedIs DEF Typed
<1>3. \A p \in Processes :
        closing[p].stage \in {"destroying", "destroyed"} => closing[p].conn \in DOMAIN opens
  BY <1>2 DEF Typed, ClosingTypes
<1>4. \A e \in Entries : dbs[e] # 0 => dbs[e] \in DOMAIN opens
  BY <1>2
<1>5. OpenIsMapped' /\ LoadingIsAlone'
  BY <1>1 DEF Wiring, OpenIsMapped, OneConnectionPerShard, LoadingIsAlone, Entry
<1>6. MappedIsOwn'
  BY <1>1, <1>4 DEF Wiring, MappedIsOwn, Entry
<1>7. ClosesItsOwn'
  BY <1>1, <1>3 DEF Wiring, ClosesItsOwn, Entry
<1> QED
  BY <1>5, <1>6, <1>7 DEF Wiring

LEMMA WiringStep == Typed /\ Wiring /\ ConfigMove => Wiring'
<1> SUFFICES ASSUME Typed, Wiring, ConfigMove PROVE Wiring'
  OBVIOUS
<1>1. /\ opens \in Seq(OpeningRecord) /\ Len(opens) \in Nat /\ DOMAIN opens = 1 .. Len(opens)
      /\ dbs \in [Entries -> 0 .. Len(opens)] /\ initPromises \in [Entries -> 0 .. Len(opens)]
      /\ closing \in [Processes -> ClosingTypes]
  BY TypedIs DEF Typed
<1>2. /\ \A k \in DOMAIN opens : k # 0 /\ Entry(k) \in Entries
      /\ \A e \in Entries : dbs[e] # 0 => dbs[e] \in DOMAIN opens
  <2>1. ASSUME NEW k \in DOMAIN opens PROVE Entry(k) \in Entries
    <3>1. opens[k] \in OpeningRecord
      BY <1>1
    <3> QED
      BY <3>1 DEF OpeningRecord, Entry
  <2> QED
    BY <1>1, <2>1
<1>3. \A p \in Processes :
        closing[p].stage \in {"destroying", "destroyed"} => closing[p].conn \in DOMAIN opens
  BY <1>1 DEF Typed, ClosingTypes
<1>4. CASE UNCHANGED <<connections, closing>>
  BY <1>4
  DEF Wiring, OpenIsMapped, OneConnectionPerShard, LoadingIsAlone, MappedIsOwn, ClosesItsOwn,
      Entry, connections
<1>5. ASSUME NEW c, NEW e \in Entries, GetNew(c, e) PROVE Wiring'
  <2>1. PICK n : n = Len(opens) + 1
    OBVIOUS
  <2>2. /\ DOMAIN opens' = DOMAIN opens \cup {n}
        /\ \A k \in DOMAIN opens : opens'[k] = opens[k]
        /\ opens'[n] = Opening(e) /\ dbs[e] = 0 /\ initPromises[e] = 0
        /\ initPromises' = [initPromises EXCEPT ![e] = n]
        /\ UNCHANGED <<dbs, closing>>
    BY <1>5, <2>1, GetNewMoves
  <2>3. /\ opens'[n].entry = e /\ opens'[n].stage = "loading" /\ opens'[n].handle = "none"
    BY <2>2 DEF Opening
  <2>4. OpenIsMapped'
    BY <2>2, <2>3 DEF Wiring, OpenIsMapped, OneConnectionPerShard, Entry
  <2>5. LoadingIsAlone'
    <3> SUFFICES ASSUME NEW k \in DOMAIN opens', opens'[k].stage = "loading"
                 PROVE  dbs'[Entry(k)'] = 0 /\ initPromises'[Entry(k)'] = k
                        /\ opens'[k].handle = "none"
      BY DEF LoadingIsAlone
    <3>1. CASE k = n
      BY <1>1, <2>2, <2>3, <3>1 DEF Entry
    <3>2. CASE k \in DOMAIN opens
      <4>1. /\ Entry(k)' = Entry(k) /\ dbs[Entry(k)] = 0 /\ initPromises[Entry(k)] = k
            /\ opens'[k].handle = "none"
        BY <2>2, <3>2 DEF Wiring, LoadingIsAlone, Entry
      <4>2. Entry(k) # e
        BY <1>2, <2>2, <3>2, <4>1
      <4> QED
        BY <1>1, <1>2, <2>2, <3>2, <4>1, <4>2
    <3> QED
      BY <2>2, <3>1, <3>2
  <2>6. MappedIsOwn'
    BY <1>2, <2>2 DEF Wiring, MappedIsOwn, Entry
  <2>7. ClosesItsOwn'
    BY <1>3, <2>2 DEF Wiring, ClosesItsOwn, Entry
  <2> QED
    BY <2>4, <2>5, <2>6, <2>7 DEF Wiring
<1>6. ASSUME NEW k \in DOMAIN opens, Publish(k) PROVE Wiring'
  <2>1. /\ Touched(k) /\ opens[k].stage = "loading" /\ opens'[k].stage \in {"schema", "ready"}
        /\ Entry(k) \in Entries /\ dbs' = [dbs EXCEPT ![Entry(k)] = k]
        /\ UNCHANGED <<initPromises, closing>>
    BY <1>6, PublishMoves
  <2>2. /\ DOMAIN opens' = DOMAIN opens /\ \A j \in DOMAIN opens : opens'[j].entry = opens[j].entry
        /\ \A j \in DOMAIN opens : j # k => opens'[j] = opens[j]
    BY <2>1 DEF Touched
  <2>3. PICK e \in Entries : e = Entry(k)
    BY <2>1
  <2>4. dbs[e] = 0 /\ initPromises[e] = k
    BY <2>1, <2>3 DEF Wiring, LoadingIsAlone
  <2>5. dbs' = [dbs EXCEPT ![e] = k] /\ \A j \in DOMAIN opens : Entry(j)' = Entry(j)
    BY <2>1, <2>2, <2>3 DEF Entry
  <2>6. dbs'[e] = k /\ \A f \in Entries : f # e => dbs'[f] = dbs[f]
    BY <1>1, <2>5
  <2>7. OpenIsMapped'
    <3> SUFFICES ASSUME NEW j \in DOMAIN opens, opens'[j].handle = "open"
                 PROVE  dbs'[Entry(j)'] = j
      BY <2>2 DEF OpenIsMapped, OneConnectionPerShard
    <3>1. CASE j = k
      BY <2>3, <2>5, <2>6, <3>1
    <3>2. CASE j # k
      <4>1. dbs[Entry(j)] = j
        BY <2>2, <3>2 DEF Wiring, OpenIsMapped, OneConnectionPerShard
      <4> QED
        BY <1>2, <2>4, <2>5, <2>6, <4>1
    <3> QED
      BY <3>1, <3>2
  <2>8. LoadingIsAlone'
    <3> SUFFICES ASSUME NEW j \in DOMAIN opens, opens'[j].stage = "loading"
                 PROVE  dbs'[Entry(j)'] = 0 /\ initPromises'[Entry(j)'] = j
                        /\ opens'[j].handle = "none"
      BY <2>2 DEF LoadingIsAlone
    <3>1. j # k
      BY <2>1
    <3>2. dbs[Entry(j)] = 0 /\ initPromises[Entry(j)] = j /\ opens[j].handle = "none"
      BY <2>2, <3>1 DEF Wiring, LoadingIsAlone
    <3> QED
      BY <1>2, <2>1, <2>2, <2>4, <2>5, <2>6, <3>1, <3>2
  <2>9. MappedIsOwn'
    <3> SUFFICES ASSUME NEW f \in Entries, dbs'[f] # 0 PROVE opens'[dbs'[f]].entry = f
      BY DEF MappedIsOwn, Entry
    <3>1. CASE f = e
      BY <2>2, <2>3, <2>6, <3>1 DEF Entry
    <3>2. CASE f # e
      <4>1. dbs'[f] = dbs[f] /\ dbs[f] \in DOMAIN opens /\ opens[dbs[f]].entry = f
        BY <1>2, <2>6, <3>2 DEF Wiring, MappedIsOwn, Entry
      <4> QED
        BY <2>2, <4>1 DEF Entry
    <3> QED
      BY <3>1, <3>2
  <2>10. ClosesItsOwn'
    <3> SUFFICES ASSUME NEW p \in Processes, closing[p].stage \in {"destroying", "destroyed"}
                 PROVE  /\ dbs'[opens'[closing[p].conn].entry] = closing[p].conn
                        /\ ProcessOf[opens'[closing[p].conn].entry] = p
                        /\ closing[p].stage = "destroyed" => opens'[closing[p].conn].handle # "open"
      BY <2>1 DEF ClosesItsOwn, Entry
    <3>1. PICK j \in DOMAIN opens : j = closing[p].conn
      BY <1>3
    <3>2. /\ dbs[Entry(j)] = j /\ ProcessOf[Entry(j)] = p
          /\ closing[p].stage = "destroyed" => opens[j].handle # "open"
      BY <3>1 DEF Wiring, ClosesItsOwn, Entry
    <3>3. Entry(j) # e /\ j # k
      BY <1>2, <2>3, <2>4, <3>2
    <3>4. opens'[j] = opens[j] /\ Entry(j)' = Entry(j) /\ dbs'[Entry(j)] = j
      BY <1>2, <2>2, <2>5, <2>6, <3>2, <3>3
    <3> QED
      BY <3>1, <3>2, <3>4 DEF Entry
  <2> QED
    BY <2>7, <2>8, <2>9, <2>10 DEF Wiring
<1>7. ASSUME NEW k \in DOMAIN opens, Statements(k) PROVE Wiring'
  BY <1>7, StatementMoves, WiringTouched
<1>8. ASSUME NEW k \in DOMAIN opens, OpenFails(k) PROVE Wiring'
  BY <1>8, OpenFailsMoves, WiringTouched
<1>9. ASSUME UNCHANGED connections, NEW p \in Processes, NEW r \in ClosingTypes,
             r.stage \notin {"destroying", "destroyed"}, closing' = [closing EXCEPT ![p] = r]
      PROVE  Wiring'
  <2>1. \A q \in Processes : closing'[q] = r \/ closing'[q] = closing[q]
    BY <1>1, <1>9
  <2>2. ClosesItsOwn'
    BY <1>9, <2>1 DEF Wiring, ClosesItsOwn, Entry, connections
  <2> QED
    BY <1>9, <2>2
    DEF Wiring, OpenIsMapped, OneConnectionPerShard, LoadingIsAlone, MappedIsOwn, Entry, connections
<1>10. ASSUME NEW p \in Processes, CloseNext(p) PROVE Wiring'
  <2>1. PICK e \in Entries : /\ dbs[e] # 0 /\ ProcessOf[e] = p
                             /\ closing' = [closing EXCEPT ![p].stage = "destroying", ![p].conn = dbs[e]]
    BY <1>10 DEF CloseNext
  <2>2. \A q \in Processes : q # p => closing'[q] = closing[q]
    BY <1>1, <2>1
  <2>3. closing'[p].stage = "destroying" /\ closing'[p].conn = dbs[e]
    <3>1. closing[p] \in ClosingTypes
      BY <1>1
    <3> QED
      BY <1>1, <2>1, <3>1 DEF ClosingTypes
  <2>4. UNCHANGED connections
    BY <1>10 DEF CloseNext
  <2>5. opens[dbs[e]].entry = e
    BY <2>1 DEF Wiring, MappedIsOwn, Entry
  <2>6. ClosesItsOwn'
    <3>1. opens' = opens /\ dbs' = dbs
      BY <2>4 DEF connections
    <3>2. ASSUME NEW q \in Processes, closing'[q].stage \in {"destroying", "destroyed"}
          PROVE  /\ dbs[opens[closing'[q].conn].entry] = closing'[q].conn
                 /\ ProcessOf[opens[closing'[q].conn].entry] = q
                 /\ closing'[q].stage = "destroyed" => opens[closing'[q].conn].handle # "open"
      <4>1. CASE q = p
        BY <2>1, <2>3, <2>5, <4>1
      <4>2. CASE q # p
        <5>1. closing'[q] = closing[q]
          BY <2>2, <4>2
        <5> QED
          BY <3>2, <5>1 DEF Wiring, ClosesItsOwn
      <4> QED
        BY <4>1, <4>2
    <3> QED
      BY <3>1, <3>2 DEF ClosesItsOwn
  <2> QED
    BY <2>4, <2>6
    DEF Wiring, OpenIsMapped, OneConnectionPerShard, LoadingIsAlone, MappedIsOwn, Entry, connections
<1>11. ASSUME NEW p \in Processes, CloseCall(p) \/ CloseEnd(p) \/ DestroyFails(p) PROVE Wiring'
  <2>1. UNCHANGED connections
    BY <1>11 DEF CloseCall, CloseEnd, DestroyFails
  <2>2. 0 \in 0 .. Len(opens)
    BY <1>1
  <2>3. closing[p] \in ClosingTypes
    BY <1>1
  <2>4. CASE CloseCall(p)
    <3>1. PICK r : r = [stage |-> "next", conn |-> 0, passed |-> {}]
      OBVIOUS
    <3>2. r \in ClosingTypes /\ r.stage = "next"
      BY <2>2, <3>1 DEF ClosingTypes
    <3> QED
      BY <1>9, <2>1, <2>4, <3>1, <3>2 DEF CloseCall
  <2>5. CASE CloseEnd(p)
    <3>1. NotClosing \in ClosingTypes /\ NotClosing.stage = "idle"
      BY <2>2 DEF NotClosing, ClosingTypes
    <3> QED
      BY <1>9, <2>1, <2>5, <3>1 DEF CloseEnd
  <2>6. CASE DestroyFails(p)
    <3>1. PICK r : r = [closing[p] EXCEPT !.stage = "next", !.passed = @ \cup {closing[p].conn}]
      OBVIOUS
    <3>2. closing[p].conn \in 1 .. Len(opens)
      BY <1>1, <1>3, <2>6 DEF DestroyFails
    <3>3. r \in ClosingTypes /\ r.stage = "next"
      BY <2>3, <3>1, <3>2 DEF ClosingTypes
    <3>4. closing' = [closing EXCEPT ![p] = r]
      BY <1>1, <2>6, <3>1 DEF DestroyFails
    <3> QED
      BY <1>9, <2>1, <3>3, <3>4
  <2> QED
    BY <1>11, <2>4, <2>5, <2>6
<1>12. ASSUME NEW p \in Processes, Destroyed(p) PROVE Wiring'
  <2>1. PICK k \in DOMAIN opens : k = closing[p].conn
    BY <1>12, DestroyedMoves
  <2>2. /\ Touched(k) /\ opens'[k] = [opens[k] EXCEPT !.handle = "closed"]
        /\ closing[p].stage = "destroying" /\ closing' = [closing EXCEPT ![p].stage = "destroyed"]
        /\ UNCHANGED <<dbs, initPromises>>
    BY <1>12, <2>1, DestroyedMoves
  <2>3. opens[k] \in OpeningRecord
    BY <1>1
  <2>4. opens'[k].handle = "closed" /\ opens'[k].stage = opens[k].stage
    BY <2>2, <2>3 DEF OpeningRecord
  <2>5. /\ DOMAIN opens' = DOMAIN opens /\ \A j \in DOMAIN opens : Entry(j)' = Entry(j)
        /\ \A j \in DOMAIN opens : j # k => opens'[j] = opens[j]
    BY <2>2 DEF Touched, Entry
  <2>6. dbs[Entry(k)] = k /\ ProcessOf[Entry(k)] = p
    BY <2>1, <2>2 DEF Wiring, ClosesItsOwn, Entry
  <2>7. OpenIsMapped' /\ LoadingIsAlone'
    <3>1. OpenIsMapped'
      BY <2>2, <2>4, <2>5 DEF Wiring, OpenIsMapped, OneConnectionPerShard
    <3>2. opens[k].stage # "loading"
      BY <1>2, <2>6 DEF Wiring, LoadingIsAlone
    <3>3. ASSUME NEW j \in DOMAIN opens, opens'[j].stage = "loading"
          PROVE  dbs'[Entry(j)'] = 0 /\ initPromises'[Entry(j)'] = j /\ opens'[j].handle = "none"
      <4>1. opens'[j] = opens[j] /\ Entry(j)' = Entry(j)
        BY <2>4, <2>5, <3>2, <3>3
      <4> QED
        BY <2>2, <3>3, <4>1 DEF Wiring, LoadingIsAlone
    <3>4. LoadingIsAlone'
      BY <2>5, <3>3 DEF LoadingIsAlone
    <3> QED
      BY <3>1, <3>4
  <2>8. MappedIsOwn'
    BY <1>2, <2>2, <2>5 DEF Wiring, MappedIsOwn, Entry
  <2>9. ClosesItsOwn'
    <3>1. \A q \in Processes : q # p => closing'[q] = closing[q]
      BY <1>1, <2>2
    <3>2. closing'[p].stage = "destroyed" /\ closing'[p].conn = k
      <4>1. closing[p] \in ClosingTypes
        BY <1>1
      <4> QED
        BY <1>1, <2>1, <2>2, <4>1 DEF ClosingTypes
    <3> SUFFICES ASSUME NEW q \in Processes, closing'[q].stage \in {"destroying", "destroyed"}
                 PROVE  /\ dbs'[opens'[closing[q].conn].entry] = closing[q].conn
                        /\ ProcessOf[opens'[closing[q].conn].entry] = q
                        /\ closing'[q].stage = "destroyed" => opens'[closing[q].conn].handle # "open"
                        /\ closing'[q].conn = closing[q].conn
      BY DEF ClosesItsOwn, Entry
    <3>3. CASE q = p
      BY <2>1, <2>2, <2>4, <2>5, <2>6, <3>2, <3>3 DEF Entry
    <3>4. CASE q # p
      <4>1. closing'[q] = closing[q]
        BY <3>1, <3>4
      <4>2. PICK j \in DOMAIN opens : j = closing[q].conn
        BY <1>3, <4>1
      <4>3. /\ dbs[Entry(j)] = j /\ ProcessOf[Entry(j)] = q
            /\ closing[q].stage = "destroyed" => opens[j].handle # "open"
        BY <4>1, <4>2 DEF Wiring, ClosesItsOwn, Entry
      <4>4. j # k
        BY <2>6, <3>4, <4>3
      <4> QED
        BY <2>2, <2>5, <4>1, <4>2, <4>3, <4>4 DEF Entry
    <3> QED
      BY <3>3, <3>4
  <2> QED
    BY <2>7, <2>8, <2>9 DEF Wiring
<1>13. ASSUME NEW p \in Processes, Forget(p) PROVE Wiring'
  <2>1. closing[p].stage = "destroyed"
    BY <1>13 DEF Forget
  <2>2. PICK k \in DOMAIN opens : k = closing[p].conn
    BY <1>3, <2>1
  <2>3. dbs[Entry(k)] = k /\ ProcessOf[Entry(k)] = p /\ opens[k].handle # "open"
    BY <2>1, <2>2 DEF Wiring, ClosesItsOwn, Entry
  <2>4. PICK e \in Entries : e = Entry(k)
    BY <1>2
  <2>5. /\ dbs' = [dbs EXCEPT ![e] = 0] /\ initPromises' = [initPromises EXCEPT ![e] = 0]
        /\ closing' = [closing EXCEPT ![p].stage = "next"] /\ opens' = opens
    BY <1>13, <2>2, <2>4 DEF Forget
  <2>6. \A f \in Entries : f # e => dbs'[f] = dbs[f] /\ initPromises'[f] = initPromises[f]
    BY <1>1, <2>5
  <2>7. dbs'[e] = 0
    BY <1>1, <2>5
  <2>8. OpenIsMapped'
    <3> SUFFICES ASSUME NEW j \in DOMAIN opens, opens[j].handle = "open"
                 PROVE  dbs'[Entry(j)] = j
      BY <2>5 DEF OpenIsMapped, OneConnectionPerShard, Entry
    <3>1. dbs[Entry(j)] = j
      BY DEF Wiring, OpenIsMapped, OneConnectionPerShard
    <3>2. Entry(j) # e
      BY <2>3, <2>4, <3>1
    <3> QED
      BY <1>2, <2>6, <3>1, <3>2
  <2>9. LoadingIsAlone'
    <3> SUFFICES ASSUME NEW j \in DOMAIN opens, opens[j].stage = "loading"
                 PROVE  dbs'[Entry(j)] = 0 /\ initPromises'[Entry(j)] = j /\ opens[j].handle = "none"
      BY <2>5 DEF LoadingIsAlone, Entry
    <3>1. dbs[Entry(j)] = 0 /\ initPromises[Entry(j)] = j /\ opens[j].handle = "none"
      BY DEF Wiring, LoadingIsAlone
    <3>2. Entry(j) # e
      BY <1>2, <2>3, <2>4, <3>1
    <3> QED
      BY <1>2, <2>6, <3>1, <3>2
  <2>10. MappedIsOwn'
    BY <2>5, <2>6, <2>7 DEF Wiring, MappedIsOwn, Entry
  <2>11. ClosesItsOwn'
    <3>1. closing'[p].stage = "next"
      <4>1. closing[p] \in ClosingTypes
        BY <1>1
      <4> QED
        BY <1>1, <2>5, <4>1 DEF ClosingTypes
    <3> SUFFICES ASSUME NEW q \in Processes, closing'[q].stage \in {"destroying", "destroyed"}
                 PROVE  /\ dbs'[opens[closing[q].conn].entry] = closing[q].conn
                        /\ ProcessOf[opens[closing[q].conn].entry] = q
                        /\ closing'[q].stage = "destroyed" => opens[closing[q].conn].handle # "open"
                        /\ closing'[q].conn = closing[q].conn
      BY <2>5 DEF ClosesItsOwn, Entry
    <3>2. q # p /\ closing'[q] = closing[q]
      BY <1>1, <2>5, <3>1
    <3>3. PICK j \in DOMAIN opens : j = closing[q].conn
      BY <1>3, <3>2
    <3>4. /\ dbs[Entry(j)] = j /\ ProcessOf[Entry(j)] = q
          /\ closing[q].stage = "destroyed" => opens[j].handle # "open"
      BY <3>2, <3>3 DEF Wiring, ClosesItsOwn, Entry
    <3>5. Entry(j) # e
      BY <2>3, <2>4, <3>2, <3>4
    <3> QED
      BY <1>2, <2>6, <3>2, <3>3, <3>4, <3>5 DEF Entry
  <2> QED
    BY <2>8, <2>9, <2>10, <2>11 DEF Wiring
<1>14. ASSUME NEW p \in Processes, CrashOf(p) PROVE Wiring'
  <2>1. /\ DOMAIN opens' = DOMAIN opens
        /\ \A k \in DOMAIN opens : opens'[k].entry = opens[k].entry
        /\ \A k \in DOMAIN opens :
             IF ProcessOf[Entry(k)] # p THEN opens'[k] = opens[k]
             ELSE /\ opens'[k].stage = IF opens[k].stage = "ready" THEN "ready" ELSE "rejected"
                  /\ opens'[k].handle # "open"
        /\ \A e \in Entries : /\ dbs'[e] = IF ProcessOf[e] = p THEN 0 ELSE dbs[e]
                              /\ initPromises'[e] = IF ProcessOf[e] = p THEN 0 ELSE initPromises[e]
        /\ closing' = [closing EXCEPT ![p] = NotClosing]
    BY <1>14, CrashMoves
  <2>2. \A k \in DOMAIN opens : Entry(k)' = Entry(k)
    BY <2>1 DEF Entry
  <2>3. OpenIsMapped'
    BY <1>2, <2>1, <2>2 DEF Wiring, OpenIsMapped, OneConnectionPerShard
  <2>4. LoadingIsAlone'
    <3> SUFFICES ASSUME NEW k \in DOMAIN opens, opens'[k].stage = "loading"
                 PROVE  dbs'[Entry(k)'] = 0 /\ initPromises'[Entry(k)'] = k
                        /\ opens'[k].handle = "none"
      BY <2>1 DEF LoadingIsAlone
    <3>1. ProcessOf[Entry(k)] # p /\ opens'[k] = opens[k]
      BY <2>1
    <3>2. dbs[Entry(k)] = 0 /\ initPromises[Entry(k)] = k /\ opens[k].handle = "none"
      BY <2>1, <3>1 DEF Wiring, LoadingIsAlone
    <3>3. Entry(k) \in Entries /\ Entry(k)' = Entry(k)
      BY <1>2, <2>1, <2>2
    <3>4. dbs'[Entry(k)] = 0 /\ initPromises'[Entry(k)] = k
      BY <2>1, <3>1, <3>2, <3>3
    <3> QED
      BY <3>1, <3>2, <3>3, <3>4
  <2>5. MappedIsOwn'
    <3> SUFFICES ASSUME NEW e \in Entries, dbs'[e] # 0 PROVE opens'[dbs'[e]].entry = e
      BY DEF MappedIsOwn, Entry
    <3>1. dbs'[e] = dbs[e] /\ dbs[e] \in DOMAIN opens
      BY <1>2, <2>1
    <3> QED
      BY <2>1, <3>1 DEF Wiring, MappedIsOwn, Entry
  <2>6. ClosesItsOwn'
    <3>1. closing'[p].stage = "idle" /\ \A q \in Processes : q # p => closing'[q] = closing[q]
      BY <1>1, <2>1 DEF NotClosing
    <3> SUFFICES ASSUME NEW q \in Processes, closing'[q].stage \in {"destroying", "destroyed"}
                 PROVE  /\ dbs'[opens'[closing[q].conn].entry] = closing[q].conn
                        /\ ProcessOf[opens'[closing[q].conn].entry] = q
                        /\ closing'[q].stage = "destroyed" => opens'[closing[q].conn].handle # "open"
                        /\ closing'[q].conn = closing[q].conn
      BY DEF ClosesItsOwn, Entry
    <3>2. q # p /\ closing'[q] = closing[q]
      BY <3>1
    <3>3. PICK j \in DOMAIN opens : j = closing[q].conn
      BY <1>3, <3>2
    <3>4. /\ dbs[Entry(j)] = j /\ ProcessOf[Entry(j)] = q
          /\ closing[q].stage = "destroyed" => opens[j].handle # "open"
      BY <3>2, <3>3 DEF Wiring, ClosesItsOwn, Entry
    <3> QED
      BY <1>2, <2>1, <2>2, <3>2, <3>3, <3>4 DEF Entry
  <2> QED
    BY <2>3, <2>4, <2>5, <2>6 DEF Wiring
<1>15. ASSUME NEW c, NEW e \in Entries, GetPublished(c, e) \/ GetPending(c, e) PROVE Wiring'
  BY <1>4, <1>15 DEF GetPublished, GetPending
<1>16. ASSUME NEW c, Drop(c) \/ Settle(c) PROVE Wiring'
  BY <1>4, <1>16 DEF Drop, Settle
<1>17. CASE Elsewhere
  BY <1>4, <1>17 DEF Elsewhere
<1> QED
  BY <1>5, <1>6, <1>7, <1>8, <1>10, <1>11, <1>12, <1>13, <1>14, <1>15, <1>16, <1>17
  DEF ConfigMove, GetDb, InitializeStep, CloseStep, Statements

\* The maps of Config.ts and what they stand for, in every state of the system.
ConfigInv == AuditShape /\ Typed /\ Wiring

\* Config.ts and IntegrityWorker.ts (getDb(), initializeSchema(), closeAllShards() and the
\* audit that calls them) keep ConfigInv.
THEOREM ConfigInvHolds == Spec => []ConfigInv
<1>1. Init => ConfigInv
  BY AuditShapeInit, TypedInit, WiringInit DEF ConfigInv
<1>2. ConfigInv /\ [Next]_vars => ConfigInv'
  <2>1. ConfigInv /\ [Next]_vars => ConfigMove /\ AuditShape'
    BY StepIsMove, AuditShapeStep DEF ConfigInv
  <2> QED
    BY <2>1, TypedStep, WiringStep DEF ConfigInv
<1> QED
  BY <1>1, <1>2, PTL DEF Spec

\* The maps of Config.ts stay what getDb() and closeAllShards() take them for: every value
\* has its type, whatever is open, loading, failing or being closed.
THEOREM ConfigIsTyped == Spec => []ConfigTypeOK
<1>1. ConfigInv => ConfigTypeOK
  BY DEF ConfigInv, Typed
<1> QED
  BY <1>1, ConfigInvHolds, PTL

\* A process never has two open connections to a shard, and closeAllShards() finds every
\* open one: getDb() shares the promise of an opening until its connection is in the map,
\* and the map forgets a connection only when it is closed.
THEOREM ConnectionsAreOne == Spec => []OneConnectionPerShard
<1>1. ConfigInv => OneConnectionPerShard
  BY DEF ConfigInv, Wiring, OpenIsMapped
<1> QED
  BY <1>1, ConfigInvHolds, PTL

-----------------------------------------------------------------------------
(* initializeSchema() *)

\* The key of a settings table is called "key", or will be when the table is made.
KeyOrNone(f, t) == file[f][t] = {} \/ "key" \in file[f][t]

\* A settings table has the old or the new name of its key.
FileSound == \A f \in Files, t \in KeyTables : KeyOrNone(f, t) \/ "name" \in file[f][t]

\* Opening k was disturbed, or is about to rename the key of the table of the queue.
Blocks(k) ==
  \/ opens[k].health = "faulty" \/ opens[k].stage = "rejected"
  \/ opens[k].stage = "schema" /\ opens[k].next \in {4, 5}

Blocked(f) == \E k \in DOMAIN opens : File(k) = f /\ Blocks(k)

\* What the statements that reject the initialisation when they fail have done.
Made(k, f) ==
  /\ opens[k].next > 6 => file[f]["nodes"] # {}
  /\ opens[k].next > 7 => "parentId" \in file[f]["nodes"]
  /\ opens[k].next > 8 => file[f]["settings"] # {}
  /\ opens[k].next > 9 => file[f]["queue_settings"] # {}

\* What the try block of the renames has done.  If another opening has won the rename of
\* the settings, that opening renames in the table of the queue, or is disturbed.
Renamed(k, f) ==
  /\ opens[k].next = 3 => \/ Lacks(file[f]["settings"], "rename")
                          \/ KeyOrNone(f, "queue_settings") \/ Blocked(f)
  /\ opens[k].next > 3 => KeyOrNone(f, "settings")
  /\ opens[k].next > 5 => \/ KeyOrNone(f, "queue_settings")
                          \/ opens[k].health = "raced" /\ Blocked(f)

WithIds(k, f) ==
  /\ opens[k].next > 12 => "id" \in file[f]["nodes"]
  /\ opens[k].next > 14 => "id" \in file[f]["settings"]
  /\ opens[k].next > 16 => "id" \in file[f]["queue_settings"]

Progress(k, f) == Made(k, f) /\ (opens[k].health # "faulty" => Renamed(k, f) /\ WithIds(k, f))

\* An opening of the entry ran the whole programme.
RunThrough(e) ==
  \E k \in DOMAIN opens : Entry(k) = e /\ opens[k].stage = "ready" /\ opens[k].health # "skipped"

Fine(k) ==
  /\ opens[k].stage = "loading" => opens[k].next = 1 /\ opens[k].health = "clean"
  /\ opens[k].stage = "schema" => /\ opens[k].health # "skipped"
                                  /\ \A f \in Files : File(k) = f => Progress(k, f)
  /\ opens[k].stage = "ready" =>
       /\ opens[k].health = "clean" => \A f \in Files : File(k) = f => Complete(f)
       /\ opens[k].health = "raced" => /\ opens[k].next = 18
                                       /\ \A f \in Files : File(k) = f => Progress(k, f)
       /\ opens[k].health = "skipped" => \A e \in Entries : Entry(k) = e => RunThrough(e)

SchemaInv ==
  /\ FileSound
  /\ \A k \in DOMAIN opens : Fine(k)
  /\ \A e \in isInitialized : RunThrough(e)

\* What a step may do to the files: columns stay, except the old name of a key.
FileGrows ==
  \A f \in Files, t \in Tables :
    /\ file[f][t] # {} => file'[f][t] # {}
    /\ \A c \in {"id", "key", "parentId"} : c \in file[f][t] => c \in file'[f][t]
    /\ t \in KeyTables /\ file[f][t] = {} => file'[f][t] = {} \/ "key" \in file'[f][t]

BlockedStays == \A f \in Files : Blocked(f) => Blocked(f)' \/ KeyOrNone(f, "queue_settings")'

RenameStays ==
  \A f \in Files :
    Lacks(file[f]["settings"], "rename") => Lacks(file'[f]["settings"], "rename") \/ Blocked(f)'

RunsStay == \A e \in Entries : RunThrough(e) => RunThrough(e)'

LEMMA EntryTypes ==
  ASSUME Typed, NEW k \in DOMAIN opens
  PROVE  opens[k] \in OpeningRecord /\ Entry(k) \in Entries /\ File(k) \in Files
<1>1. opens[k] \in OpeningRecord
  BY TypedIs DEF Typed
<1>2. Entry(k) \in Entries
  BY <1>1 DEF Entry, OpeningRecord
<1> QED
  BY <1>1, <1>2 DEF File, Files

\* Table t of file f becomes v, and nothing else changes.
TableBecomes(f, t, v) ==
  \A g \in Files, u \in Tables : file'[g][u] = IF g = f /\ u = t THEN v ELSE file[g][u]

LEMMA FileChanged ==
  ASSUME file \in FileTypes, NEW f \in Files, NEW t \in Tables, NEW v,
         file' = [file EXCEPT ![f][t] = v]
  PROVE  TableBecomes(f, t, v)
<1>1. file \in [Files -> [Tables -> SUBSET {"id", "key", "name", "parentId"}]]
  BY DEF FileTypes
<1>2. \A g \in Files : file[g] \in [Tables -> SUBSET {"id", "key", "name", "parentId"}]
  BY <1>1
<1>3. \A g \in Files : file'[g] = IF g = f THEN [file[f] EXCEPT ![t] = v] ELSE file[g]
  BY <1>1
<1>4. file'[f][t] = v /\ \A u \in Tables : u # t => file'[f][u] = file[f][u]
  BY <1>2, <1>3
<1> QED
  BY <1>3, <1>4 DEF TableBecomes

LEMMA FileAltered ==
  ASSUME file \in FileTypes, FileSound, NEW f \in Files, NEW t \in Tables,
         NEW change \in {"rename", "id"}, Lacks(file[f][t], change),
         change = "rename" => t \in KeyTables, change = "id" => file[f][t] # {},
         NEW v, v = Changed(file[f][t], change), TableBecomes(f, t, v)
  PROVE  /\ FileGrows /\ FileSound'
         /\ change = "rename" => KeyOrNone(f, t)'
         /\ change = "id" => "id" \in file'[f][t]
         /\ \A g \in Files :
              Lacks(file[g]["settings"], "rename") =>
                \/ Lacks(file'[g]["settings"], "rename")
                \/ g = f /\ t = "settings" /\ change = "rename"
<1>3. \A g \in Files, u \in Tables :
        file'[g][u] = IF g = f /\ u = t THEN v ELSE file[g][u]
  BY DEF TableBecomes
<1>4. "settings" \in Tables /\ KeyTables \subseteq Tables
  BY DEF Tables, KeyTables
<1>5. CASE change = "rename"
  <2>1. /\ v = (file[f][t] \ {"name"}) \cup {"key"} /\ "name" \in file[f][t]
        /\ "key" \in v /\ \A c \in {"id", "key", "parentId"} : c \in file[f][t] => c \in v
    BY <1>5 DEF Changed, Lacks
  <2>2. FileGrows
    BY <1>3, <2>1 DEF FileGrows
  <2>3. FileSound' /\ KeyOrNone(f, t)'
    BY <1>3, <1>4, <2>1 DEF FileSound, KeyOrNone
  <2>4. ASSUME NEW g \in Files, Lacks(file[g]["settings"], "rename")
        PROVE  Lacks(file'[g]["settings"], "rename") \/ (g = f /\ t = "settings" /\ change = "rename")
    BY <1>3, <1>4, <1>5, <2>4
  <2> QED
    BY <1>5, <2>2, <2>3, <2>4
<1>6. CASE change = "id"
  <2>1. v = file[f][t] \cup {"id"} /\ file[f][t] # {} /\ "id" \in v
    BY <1>6 DEF Changed
  <2>2. FileGrows
    BY <1>3, <2>1 DEF FileGrows
  <2>3. FileSound'
    BY <1>3, <1>4, <2>1 DEF FileSound, KeyOrNone
  <2>4. \A g \in Files :
          Lacks(file[g]["settings"], "rename") => Lacks(file'[g]["settings"], "rename")
    BY <1>3, <1>4, <2>1 DEF Lacks
  <2> QED
    BY <1>3, <1>6, <2>1, <2>2, <2>3, <2>4
<1> QED
  BY <1>5, <1>6

LEMMA TableMade ==
  ASSUME file \in FileTypes, FileSound, NEW f \in Files, NEW t \in Tables,
         file' = [file EXCEPT ![f][t] = IF @ = {} THEN Columns(t) ELSE @]
  PROVE  /\ FileGrows /\ FileSound' /\ file'[f][t] # {}
         /\ \A g \in Files :
              Lacks(file[g]["settings"], "rename") => Lacks(file'[g]["settings"], "rename")
<1>1. PICK v : v = IF file[f][t] = {} THEN Columns(t) ELSE file[f][t]
  OBVIOUS
<1>2. file' = [file EXCEPT ![f][t] = v]
  BY <1>1 DEF FileTypes
<1>3. \A g \in Files, u \in Tables :
        file'[g][u] = IF g = f /\ u = t THEN v ELSE file[g][u]
  BY <1>2, FileChanged DEF TableBecomes
<1>4. "settings" \in Tables /\ KeyTables \subseteq Tables
  BY DEF Tables, KeyTables
<1>5. Columns(t) # {} /\ (t \in KeyTables => "key" \in Columns(t))
  BY DEF Columns
<1>6. v # {} /\ (file[f][t] # {} => v = file[f][t]) /\ (file[f][t] = {} => v = Columns(t))
  BY <1>1, <1>5
<1>7. FileGrows
  BY <1>3, <1>5, <1>6 DEF FileGrows
<1>8. FileSound'
  BY <1>3, <1>4, <1>5, <1>6 DEF FileSound, KeyOrNone
<1>9. \A g \in Files :
        Lacks(file[g]["settings"], "rename") => Lacks(file'[g]["settings"], "rename")
  BY <1>3, <1>4, <1>6 DEF Lacks
<1> QED
  BY <1>3, <1>6, <1>7, <1>8, <1>9

LEMMA FileStays ==
  ASSUME file' = file, FileSound
  PROVE  /\ FileGrows /\ FileSound'
         /\ \A g \in Files :
              Lacks(file[g]["settings"], "rename") => Lacks(file'[g]["settings"], "rename")
  BY DEF FileGrows, FileSound, KeyOrNone

\* The key of a settings table stays found.
LEMMA KeyStays ==
  ASSUME FileGrows, NEW f \in Files, NEW t \in KeyTables, KeyOrNone(f, t)
  PROVE  KeyOrNone(f, t)'
  BY DEF FileGrows, KeyOrNone, KeyTables, Tables

\* What opening k of file f has done when it goes on from statement n to statement m.
Adds(k, f, n, m) ==
  /\ n <= 6 /\ m > 6 => file'[f]["nodes"] # {}
  /\ n <= 7 /\ m > 7 => "parentId" \in file'[f]["nodes"]
  /\ n <= 8 /\ m > 8 => file'[f]["settings"] # {}
  /\ n <= 9 /\ m > 9 => file'[f]["queue_settings"] # {}
  /\ opens'[k].health # "faulty" =>
       /\ opens[k].health # "faulty"
       /\ opens[k].health = "raced" => opens'[k].health = "raced"
       /\ n # 3 /\ m = 3 => Lacks(file'[f]["settings"], "rename")
       /\ n <= 3 /\ m > 3 => KeyOrNone(f, "settings")'
       /\ n <= 5 /\ m > 5 => \/ KeyOrNone(f, "queue_settings")'
                             \/ opens'[k].health = "raced" /\ Blocked(f)'
       /\ n <= 12 /\ m > 12 => "id" \in file'[f]["nodes"]
       /\ n <= 14 /\ m > 14 => "id" \in file'[f]["settings"]
       /\ n <= 16 /\ m > 16 => "id" \in file'[f]["queue_settings"]

\* What an opening has done stays done, and what it does next adds to it.
LEMMA ProgressMoves ==
  ASSUME NEW k \in DOMAIN opens, NEW f \in Files, Progress(k, f),
         FileGrows, BlockedStays, RenameStays,
         NEW n \in 1 .. 18, NEW m \in 1 .. 18, opens[k].next = n, opens'[k].next = m,
         Adds(k, f, n, m)
  PROVE  Progress(k, f)'
<1> USE DEF Adds
<1>1. /\ {"nodes", "settings", "queue_settings"} \subseteq Tables
      /\ "settings" \in KeyTables /\ "queue_settings" \in KeyTables
  BY DEF Tables, KeyTables
<1>2. Made(k, f)'
  BY <1>1 DEF Progress, Made, FileGrows
<1>3. ASSUME opens'[k].health # "faulty" PROVE Renamed(k, f)'
  <2>1. Renamed(k, f) /\ (opens[k].health = "raced" => opens'[k].health = "raced")
    BY <1>3 DEF Progress
  <2>2. m = 3 => \/ Lacks(file'[f]["settings"], "rename")
                 \/ KeyOrNone(f, "queue_settings")' \/ Blocked(f)'
    <3>1. CASE m = 3 /\ n = 3
      <4>1. \/ Lacks(file[f]["settings"], "rename")
            \/ KeyOrNone(f, "queue_settings") \/ Blocked(f)
        BY <2>1, <3>1 DEF Renamed
      <4>2. CASE KeyOrNone(f, "queue_settings")
        BY <1>1, <4>2, KeyStays
      <4>3. CASE Lacks(file[f]["settings"], "rename") \/ Blocked(f)
        BY <4>3 DEF RenameStays, BlockedStays
      <4> QED
        BY <4>1, <4>2, <4>3
    <3> QED
      BY <1>3, <3>1
  <2>3. m > 3 => KeyOrNone(f, "settings")'
    BY <1>1, <1>3, <2>1, KeyStays DEF Renamed
  <2>4. m > 5 => \/ KeyOrNone(f, "queue_settings")'
                 \/ opens'[k].health = "raced" /\ Blocked(f)'
    <3>1. CASE n > 5
      <4>1. \/ KeyOrNone(f, "queue_settings")
            \/ opens'[k].health = "raced" /\ Blocked(f)
        BY <2>1, <3>1 DEF Renamed
      <4>2. CASE KeyOrNone(f, "queue_settings")
        BY <1>1, <4>2, KeyStays
      <4>3. CASE opens'[k].health = "raced" /\ Blocked(f)
        BY <4>3 DEF BlockedStays
      <4> QED
        BY <4>1, <4>2, <4>3
    <3> QED
      BY <1>3, <3>1
  <2> QED
    BY <2>2, <2>3, <2>4 DEF Renamed
<1>4. ASSUME opens'[k].health # "faulty" PROVE WithIds(k, f)'
  BY <1>1, <1>4 DEF Progress, WithIds, FileGrows
<1> QED
  BY <1>2, <1>3, <1>4 DEF Progress

\* The same for an opening that stays where it is.
LEMMA ProgressStays ==
  ASSUME NEW k \in DOMAIN opens, NEW f \in Files, Progress(k, f),
         FileGrows, BlockedStays, RenameStays, opens[k].next \in 1 .. 18,
         opens'[k].next = opens[k].next, opens'[k].health = opens[k].health
  PROVE  Progress(k, f)'
<1>1. PICK n \in 1 .. 18 : n = opens[k].next
  OBVIOUS
<1>2. Adds(k, f, n, n)
  BY <1>1 DEF Adds
<1> QED
  BY <1>1, <1>2, ProgressMoves

\* An opening that does not move keeps what is known of it.
LEMMA FineStays ==
  ASSUME Typed, NEW k \in DOMAIN opens, Fine(k), FileGrows, BlockedStays, RenameStays, RunsStay,
         opens'[k].entry = opens[k].entry, opens'[k].stage = opens[k].stage,
         opens'[k].next = opens[k].next, opens'[k].health = opens[k].health
  PROVE  Fine(k)'
<1>1. opens[k].next \in 1 .. 18
  BY EntryTypes, ProgrammeIs DEF OpeningRecord
<1>2. Entry(k)' = Entry(k) /\ File(k)' = File(k)
  BY DEF Entry, File
<1>3. ASSUME NEW f \in Files, Progress(k, f) PROVE Progress(k, f)'
  BY <1>1, <1>3, ProgressStays
<1>4. ASSUME NEW f \in Files, Complete(f) PROVE Complete(f)'
  BY <1>4 DEF Complete, Columns, FileGrows, Tables, KeyTables
<1>5. opens'[k].stage = "loading" => opens'[k].next = 1 /\ opens'[k].health = "clean"
  BY DEF Fine
<1>6. opens'[k].stage = "schema" => /\ opens'[k].health # "skipped"
                                    /\ \A f \in Files : File(k)' = f => Progress(k, f)'
  BY <1>2, <1>3 DEF Fine
<1>7. opens'[k].stage = "ready" /\ opens'[k].health = "clean" =>
        \A f \in Files : File(k)' = f => Complete(f)'
  BY <1>2, <1>4 DEF Fine
<1>8. opens'[k].stage = "ready" /\ opens'[k].health = "raced" =>
        /\ opens'[k].next = 18 /\ \A f \in Files : File(k)' = f => Progress(k, f)'
  BY <1>2, <1>3 DEF Fine
<1>9. opens'[k].stage = "ready" /\ opens'[k].health = "skipped" =>
        \A e \in Entries : Entry(k)' = e => RunThrough(e)'
  BY <1>2 DEF Fine, RunsStay
<1> QED
  BY <1>5, <1>6, <1>7, <1>8, <1>9 DEF Fine

LEMMA TableOf ==
  ASSUME NEW k, opens[k].next \in 1 .. Len(Programme)
  PROVE  /\ Current(k).table = "nodes" <=> opens[k].next \in {1, 6, 7, 11, 12, 17}
         /\ Current(k).table = "settings" <=> opens[k].next \in {2, 3, 8, 13, 14}
         /\ Current(k).table = "queue_settings" <=> opens[k].next \in {4, 5, 9, 10, 15, 16}
<1>1. PICK n \in 1 .. 17 : n = opens[k].next
  BY ProgrammeIs
<1>2. Current(k) = Programme[n]
  BY <1>1 DEF Current
<1>3. \/ n = 1 \/ n = 2 \/ n = 3 \/ n = 4 \/ n = 5 \/ n = 6 \/ n = 7 \/ n = 8 \/ n = 9 \/ n = 10
      \/ n = 11 \/ n = 12 \/ n = 13 \/ n = 14 \/ n = 15 \/ n = 16 \/ n = 17
  OBVIOUS
<1> QED
  BY <1>1, <1>2, <1>3, ProgrammeIs DEF Statement

\* What the statements have in common: opening k moves, the rest stays.
LEMMA OthersStay ==
  ASSUME Typed, NEW k \in DOMAIN opens, Touched(k), opens[k].stage # "ready",
         Blocks(k) => \/ Blocks(k)'
                      \/ \A f \in Files : f = File(k) => KeyOrNone(f, "queue_settings")'
  PROVE  BlockedStays /\ RunsStay
<1>1. /\ DOMAIN opens' = DOMAIN opens
      /\ \A j \in DOMAIN opens : Entry(j)' = Entry(j) /\ File(j)' = File(j)
      /\ \A j \in DOMAIN opens : j # k => opens'[j] = opens[j]
  BY DEF Touched, Entry, File
<1>4. ASSUME NEW f \in Files, Blocked(f) PROVE Blocked(f)' \/ KeyOrNone(f, "queue_settings")'
  <2>1. PICK j \in DOMAIN opens : File(j) = f /\ Blocks(j)
    BY <1>4 DEF Blocked
  <2>2. CASE j = k
    BY <1>1, <2>1, <2>2 DEF Blocked
  <2>3. CASE j # k
    <3>1. Blocks(j)'
      BY <1>1, <2>1, <2>3 DEF Blocks
    <3> QED
      BY <1>1, <2>1, <3>1 DEF Blocked
  <2> QED
    BY <2>2, <2>3
<1>5. ASSUME NEW e \in Entries, RunThrough(e) PROVE RunThrough(e)'
  <2>1. PICK j \in DOMAIN opens :
          Entry(j) = e /\ opens[j].stage = "ready" /\ opens[j].health # "skipped"
    BY <1>5 DEF RunThrough
  <2>2. opens'[j] = opens[j] /\ Entry(j)' = e /\ j \in DOMAIN opens'
    BY <1>1, <2>1
  <2> QED
    BY <2>1, <2>2 DEF RunThrough
<1> QED
  BY <1>4, <1>5 DEF BlockedStays, RunsStay

\* A step that moves opening k keeps SchemaInv if it leaves the files sound.
LEMMA SchemaTouched ==
  ASSUME Typed, SchemaInv, NEW k \in DOMAIN opens, Touched(k),
         FileGrows, FileSound', BlockedStays, RenameStays, RunsStay, Fine(k)',
         \A e \in isInitialized' : e \in isInitialized \/ RunThrough(e)'
  PROVE  SchemaInv'
<1>1. \A j \in DOMAIN opens : j # k => opens'[j] = opens[j]
  BY DEF Touched
<1>2. ASSUME NEW j \in DOMAIN opens PROVE Fine(j)'
  <2>1. CASE j = k
    BY <2>1
  <2>2. CASE j # k
    <3>1. Fine(j) /\ opens'[j] = opens[j]
      BY <1>1, <2>2 DEF SchemaInv
    <3> QED
      BY <3>1, FineStays
  <2> QED
    BY <2>1, <2>2
<1>3. \A e \in isInitialized' : RunThrough(e)'
  BY TypedIs DEF Typed, SchemaInv, RunsStay
<1>4. DOMAIN opens' = DOMAIN opens
  BY DEF Touched
<1> QED
  BY <1>2, <1>3, <1>4 DEF SchemaInv

\* An opening that goes on with the programme, as far as its own part of the proof goes.
LEMMA FineGoesOn ==
  ASSUME Typed, NEW k \in DOMAIN opens, Touched(k), opens'[k].stage = "schema",
         opens'[k].health # "skipped", NEW f \in Files, f = File(k), Progress(k, f)'
  PROVE  Fine(k)'
<1>1. File(k)' = File(k)
  BY DEF Touched, File, Entry
<1> QED
  BY <1>1 DEF Fine

LEMMA RejectedIsFine ==
  ASSUME NEW k, opens'[k].stage = "rejected"
  PROVE  Fine(k)'
  BY DEF Fine

\* What holds of an opening whose schema is being initialised.
LEMMA InSchema ==
  ASSUME Typed, SchemaInv, NEW k \in DOMAIN opens, opens[k].stage = "schema"
  PROVE  /\ opens[k].next \in 1 .. 18 /\ opens[k].health \in {"clean", "raced", "faulty"}
         /\ Progress(k, File(k)) /\ FileSound /\ File(k) \in Files
  BY EntryTypes, ProgrammeIs DEF SchemaInv, Fine, OpeningRecord

\* What a step adds that takes an opening of file f from statement n to statement m.
Gains(f, n, m) ==
  /\ n \in {4, 5} => m \in {4, 5} \/ KeyOrNone(f, "queue_settings")'
  /\ n <= 6 /\ m > 6 => file'[f]["nodes"] # {}
  /\ n <= 7 /\ m > 7 => "parentId" \in file'[f]["nodes"]
  /\ n <= 8 /\ m > 8 => file'[f]["settings"] # {}
  /\ n <= 9 /\ m > 9 => file'[f]["queue_settings"] # {}
  /\ n # 3 /\ m = 3 => Lacks(file'[f]["settings"], "rename")
  /\ n <= 3 /\ m > 3 => KeyOrNone(f, "settings")'
  /\ n <= 5 /\ m > 5 => KeyOrNone(f, "queue_settings")'
  /\ n <= 12 /\ m > 12 => "id" \in file'[f]["nodes"]
  /\ n <= 14 /\ m > 14 => "id" \in file'[f]["settings"]
  /\ n <= 16 /\ m > 16 => "id" \in file'[f]["queue_settings"]

\* A statement that does not fail, with what it adds.
LEMMA GoesOn ==
  ASSUME Typed, SchemaInv, NEW k \in DOMAIN opens, NEW f \in Files, f = File(k),
         opens[k].stage = "schema", isInitialized' = isInitialized,
         NEW n \in 1 .. 17, NEW m \in 1 .. 18, opens[k].next = n, GoOn(k, m),
         FileGrows, FileSound',
         \A g \in Files : Lacks(file[g]["settings"], "rename") =>
                            Lacks(file'[g]["settings"], "rename") \/ (g = f /\ m = 4),
         Gains(f, n, m)
  PROVE  SchemaInv'
<1>1. Touched(k) /\ opens'[k] = [opens[k] EXCEPT !.next = m]
  <2>1. opens \in Seq(OpeningRecord) /\ m \in 1 .. Len(Programme) + 1
    BY ProgrammeIs, TypedIs DEF Typed
  <2> QED
    BY <2>1, GoOnTouches
<1>2. /\ opens'[k].next = m /\ opens'[k].stage = "schema"
      /\ opens'[k].health = opens[k].health
  BY <1>1, EntryTypes DEF OpeningRecord
<1>3. opens[k].health \in {"clean", "raced", "faulty"} /\ Progress(k, f)
  BY InSchema
<1>4. BlockedStays /\ RunsStay
  <2>1. Blocks(k) => Blocks(k)' \/ KeyOrNone(f, "queue_settings")'
    BY <1>2 DEF Blocks, Gains
  <2>2. Blocks(k) => \/ Blocks(k)'
                     \/ \A g \in Files : g = File(k) => KeyOrNone(g, "queue_settings")'
    BY <2>1
  <2> QED
    BY <1>1, <2>2, OthersStay
<1>5. RenameStays
  <2>1. m = 4 => Blocked(f)'
    <3>1. m = 4 => Blocks(k)'
      BY <1>2 DEF Blocks
    <3>2. File(k)' = f /\ k \in DOMAIN opens'
      BY <1>1 DEF Touched, File, Entry
    <3> QED
      BY <3>1, <3>2 DEF Blocked
  <2> QED
    BY <2>1 DEF RenameStays
<1>6. Progress(k, f)'
  <2>1. n \in 1 .. 18
    OBVIOUS
  <2>2. Adds(k, f, n, m)
    BY <1>2 DEF Gains, Adds
  <2> QED
    BY <1>2, <1>3, <1>4, <1>5, <2>1, <2>2, ProgressMoves
<1>7. Fine(k)'
  BY <1>1, <1>2, <1>3, <1>6, FineGoesOn
<1> QED
  BY <1>1, <1>4, <1>5, <1>7, SchemaTouched

\* A statement that fails, whether others made it fail or not.
LEMMA FailureSchema ==
  ASSUME Typed, SchemaInv, NEW k \in DOMAIN opens, NEW f \in Files, f = File(k),
         opens[k].stage = "schema", file' = file, isInitialized' = isInitialized,
         NEW n \in 1 .. 17, opens[k].next = n, NEW health \in {"raced", "faulty"},
         Failed(k, health), opens[k].health = "faulty" => health = "faulty",
         health = "raced" =>
           /\ n = 3 => KeyOrNone(f, "settings")
           /\ n = 5 => KeyOrNone(f, "queue_settings")
           /\ n = 12 => "id" \in file[f]["nodes"]
           /\ n = 14 => "id" \in file[f]["settings"]
           /\ n = 16 => "id" \in file[f]["queue_settings"]
           /\ n \in {3, 5, 12, 14, 16}
  PROVE  SchemaInv'
<1>1. /\ Touched(k)
      /\ \/ /\ n \notin {2, 3, 4, 5} \cup 11 .. 16
            /\ opens'[k] = [opens[k] EXCEPT !.stage = "rejected"]
         \/ /\ n \in {2, 3, 4, 5}
            /\ opens'[k] = [opens[k] EXCEPT !.next = 6, !.health = health]
         \/ /\ n \in {11, 13, 15}
            /\ opens'[k] = [opens[k] EXCEPT !.next = n + 2, !.health = health]
         \/ /\ n \in {12, 14, 16}
            /\ opens'[k] = [opens[k] EXCEPT !.next = n + 1, !.health = health]
  <2>1. opens \in Seq(OpeningRecord) /\ opens[k].next \in 1 .. Len(Programme)
    BY ProgrammeIs, TypedIs DEF Typed
  <2>2. health \in {"clean", "raced", "faulty", "skipped"}
    OBVIOUS
  <2> QED
    BY <2>1, <2>2, FailureTouches
<1>2. opens[k] \in OpeningRecord /\ opens[k].health \in {"clean", "raced", "faulty"}
      /\ Progress(k, f) /\ FileSound
  BY EntryTypes, InSchema
<1>3. PICK m \in 1 .. 18 :
        \/ /\ n \notin {2, 3, 4, 5} \cup 11 .. 16
           /\ opens'[k].stage = "rejected" /\ opens'[k].health = opens[k].health
        \/ /\ n \in {2, 3, 4, 5} \cup 11 .. 16 /\ opens'[k].stage = "schema"
           /\ opens'[k].health = health /\ opens'[k].next = m
           /\ n \in {2, 3, 4, 5} => m = 6
           /\ n \in {11, 13, 15} => m = n + 2
           /\ n \in {12, 14, 16} => m = n + 1
  <2>1. CASE n \notin {2, 3, 4, 5} \cup 11 .. 16
    <3>1. opens'[k].stage = "rejected" /\ opens'[k].health = opens[k].health
      BY <1>1, <1>2, <2>1 DEF OpeningRecord
    <3> QED
      BY <2>1, <3>1
  <2>2. CASE n \in {2, 3, 4, 5}
    <3>1. opens'[k] = [opens[k] EXCEPT !.next = 6, !.health = health]
      BY <1>1, <2>2
    <3>2. opens'[k].stage = "schema" /\ opens'[k].health = health /\ opens'[k].next = 6
      BY <1>2, <3>1 DEF OpeningRecord
    <3> QED
      BY <2>2, <3>2
  <2>3. CASE n \in {11, 13, 15}
    <3>1. opens'[k] = [opens[k] EXCEPT !.next = n + 2, !.health = health]
      BY <1>1, <2>3
    <3>2. opens'[k].stage = "schema" /\ opens'[k].health = health /\ opens'[k].next = n + 2
      BY <1>2, <3>1 DEF OpeningRecord
    <3> QED
      BY <2>3, <3>2
  <2>4. CASE n \in {12, 14, 16}
    <3>1. opens'[k] = [opens[k] EXCEPT !.next = n + 1, !.health = health]
      BY <1>1, <2>4
    <3>2. opens'[k].stage = "schema" /\ opens'[k].health = health /\ opens'[k].next = n + 1
      BY <1>2, <3>1 DEF OpeningRecord
    <3> QED
      BY <2>4, <3>2
  <2> QED
    BY <2>1, <2>2, <2>3, <2>4
<1>4. /\ FileGrows /\ FileSound'
      /\ \A g \in Files :
           Lacks(file[g]["settings"], "rename") => Lacks(file'[g]["settings"], "rename")
  BY <1>2, FileStays
<1>5. \A g \in Files, t \in KeyTables : KeyOrNone(g, t) => KeyOrNone(g, t)'
  BY DEF KeyOrNone
<1>6. "settings" \in KeyTables /\ "queue_settings" \in KeyTables
  BY DEF KeyTables
<1>7. BlockedStays /\ RunsStay
  <2>1. Blocks(k) => Blocks(k)' \/ KeyOrNone(f, "queue_settings")'
    <3>1. CASE opens'[k].stage = "rejected"
      BY <3>1 DEF Blocks
    <3>2. CASE opens'[k].stage = "schema" /\ opens'[k].health = "faulty"
      BY <3>2 DEF Blocks
    <3>3. CASE opens'[k].stage = "schema" /\ opens'[k].health = "raced"
      <4>1. health = "raced"
        BY <1>3, <3>3
      <4>2. opens[k].health # "faulty" /\ n \in {3, 5, 12, 14, 16}
        BY <4>1
      <4>3. Blocks(k) => n = 5
        BY <4>2 DEF Blocks
      <4> QED
        BY <1>5, <1>6, <4>1, <4>3
    <3> QED
      BY <1>3, <3>1, <3>2, <3>3
  <2>2. Blocks(k) => \/ Blocks(k)'
                     \/ \A g \in Files : g = File(k) => KeyOrNone(g, "queue_settings")'
    BY <2>1
  <2> QED
    BY <1>1, <2>2, OthersStay
<1>8. RenameStays
  BY <1>4 DEF RenameStays
<1>9. Fine(k)'
  <2>1. CASE opens'[k].stage = "rejected"
    BY <2>1, RejectedIsFine
  <2>2. CASE opens'[k].stage # "rejected"
    <3>1. /\ n \in {2, 3, 4, 5} \cup 11 .. 16 /\ opens'[k].stage = "schema"
          /\ opens'[k].health = health /\ opens'[k].next = m
          /\ n \in {2, 3, 4, 5} => m = 6
          /\ n \in {11, 13, 15} => m = n + 2
          /\ n \in {12, 14, 16} => m = n + 1
      BY <1>3, <2>2
    <3>2. /\ ~(n <= 6 /\ m > 6) /\ ~(n <= 7 /\ m > 7) /\ ~(n <= 8 /\ m > 8)
          /\ ~(n <= 9 /\ m > 9) /\ m # 3
      BY <3>1
    <3>3. ASSUME health = "raced", n <= 3, m > 3 PROVE KeyOrNone(f, "settings")'
      BY <1>5, <1>6, <3>1, <3>3
    <3>4. ASSUME health = "raced", n <= 5, m > 5
          PROVE  \/ KeyOrNone(f, "queue_settings")'
                 \/ opens'[k].health = "raced" /\ Blocked(f)'
      <4>1. CASE n = 5
        BY <1>5, <1>6, <3>4, <4>1
      <4>2. CASE n # 5
        <5>1. n = 3 /\ opens[k].health # "faulty"
          BY <3>4, <4>2
        <5>2. KeyOrNone(f, "settings") /\ Renamed(k, f)
          BY <1>2, <3>4, <5>1 DEF Progress
        <5>3. ~Lacks(file[f]["settings"], "rename")
          BY <5>2 DEF KeyOrNone, Lacks
        <5>4. KeyOrNone(f, "queue_settings") \/ Blocked(f)
          BY <5>1, <5>2, <5>3 DEF Renamed
        <5>5. KeyOrNone(f, "queue_settings")' \/ Blocked(f)'
          BY <1>5, <1>6, <1>7, <5>4 DEF BlockedStays
        <5> QED
          BY <3>1, <3>4, <5>5
      <4> QED
        BY <4>1, <4>2
    <3>5. ASSUME health = "raced"
          PROVE  /\ n <= 12 /\ m > 12 => "id" \in file'[f]["nodes"]
                 /\ n <= 14 /\ m > 14 => "id" \in file'[f]["settings"]
                 /\ n <= 16 /\ m > 16 => "id" \in file'[f]["queue_settings"]
      BY <3>1, <3>5
    <3>6. health # "faulty" => health = "raced" /\ opens[k].health # "faulty"
      OBVIOUS
    <3>7. n \in 1 .. 18
      OBVIOUS
    <3>8. Adds(k, f, n, m)
      BY <3>1, <3>2, <3>3, <3>4, <3>5, <3>6 DEF Adds
    <3>9. Progress(k, f)'
      BY <1>2, <1>4, <1>7, <1>8, <3>1, <3>7, <3>8, ProgressMoves
    <3> QED
      BY <1>1, <3>1, <3>9, FineGoesOn
  <2> QED
    BY <2>1, <2>2
<1> QED
  BY <1>1, <1>4, <1>7, <1>8, <1>9, SchemaTouched

\* The statement of a running initialisation has a number.
LEMMA RunningIs ==
  ASSUME Typed, SchemaInv, NEW k \in DOMAIN opens,
         opens[k].stage = "schema", opens[k].next <= Len(Programme)
  PROVE  /\ opens[k].next \in 1 .. 17 /\ opens[k].next \in 1 .. Len(Programme)
         /\ FileSound /\ Progress(k, File(k)) /\ File(k) \in Files
         /\ opens[k].health \in {"clean", "raced", "faulty"} /\ file \in FileTypes
         /\ file' = file => /\ FileGrows /\ FileSound'
                            /\ \A g \in Files : Lacks(file[g]["settings"], "rename") =>
                                                  Lacks(file'[g]["settings"], "rename")
<1>1. opens[k].next \in 1 .. 17
  BY InSchema, ProgrammeIs
<1> QED
  BY <1>1, InSchema, ProgrammeIs, FileStays, TypedIs DEF Typed, FileTypes

LEMMA PlainSchema ==
  ASSUME Typed, SchemaInv, NEW k \in DOMAIN opens, SetPragmas(k) \/ CreateIndex(k)
  PROVE  SchemaInv'
<1>1. /\ opens[k].stage = "schema" /\ opens[k].next <= Len(Programme)
      /\ file' = file /\ isInitialized' = isInitialized
  BY DEF SetPragmas, CreateIndex, Running
<1>2. PICK n \in 1 .. 17 : n = opens[k].next
  BY <1>1, RunningIs
<1>3. PICK f \in Files : f = File(k)
  BY <1>1, RunningIs
<1>4. /\ FileGrows /\ FileSound'
      /\ \A g \in Files : Lacks(file[g]["settings"], "rename") => Lacks(file'[g]["settings"], "rename")
  BY <1>1, RunningIs
<1>5. CASE SetPragmas(k)
  <2>1. n = 1
    <3>1. Current(k).op = "pragmas" /\ opens[k].next \in 1 .. Len(Programme)
      BY <1>1, <1>5, RunningIs DEF SetPragmas, Running
    <3> QED
      BY <1>2, <3>1, Kinds
  <2>2. PICK m \in 1 .. 18 : m = 2 /\ GoOn(k, m)
    BY <1>2, <1>5, <2>1 DEF SetPragmas
  <2>3. Gains(f, n, m)
    BY <2>1, <2>2 DEF Gains
  <2> QED
    BY <1>1, <1>2, <1>3, <1>4, <2>2, <2>3, GoesOn
<1>6. CASE CreateIndex(k)
  <2>1. n \in {7, 17} /\ Current(k).table = "nodes"
    <3>1. Current(k).op = "index" /\ opens[k].next \in 1 .. Len(Programme)
      BY <1>1, <1>6, RunningIs DEF CreateIndex, Running
    <3> QED
      BY <1>2, <3>1, Kinds, TableOf
  <2>2. CASE "parentId" \in Columns0(k)
    <3>1. GoOn(k, n + 1)
      BY <1>2, <1>6, <2>2 DEF CreateIndex
    <3>2. "parentId" \in file'[f]["nodes"]
      BY <1>1, <1>3, <2>1, <2>2 DEF Columns0
    <3>3. n + 1 \in {8, 18} /\ n + 1 \in 1 .. 18
      BY <2>1
    <3>4. PICK m \in 1 .. 18 : m = n + 1
      BY <3>3
    <3>5. GoOn(k, m) /\ Gains(f, n, m)
      BY <2>1, <3>1, <3>2, <3>4 DEF Gains
    <3> QED
      BY <1>1, <1>2, <1>3, <1>4, <3>5, GoesOn
  <2>3. CASE "parentId" \notin Columns0(k)
    <3>1. Failed(k, "faulty")
      BY <1>6, <2>3 DEF CreateIndex
    <3> QED
      BY <1>1, <1>2, <1>3, <3>1, FailureSchema
  <2> QED
    BY <2>2, <2>3
<1> QED
  BY <1>5, <1>6

LEMMA InspectSchema ==
  ASSUME Typed, SchemaInv, NEW k \in DOMAIN opens, Inspect(k)
  PROVE  SchemaInv'
<1>1. /\ opens[k].stage = "schema" /\ opens[k].next <= Len(Programme)
      /\ file' = file /\ isInitialized' = isInitialized
  BY DEF Inspect, Running
<1>2. PICK n \in 1 .. 17 : n = opens[k].next
  BY <1>1, RunningIs
<1>3. PICK f \in Files : f = File(k)
  BY <1>1, RunningIs
<1>4. /\ FileGrows /\ FileSound' /\ FileSound
      /\ \A g \in Files : Lacks(file[g]["settings"], "rename") => Lacks(file'[g]["settings"], "rename")
  BY <1>1, RunningIs
<1>5. /\ n \in {2, 4, 11, 13, 15}
      /\ n \in {2, 4} => Current(k).change = "rename"
      /\ n \in {11, 13, 15} => Current(k).change = "id"
      /\ n = 11 => Current(k).table = "nodes"
      /\ n \in {2, 13} => Current(k).table = "settings"
      /\ n \in {4, 15} => Current(k).table = "queue_settings"
  <2>1. Current(k).op = "inspect" /\ opens[k].next \in 1 .. Len(Programme)
    BY <1>1, RunningIs DEF Inspect, Running
  <2>2. n \in {2, 4, 11, 13, 15}
    BY <1>2, <2>1, Kinds
  <2>3. (n \in {2, 4} => Current(k).change = "rename") /\ (n \in {11, 13, 15} => Current(k).change = "id")
    BY <1>2, <2>1, Kinds
  <2> QED
    BY <1>2, <2>1, <2>2, <2>3, TableOf
<1>6. PICK t \in Tables : t = Current(k).table /\ Columns0(k) = file[f][t]
  BY <1>1, <1>3, RunningIs, Kinds DEF Columns0
<1>7. PICK m \in 1 .. 18 :
        /\ GoOn(k, m)
        /\ Lacks(file[f][t], Current(k).change) => m = n + 1
        /\ ~Lacks(file[f][t], Current(k).change) => m = n + 2
  <2>1. PICK m : m = n + IF Lacks(file[f][t], Current(k).change) THEN 1 ELSE 2
    OBVIOUS
  <2>2. m \in 1 .. 18 /\ (Lacks(file[f][t], Current(k).change) => m = n + 1)
        /\ (~Lacks(file[f][t], Current(k).change) => m = n + 2)
    BY <1>5, <2>1
  <2>3. GoOn(k, m)
    BY <1>2, <1>6, <2>1 DEF Inspect
  <2> QED
    BY <2>2, <2>3
<1>8. ASSUME t \in KeyTables, ~Lacks(file[f][t], "rename") PROVE KeyOrNone(f, t)'
  BY <1>1, <1>4, <1>8 DEF FileSound, KeyOrNone, Lacks
<1>9. ~Lacks(file[f][t], "id") => "id" \in file'[f][t]
  BY <1>1 DEF Lacks
<1>10. CASE n = 2
  <2>1. t = "settings" /\ t \in KeyTables /\ Current(k).change = "rename"
    BY <1>5, <1>6, <1>10 DEF KeyTables
  <2>2. \/ m = 3 /\ Lacks(file'[f]["settings"], "rename")
        \/ m = 4 /\ KeyOrNone(f, "settings")'
    BY <1>1, <1>7, <1>8, <1>10, <2>1
  <2>3. Gains(f, n, m)
    BY <1>10, <2>2 DEF Gains
  <2> QED
    BY <1>1, <1>2, <1>3, <1>4, <1>7, <2>3, GoesOn
<1>11. CASE n = 4
  <2>1. t = "queue_settings" /\ t \in KeyTables /\ Current(k).change = "rename"
    BY <1>5, <1>6, <1>11 DEF KeyTables
  <2>2. \/ m = 5
        \/ m = 6 /\ KeyOrNone(f, "queue_settings")'
    BY <1>1, <1>7, <1>8, <1>11, <2>1
  <2>3. Gains(f, n, m)
    BY <1>11, <2>2 DEF Gains
  <2> QED
    BY <1>1, <1>2, <1>3, <1>4, <1>7, <2>3, GoesOn
<1>12. CASE n \in {11, 13, 15}
  <2>1. m = n + 1 \/ (m = n + 2 /\ "id" \in file'[f][t])
    BY <1>5, <1>7, <1>9, <1>12
  <2>2. \/ n = 11 /\ (m = 12 \/ (m = 13 /\ "id" \in file'[f]["nodes"]))
        \/ n = 13 /\ (m = 14 \/ (m = 15 /\ "id" \in file'[f]["settings"]))
        \/ n = 15 /\ (m = 16 \/ (m = 17 /\ "id" \in file'[f]["queue_settings"]))
    BY <1>5, <1>6, <1>12, <2>1
  <2>3. Gains(f, n, m)
    BY <2>2 DEF Gains
  <2> QED
    BY <1>1, <1>2, <1>3, <1>4, <1>7, <2>3, GoesOn
<1> QED
  BY <1>5, <1>10, <1>11, <1>12

LEMMA AlterSchema ==
  ASSUME Typed, SchemaInv, NEW k \in DOMAIN opens, Alter(k)
  PROVE  SchemaInv'
<1>1. /\ opens[k].stage = "schema" /\ opens[k].next <= Len(Programme)
      /\ isInitialized' = isInitialized
  BY DEF Alter, Running
<1>2. PICK n \in 1 .. 17 : n = opens[k].next
  BY <1>1, RunningIs
<1>3. PICK f \in Files : f = File(k)
  BY <1>1, RunningIs
<1>4. FileSound /\ Progress(k, f) /\ opens[k].health \in {"clean", "raced", "faulty"}
      /\ file \in FileTypes
  BY <1>1, <1>3, RunningIs
<1>5. /\ n \in {3, 5, 12, 14, 16}
      /\ n \in {3, 5} => Current(k).change = "rename"
      /\ n \in {12, 14, 16} => Current(k).change = "id"
      /\ n = 12 => Current(k).table = "nodes"
      /\ n \in {3, 14} => Current(k).table = "settings"
      /\ n \in {5, 16} => Current(k).table = "queue_settings"
  <2>1. Current(k).op = "alter" /\ opens[k].next \in 1 .. Len(Programme)
    BY <1>1, RunningIs DEF Alter, Running
  <2>2. n \in {3, 5, 12, 14, 16}
    BY <1>2, <2>1, Kinds
  <2>3. (n \in {3, 5} => Current(k).change = "rename") /\ (n \in {12, 14, 16} => Current(k).change = "id")
    BY <1>2, <2>1, Kinds
  <2> QED
    BY <1>2, <2>1, <2>2, <2>3, TableOf
<1>6. PICK t \in Tables : t = Current(k).table /\ Columns0(k) = file[f][t]
  BY <1>1, <1>3, RunningIs, Kinds DEF Columns0
<1>7. PICK change \in {"rename", "id"} : change = Current(k).change
  BY <1>5
<1>8. /\ t \in Tables /\ (change = "rename" => t \in KeyTables /\ n \in {3, 5})
      /\ (change = "id" => n \in {12, 14, 16})
  BY <1>5, <1>6, <1>7 DEF KeyTables
<1>9. CASE Lacks(file[f][t], change)
  <2>1. /\ file' = [file EXCEPT ![f][t] = Changed(@, change)]
        /\ GoOn(k, n + 1)
    BY <1>2, <1>3, <1>6, <1>7, <1>9 DEF Alter
  <2>2. PICK v : v = Changed(file[f][t], change)
    OBVIOUS
  <2>3. file' = [file EXCEPT ![f][t] = v]
    BY <1>4, <2>1, <2>2 DEF FileTypes
  <2>4. TableBecomes(f, t, v)
    BY <1>4, <2>3, FileChanged
  <2>5. change = "id" => file[f][t] # {}
    BY <1>2, <1>4, <1>5, <1>6, <1>8 DEF Progress, Made
  <2>6. /\ FileGrows /\ FileSound'
        /\ change = "rename" => KeyOrNone(f, t)'
        /\ change = "id" => "id" \in file'[f][t]
        /\ \A g \in Files :
             Lacks(file[g]["settings"], "rename") =>
               \/ Lacks(file'[g]["settings"], "rename")
               \/ g = f /\ t = "settings" /\ change = "rename"
    BY <1>4, <1>8, <1>9, <2>2, <2>4, <2>5, FileAltered
  <2>7. PICK m \in 1 .. 18 : m = n + 1 /\ GoOn(k, m)
    BY <2>1
  <2>8. CASE n = 3
    <3>1. m = 4 /\ KeyOrNone(f, "settings")'
      BY <1>5, <1>6, <1>7, <2>6, <2>7, <2>8
    <3>2. Gains(f, n, m)
      BY <2>8, <3>1 DEF Gains
    <3>3. \A g \in Files : Lacks(file[g]["settings"], "rename") =>
                            Lacks(file'[g]["settings"], "rename") \/ (g = f /\ m = 4)
      BY <2>6, <3>1
    <3> QED
      BY <1>1, <1>2, <1>3, <2>6, <2>7, <3>2, <3>3, GoesOn
  <2>9. CASE n = 5
    <3>1. m = 6 /\ KeyOrNone(f, "queue_settings")' /\ t # "settings"
      BY <1>5, <1>6, <1>7, <2>6, <2>7, <2>9
    <3>2. Gains(f, n, m)
      BY <2>9, <3>1 DEF Gains
    <3>3. \A g \in Files : Lacks(file[g]["settings"], "rename") =>
                            Lacks(file'[g]["settings"], "rename") \/ (g = f /\ m = 4)
      BY <2>6, <3>1
    <3> QED
      BY <1>1, <1>2, <1>3, <2>6, <2>7, <3>2, <3>3, GoesOn
  <2>10. CASE n \in {12, 14, 16}
    <3>1. /\ change # "rename"
          /\ \/ n = 12 /\ m = 13 /\ "id" \in file'[f]["nodes"]
             \/ n = 14 /\ m = 15 /\ "id" \in file'[f]["settings"]
             \/ n = 16 /\ m = 17 /\ "id" \in file'[f]["queue_settings"]
      BY <1>5, <1>6, <1>7, <2>6, <2>7, <2>10
    <3>2. Gains(f, n, m)
      BY <3>1 DEF Gains
    <3> QED
      BY <1>1, <1>2, <1>3, <2>6, <2>7, <3>1, <3>2, GoesOn
  <2> QED
    BY <1>5, <2>8, <2>9, <2>10
<1>10. CASE ~Lacks(file[f][t], change)
  <2>1. PICK health : health = IF opens[k].health = "clean" THEN "raced" ELSE opens[k].health
    OBVIOUS
  <2>2. Failed(k, health) /\ file' = file
    BY <1>6, <1>7, <1>10, <2>1 DEF Alter
  <2>3. health \in {"raced", "faulty"} /\ (opens[k].health = "faulty" => health = "faulty")
    BY <1>4, <2>1
  <2>4. /\ change = "rename" => KeyOrNone(f, t)
        /\ change = "id" => "id" \in file[f][t]
    BY <1>4, <1>8, <1>10 DEF FileSound, KeyOrNone, Lacks
  <2>5. /\ n = 3 => KeyOrNone(f, "settings")
        /\ n = 5 => KeyOrNone(f, "queue_settings")
        /\ n = 12 => "id" \in file[f]["nodes"]
        /\ n = 14 => "id" \in file[f]["settings"]
        /\ n = 16 => "id" \in file[f]["queue_settings"]
    BY <1>5, <1>6, <1>7, <2>4
  <2> QED
    BY <1>1, <1>2, <1>3, <1>5, <2>2, <2>3, <2>5, FailureSchema
<1> QED
  BY <1>9, <1>10

LEMMA CreateSchema ==
  ASSUME Typed, SchemaInv, NEW k \in DOMAIN opens, CreateTable(k)
  PROVE  SchemaInv'
<1>1. /\ opens[k].stage = "schema" /\ opens[k].next <= Len(Programme)
      /\ isInitialized' = isInitialized
  BY DEF CreateTable, Running
<1>2. PICK n \in 1 .. 17 : n = opens[k].next
  BY <1>1, RunningIs
<1>3. PICK f \in Files : f = File(k)
  BY <1>1, RunningIs
<1>4. FileSound /\ file \in FileTypes
  BY <1>1, <1>3, RunningIs
<1>5. /\ n \in {6, 8, 9, 10}
      /\ n = 6 => Current(k).table = "nodes"
      /\ n = 8 => Current(k).table = "settings"
      /\ n \in {9, 10} => Current(k).table = "queue_settings"
  <2>1. Current(k).op = "create" /\ opens[k].next \in 1 .. Len(Programme)
    BY <1>1, RunningIs DEF CreateTable, Running
  <2> QED
    BY <1>2, <2>1, Kinds, TableOf
<1>6. PICK t \in Tables : t = Current(k).table
  BY <1>1, RunningIs, Kinds
<1>7. file' = [file EXCEPT ![f][t] = IF @ = {} THEN Columns(t) ELSE @]
  BY <1>3, <1>6 DEF CreateTable
<1>8. /\ FileGrows /\ FileSound' /\ file'[f][t] # {}
      /\ \A g \in Files :
           Lacks(file[g]["settings"], "rename") => Lacks(file'[g]["settings"], "rename")
  BY <1>4, <1>7, TableMade
<1>9. PICK m \in 1 .. 18 : m = n + 1 /\ GoOn(k, m)
  BY <1>2 DEF CreateTable
<1>10. \/ n = 6 /\ m = 7 /\ file'[f]["nodes"] # {}
       \/ n = 8 /\ m = 9 /\ file'[f]["settings"] # {}
       \/ n = 9 /\ m = 10 /\ file'[f]["queue_settings"] # {}
       \/ n = 10 /\ m = 11
  BY <1>5, <1>6, <1>8, <1>9
<1>11. Gains(f, n, m)
  BY <1>10 DEF Gains
<1> QED
  BY <1>1, <1>2, <1>3, <1>8, <1>9, <1>11, GoesOn

LEMMA FaultSchema ==
  ASSUME Typed, SchemaInv, NEW k \in DOMAIN opens, StatementOnClosed(k) \/ StatementFails(k)
  PROVE  SchemaInv'
<1>1. /\ opens[k].stage = "schema" /\ opens[k].next <= Len(Programme) /\ Failed(k, "faulty")
      /\ file' = file /\ isInitialized' = isInitialized
  BY DEF StatementOnClosed, StatementFails
<1>2. PICK n \in 1 .. 17 : n = opens[k].next
  BY <1>1, RunningIs
<1>3. PICK f \in Files : f = File(k)
  BY <1>1, RunningIs
<1> QED
  BY <1>1, <1>2, <1>3, FailureSchema

LEMMA InitializedSchema ==
  ASSUME Typed, SchemaInv, NEW k \in DOMAIN opens, Initialized(k)
  PROVE  SchemaInv'
<1>1. /\ opens[k].stage = "schema" /\ opens[k].next = 18 /\ file' = file
      /\ isInitialized' = isInitialized \cup {Entry(k)}
      /\ opens' = [opens EXCEPT ![k].stage = "ready"]
  BY ProgrammeIs DEF Initialized
<1>2. PICK f \in Files : f = File(k)
  BY EntryTypes
<1>3. /\ opens \in Seq(OpeningRecord) /\ opens[k] \in OpeningRecord
      /\ opens[k].health \in {"clean", "raced", "faulty"} /\ Progress(k, f) /\ FileSound
  BY <1>1, <1>2, EntryTypes, InSchema, TypedIs DEF Typed
<1>4. PICK r : r = [opens[k] EXCEPT !.stage = "ready"]
  OBVIOUS
<1>5. r \in OpeningRecord /\ r.entry = opens[k].entry /\ r.stage = "ready"
      /\ r.next = opens[k].next /\ r.health = opens[k].health
  BY <1>3, <1>4 DEF OpeningRecord
<1>6. Touched(k) /\ opens'[k] = r
  BY <1>1, <1>3, <1>4, <1>5, Touch
<1>7. /\ FileGrows /\ FileSound'
      /\ \A g \in Files :
           Lacks(file[g]["settings"], "rename") => Lacks(file'[g]["settings"], "rename")
  BY <1>1, <1>3, FileStays
<1>8. BlockedStays /\ RunsStay
  <2>1. Blocks(k) => Blocks(k)'
    BY <1>1, <1>5, <1>6 DEF Blocks
  <2> QED
    BY <1>1, <1>6, <2>1, OthersStay
<1>9. RenameStays
  BY <1>7 DEF RenameStays
<1>10. Progress(k, f)'
  <2>1. /\ opens[k].next \in 1 .. 18 /\ opens'[k].next = opens[k].next
        /\ opens'[k].health = opens[k].health
    BY <1>1, <1>5, <1>6
  <2> QED
    BY <1>3, <1>7, <1>8, <1>9, <2>1, ProgressStays
<1>11. ASSUME opens[k].health = "clean" PROVE Complete(f)'
  <2>1. /\ "parentId" \in file[f]["nodes"] /\ "id" \in file[f]["nodes"]
        /\ file[f]["settings"] # {} /\ KeyOrNone(f, "settings") /\ "id" \in file[f]["settings"]
        /\ file[f]["queue_settings"] # {} /\ KeyOrNone(f, "queue_settings")
        /\ "id" \in file[f]["queue_settings"]
    BY <1>1, <1>3, <1>11 DEF Progress, Made, Renamed, WithIds
  <2>2. "key" \in file[f]["settings"] /\ "key" \in file[f]["queue_settings"]
    BY <2>1 DEF KeyOrNone
  <2> QED
    BY <1>1, <2>1, <2>2 DEF Complete, Columns, Tables, KeyTables
<1>12. File(k)' = f /\ Entry(k)' = Entry(k)
  BY <1>2, <1>6 DEF Touched, File, Entry
<1>13. opens'[k].stage = "ready" /\ opens'[k].next = 18 /\ opens'[k].health = opens[k].health
  BY <1>1, <1>5, <1>6
<1>14. Fine(k)'
  BY <1>3, <1>10, <1>11, <1>12, <1>13 DEF Fine
<1>15. RunThrough(Entry(k))'
  <2>1. PICK e : e = Entry(k)
    OBVIOUS
  <2>2. RunThrough(e)'
    BY <1>3, <1>6, <1>12, <1>13, <2>1 DEF RunThrough, Touched
  <2> QED
    BY <1>12, <2>1, <2>2
<1>16. \A e \in isInitialized' : e \in isInitialized \/ RunThrough(e)'
  BY <1>1, <1>12, <1>15
<1> QED
  BY <1>6, <1>7, <1>8, <1>9, <1>14, <1>16, SchemaTouched

LEMMA StatementSchema ==
  ASSUME Typed, SchemaInv, NEW k \in DOMAIN opens, Statements(k)
  PROVE  SchemaInv'
  BY PlainSchema, InspectSchema, AlterSchema, CreateSchema, FaultSchema, InitializedSchema
  DEF Statements

LEMMA PublishSchema ==
  ASSUME Typed, SchemaInv, NEW k \in DOMAIN opens, Publish(k)
  PROVE  SchemaInv'
<1>1. /\ Touched(k) /\ opens[k].stage = "loading" /\ opens'[k].stage \in {"schema", "ready"}
      /\ opens'[k].stage = "ready" => opens'[k].health = "skipped" /\ Entry(k) \in isInitialized
      /\ opens'[k].stage = "schema" => /\ opens'[k].health = opens[k].health
                                       /\ opens'[k].next = opens[k].next
      /\ Entry(k) \in Entries /\ UNCHANGED <<file, isInitialized>>
  BY PublishMoves
<1>2. opens[k].next = 1 /\ opens[k].health = "clean" /\ FileSound
  BY <1>1 DEF SchemaInv, Fine
<1>3. /\ FileGrows /\ FileSound'
      /\ \A g \in Files :
           Lacks(file[g]["settings"], "rename") => Lacks(file'[g]["settings"], "rename")
  BY <1>1, <1>2, FileStays
<1>4. BlockedStays /\ RunsStay
  <2>1. ~Blocks(k)
    BY <1>1, <1>2 DEF Blocks
  <2> QED
    BY <1>1, <2>1, OthersStay
<1>5. RenameStays
  BY <1>3 DEF RenameStays
<1>6. PICK e \in Entries : e = Entry(k)
  BY <1>1
<1>7. Entry(k)' = e
  BY <1>1, <1>6 DEF Touched, Entry
<1>8. CASE opens'[k].stage = "ready"
  <2>1. RunThrough(e)'
    BY <1>1, <1>4, <1>6, <1>8 DEF SchemaInv, RunsStay
  <2>2. Fine(k)'
    BY <1>1, <1>7, <1>8, <2>1 DEF Fine
  <2> QED
    BY <1>1, <1>3, <1>4, <1>5, <2>2, SchemaTouched
<1>9. CASE opens'[k].stage = "schema"
  <2>1. opens'[k].next = 1 /\ opens'[k].health = "clean"
    BY <1>1, <1>2, <1>9
  <2>2. \A f \in Files : Progress(k, f)'
    BY <2>1 DEF Progress, Made, Renamed, WithIds
  <2>3. Fine(k)'
    BY <1>9, <2>1, <2>2 DEF Fine
  <2> QED
    BY <1>1, <1>3, <1>4, <1>5, <2>3, SchemaTouched
<1> QED
  BY <1>1, <1>8, <1>9

\* Openings stay where they are or, unless they are ready, are rejected; new ones load.
LEMMA OpeningsStay ==
  ASSUME Typed, SchemaInv, file' = file, isInitialized' \subseteq isInitialized,
         \A k \in DOMAIN opens :
           /\ k \in DOMAIN opens'
           /\ opens'[k].entry = opens[k].entry /\ opens'[k].next = opens[k].next
           /\ opens'[k].health = opens[k].health
           /\ \/ opens'[k].stage = opens[k].stage
              \/ opens'[k].stage = "rejected" /\ opens[k].stage # "ready",
         \A k \in DOMAIN opens' :
           k \in DOMAIN opens \/ (/\ opens'[k].stage = "loading" /\ opens'[k].next = 1
                                  /\ opens'[k].health = "clean")
  PROVE  SchemaInv'
<1>1. /\ FileGrows /\ FileSound'
      /\ \A g \in Files :
           Lacks(file[g]["settings"], "rename") => Lacks(file'[g]["settings"], "rename")
  BY FileStays DEF SchemaInv
<1>2. \A k \in DOMAIN opens : Entry(k)' = Entry(k) /\ File(k)' = File(k)
  BY DEF Entry, File
<1>3. BlockedStays
  <2>1. \A k \in DOMAIN opens : Blocks(k) => Blocks(k)'
    BY DEF Blocks
  <2>2. ASSUME NEW f \in Files, Blocked(f) PROVE Blocked(f)'
    <3>1. PICK k \in DOMAIN opens : File(k) = f /\ Blocks(k)
      BY <2>2 DEF Blocked
    <3>2. k \in DOMAIN opens' /\ File(k)' = f /\ Blocks(k)'
      BY <1>2, <2>1, <3>1
    <3> QED
      BY <3>2 DEF Blocked
  <2> QED
    BY <2>2 DEF BlockedStays
<1>4. RunsStay
  <2>1. ASSUME NEW e \in Entries, RunThrough(e) PROVE RunThrough(e)'
    <3>1. PICK k \in DOMAIN opens :
            Entry(k) = e /\ opens[k].stage = "ready" /\ opens[k].health # "skipped"
      BY <2>1 DEF RunThrough
    <3>2. k \in DOMAIN opens' /\ Entry(k)' = e /\ opens'[k].stage = "ready"
          /\ opens'[k].health # "skipped"
      BY <1>2, <3>1
    <3> QED
      BY <3>2 DEF RunThrough
  <2> QED
    BY <2>1 DEF RunsStay
<1>5. RenameStays
  BY <1>1 DEF RenameStays
<1>6. ASSUME NEW k \in DOMAIN opens' PROVE Fine(k)'
  <2>1. CASE k \notin DOMAIN opens
    BY <2>1 DEF Fine
  <2>2. CASE k \in DOMAIN opens /\ opens'[k].stage = "rejected"
    BY <2>2, RejectedIsFine
  <2>3. CASE k \in DOMAIN opens /\ opens'[k].stage # "rejected"
    <3>1. /\ opens'[k].stage = opens[k].stage /\ opens'[k].entry = opens[k].entry
          /\ opens'[k].next = opens[k].next /\ opens'[k].health = opens[k].health
      BY <2>3
    <3>2. Fine(k)
      BY <2>3 DEF SchemaInv
    <3> QED
      BY <1>1, <1>3, <1>4, <1>5, <2>3, <3>1, <3>2, FineStays
  <2> QED
    BY <2>1, <2>2, <2>3
<1>7. \A e \in isInitialized' : RunThrough(e)'
  BY <1>4, TypedIs DEF Typed, SchemaInv, RunsStay
<1> QED
  BY <1>1, <1>6, <1>7 DEF SchemaInv

LEMMA SchemaInit == Init => SchemaInv
<1> SUFFICES ASSUME Init PROVE SchemaInv
  OBVIOUS
<1>1. PICK start \in Starts : ConfigInit(start)
  BY DEF Init
<1>2. /\ \A k \in DOMAIN opens :
           opens[k] = [entry |-> start.open[k], stage |-> "ready", next |-> 1,
                       health |-> "clean", handle |-> "open"]
      /\ DOMAIN opens = DOMAIN start.open
      /\ \A e \in isInitialized : \E k \in DOMAIN opens : start.open[k] = e
  BY <1>1, OpenAtStart
<1>3. /\ file = start.file
      /\ \A e \in Range(start.open), t \in Tables : Columns(t) \subseteq start.file[FileOf[e]][t]
      /\ \A f \in Files, t \in KeyTables :
           start.file[f][t] = {} \/ start.file[f][t] \cap {"name", "key"} # {}
  BY <1>1, StartsAssumption DEF ConfigInit
<1>4. FileSound
  BY <1>3 DEF FileSound, KeyOrNone
<1>5. ASSUME NEW k \in DOMAIN opens
      PROVE  opens[k].stage = "ready" /\ opens[k].health = "clean" /\ Entry(k) = start.open[k]
  <2>1. PICK e : e = start.open[k]
    OBVIOUS
  <2>2. opens[k] = [entry |-> e, stage |-> "ready", next |-> 1, health |-> "clean",
                    handle |-> "open"]
    BY <1>2, <2>1
  <2>3. opens[k].entry = e /\ opens[k].stage = "ready" /\ opens[k].health = "clean"
    BY ONLY <2>2
  <2> QED
    BY <2>1, <2>3 DEF Entry
<1>6. ASSUME NEW k \in DOMAIN opens PROVE Complete(File(k))
  <2>1. Entry(k) = start.open[k]
    BY <1>5
  <2>2. File(k) = FileOf[start.open[k]]
    BY <2>1 DEF File
  <2>3. start.open[k] \in Range(start.open)
    BY <1>2 DEF Range
  <2> QED
    BY <1>3, <2>2, <2>3 DEF Complete
<1>7. \A k \in DOMAIN opens : Fine(k)
  BY <1>6, <1>5 DEF Fine
<1>8. \A e \in isInitialized : RunThrough(e)
  BY <1>2, <1>5 DEF RunThrough
<1> QED
  BY <1>4, <1>7, <1>8 DEF SchemaInv

LEMMA SchemaStep == Typed /\ SchemaInv /\ ConfigMove => SchemaInv'
<1> SUFFICES ASSUME Typed, SchemaInv, ConfigMove PROVE SchemaInv'
  OBVIOUS
<1>1. ASSUME file' = file, opens' = opens, isInitialized' \subseteq isInitialized PROVE SchemaInv'
  BY <1>1, OpeningsStay
<1>2. ASSUME NEW c, NEW e \in Entries, GetNew(c, e) PROVE SchemaInv'
  <2>1. /\ Len(opens) \in Nat /\ DOMAIN opens = 1 .. Len(opens)
        /\ DOMAIN opens' = DOMAIN opens \cup {Len(opens) + 1}
        /\ \A k \in DOMAIN opens : opens'[k] = opens[k]
        /\ opens'[Len(opens) + 1] = Opening(e)
        /\ file' = file /\ isInitialized' = isInitialized
    BY <1>2, GetNewMoves
  <2>2. \A k \in DOMAIN opens' :
          k \in DOMAIN opens \/ (/\ opens'[k].stage = "loading" /\ opens'[k].next = 1
                                 /\ opens'[k].health = "clean")
    BY <2>1 DEF Opening
  <2> QED
    BY <2>1, <2>2, OpeningsStay
<1>3. ASSUME NEW k \in DOMAIN opens, OpenFails(k) PROVE SchemaInv'
  <2>1. opens' = [opens EXCEPT ![k].stage = "rejected"] /\ opens[k].stage = "loading"
        /\ file' = file /\ isInitialized' = isInitialized
    BY <1>3 DEF OpenFails
  <2>2. opens[k] \in OpeningRecord
    BY EntryTypes
  <2>3. /\ opens'[k].entry = opens[k].entry /\ opens'[k].next = opens[k].next
        /\ opens'[k].health = opens[k].health /\ opens'[k].stage = "rejected"
    BY <2>1, <2>2 DEF OpeningRecord
  <2>4. DOMAIN opens' = DOMAIN opens /\ \A j \in DOMAIN opens : j # k => opens'[j] = opens[j]
    BY <2>1
  <2> QED
    BY <2>1, <2>3, <2>4, OpeningsStay
<1>4. ASSUME NEW p \in Processes, Destroyed(p) PROVE SchemaInv'
  <2>1. PICK k \in DOMAIN opens : k = closing[p].conn
    BY <1>4, DestroyedMoves
  <2>2. /\ Touched(k) /\ opens'[k] = [opens[k] EXCEPT !.handle = "closed"]
        /\ file' = file /\ isInitialized' = isInitialized
    BY <1>4, <2>1, DestroyedMoves
  <2>3. opens[k] \in OpeningRecord
    BY EntryTypes
  <2>4. /\ opens'[k].entry = opens[k].entry /\ opens'[k].next = opens[k].next
        /\ opens'[k].health = opens[k].health /\ opens'[k].stage = opens[k].stage
    BY <2>2, <2>3 DEF OpeningRecord
  <2>5. DOMAIN opens' = DOMAIN opens /\ \A j \in DOMAIN opens : j # k => opens'[j] = opens[j]
    BY <2>2 DEF Touched
  <2> QED
    BY <2>2, <2>4, <2>5, OpeningsStay
<1>5. ASSUME NEW p \in Processes, Forget(p) PROVE SchemaInv'
  BY <1>1, <1>5 DEF Forget
<1>6. ASSUME NEW p \in Processes, CrashOf(p) PROVE SchemaInv'
  <2>1. /\ DOMAIN opens' = DOMAIN opens /\ file' = file
        /\ \A k \in DOMAIN opens : /\ opens'[k].entry = opens[k].entry
                                   /\ opens'[k].next = opens[k].next
                                   /\ opens'[k].health = opens[k].health
        /\ \A k \in DOMAIN opens :
             IF ProcessOf[Entry(k)] # p THEN opens'[k] = opens[k]
             ELSE /\ opens'[k].stage = IF opens[k].stage = "ready" THEN "ready" ELSE "rejected"
                  /\ opens'[k].handle # "open"
    BY <1>6, CrashMoves
  <2>2. isInitialized' \subseteq isInitialized
    BY <1>6 DEF CrashOf
  <2>3. \A k \in DOMAIN opens : \/ opens'[k].stage = opens[k].stage
                                \/ opens'[k].stage = "rejected" /\ opens[k].stage # "ready"
    BY <2>1
  <2> QED
    BY <2>1, <2>2, <2>3, OpeningsStay
<1>7. ASSUME UNCHANGED <<file, connections>> PROVE SchemaInv'
  BY <1>1, <1>7 DEF connections
<1>8. ASSUME NEW c, NEW e \in Entries, GetPublished(c, e) \/ GetPending(c, e) PROVE SchemaInv'
  BY <1>7, <1>8 DEF GetPublished, GetPending
<1>9. ASSUME NEW c, Drop(c) \/ Settle(c) PROVE SchemaInv'
  BY <1>7, <1>9 DEF Drop, Settle
<1>10. ASSUME NEW p, CloseCall(p) \/ CloseNext(p) \/ CloseEnd(p) \/ DestroyFails(p) PROVE SchemaInv'
  BY <1>7, <1>10 DEF CloseCall, CloseNext, CloseEnd, DestroyFails
<1>11. CASE Elsewhere
  BY <1>7, <1>11 DEF Elsewhere
<1> QED
  BY <1>2, <1>3, <1>4, <1>5, <1>6, <1>8, <1>9, <1>10, <1>11, PublishSchema, StatementSchema
  DEF ConfigMove, GetDb, InitializeStep, CloseStep, Statements

\* Of a file whose openings are ready and not faulty, one ran the programme, and no other
\* holds it up.
LEMMA SchemaInvHeals == Typed /\ SchemaInv => SchemaHealed
<1> SUFFICES ASSUME Typed, SchemaInv, NEW f \in Files, Initialised(f) PROVE Complete(f)
  BY DEF SchemaHealed
<1>1. CASE \E k \in OpeningsOf(f) : opens[k].stage = "ready" /\ opens[k].health = "clean"
  BY <1>1 DEF OpeningsOf, SchemaInv, Fine
<1>2. CASE /\ OpeningsOf(f) # {}
           /\ \A k \in OpeningsOf(f) : opens[k].stage = "ready" /\ opens[k].health # "faulty"
  <2>1. \A k \in DOMAIN opens : File(k) = f => opens[k].stage = "ready" /\ opens[k].health # "faulty"
    BY <1>2 DEF OpeningsOf
  <2>2. ~Blocked(f)
    BY <2>1 DEF Blocked, Blocks
  <2>3. PICK j \in DOMAIN opens : File(j) = f
    BY <1>2 DEF OpeningsOf
  <2>4. PICK k \in DOMAIN opens :
          File(k) = f /\ opens[k].stage = "ready" /\ opens[k].health # "skipped"
    <3>1. CASE opens[j].health # "skipped"
      BY <2>1, <2>3, <3>1
    <3>2. CASE opens[j].health = "skipped"
      <4>1. RunThrough(Entry(j))
        BY <2>1, <2>3, <3>2, EntryTypes DEF SchemaInv, Fine
      <4>2. PICK i \in DOMAIN opens :
              Entry(i) = Entry(j) /\ opens[i].stage = "ready" /\ opens[i].health # "skipped"
        BY <4>1 DEF RunThrough
      <4>3. File(i) = f
        BY <2>3, <4>2 DEF File
      <4> QED
        BY <4>2, <4>3
    <3> QED
      BY <3>1, <3>2
  <2>5. opens[k].health \in {"clean", "raced"}
    BY <2>1, <2>4, EntryTypes DEF OpeningRecord
  <2>6. CASE opens[k].health = "clean"
    BY <2>4, <2>6 DEF SchemaInv, Fine
  <2>7. CASE opens[k].health = "raced"
    <3>1. opens[k].next = 18 /\ Progress(k, f)
      BY <2>4, <2>7 DEF SchemaInv, Fine
    <3>2. /\ "parentId" \in file[f]["nodes"] /\ "id" \in file[f]["nodes"]
          /\ file[f]["settings"] # {} /\ KeyOrNone(f, "settings") /\ "id" \in file[f]["settings"]
          /\ file[f]["queue_settings"] # {} /\ KeyOrNone(f, "queue_settings")
          /\ "id" \in file[f]["queue_settings"]
      BY <2>2, <2>7, <3>1 DEF Progress, Made, Renamed, WithIds
    <3>3. "key" \in file[f]["settings"] /\ "key" \in file[f]["queue_settings"]
      BY <3>2 DEF KeyOrNone
    <3> QED
      BY <3>2, <3>3 DEF Complete, Columns, Tables, KeyTables
  <2> QED
    BY <2>5, <2>6, <2>7
<1> QED
  BY <1>1, <1>2 DEF Initialised

\* initializeSchema() of an opening that nothing but a lost race disturbed leaves the file
\* with every column the code needs, whatever tables it began with, and however openings
\* of other processes, crashes and failures interleave with it.
THEOREM SchemasHeal == Spec => []SchemaHealed
<1>1. Init => AuditShape /\ Typed /\ SchemaInv
  BY AuditShapeInit, TypedInit, SchemaInit
<1>2. AuditShape /\ Typed /\ SchemaInv /\ [Next]_vars => (AuditShape /\ Typed /\ SchemaInv)'
  BY StepIsMove, AuditShapeStep, TypedStep, SchemaStep
<1>3. AuditShape /\ Typed /\ SchemaInv => SchemaHealed
  BY SchemaInvHeals
<1> QED
  BY <1>1, <1>2, <1>3, PTL DEF Spec
-----------------------------------------------------------------------------
(* The folds of the audit *)

Runs == INSTANCE FoldLemmas WITH Op <- LAMBDA p, t, x : Applied(t, x)

Kept == INSTANCE FoldLemmas WITH Op <- LAMBDA p, t, x : IF x \in p THEN Append(t, x) ELSE t

-----------------------------------------------------------------------------
(* Rows and operations *)

LEMMA AmongIsFold == \A rows, set : Among(rows, set) = Kept!Fold(set, <<>>, rows)
BY DEF Among, FoldLeft, MapThenFoldSet, Max, Kept!Fold, Kept!FoldLeft, Kept!MapThenFoldSet, Kept!Max

LEMMA AmongIs ==
  /\ \A set : Among(<<>>, set) = <<>>
  /\ \A X, set : \A s \in Seq(X) : \A x \in X :
       Among(Append(s, x), set) = IF x \in set THEN Append(Among(s, set), x) ELSE Among(s, set)
<1>1. \A set : Among(<<>>, set) = <<>>
  BY AmongIsFold, Kept!FoldOfNone
<1>2. ASSUME NEW X, NEW set, NEW s \in Seq(X), NEW x \in X
      PROVE  Among(Append(s, x), set)
             = IF x \in set THEN Append(Among(s, set), x) ELSE Among(s, set)
  <2>1. Kept!Fold(set, <<>>, Append(s, x))
        = IF x \in set THEN Append(Kept!Fold(set, <<>>, s), x) ELSE Kept!Fold(set, <<>>, s)
    BY Kept!FoldOfAppend
  <2> QED
    BY <2>1, AmongIsFold
<1> QED
  BY <1>1, <1>2

\* What is kept is of the set, and no more than there was.
LEMMA AmongIsTyped ==
  ASSUME NEW X, NEW set, NEW s \in Seq(X)
  PROVE  Among(s, set) \in Seq(X \cap set) /\ Among(s, set) \in Seq(X)
<1>1. PICK V : V = Seq(X \cap set)
  OBVIOUS
<1>2. <<>> \in V
  BY <1>1
<1>3. \A v \in V, x \in X : (IF x \in set THEN Append(v, x) ELSE v) \in V
  BY <1>1
<1>4. Kept!Fold(set, <<>>, s) \in V
  BY <1>2, <1>3, Kept!FoldIsTyped
<1>5. Among(s, set) \in Seq(X \cap set)
  BY <1>1, <1>4, AmongIsFold
<1> QED
  BY <1>5

\* Rows are kept or not whatever comes before them.
LEMMA AmongOfConcat ==
  ASSUME NEW X, NEW set, NEW s \in Seq(X), NEW t \in Seq(X)
  PROVE  Among(s \o t, set) = Among(s, set) \o Among(t, set)
<1>1. PICK S : S = {u \in Seq(X) : Among(s \o u, set) = Among(s, set) \o Among(u, set)}
  OBVIOUS
<1>2. \A u \in Seq(X) : Among(u, set) \in Seq(X)
  BY AmongIsTyped
<1>3. <<>> \in S
  <2>1. PICK a : a = Among(s, set)
    OBVIOUS
  <2>2. a \in Seq(X)
    BY <1>2, <2>1
  <2>3. s \o <<>> = s /\ a \o <<>> = a /\ <<>> \in Seq(X)
    BY <2>2
  <2>4. Among(<<>>, set) = <<>>
    BY AmongIs
  <2>5. Among(s \o <<>>, set) = a \o Among(<<>>, set)
    BY <2>1, <2>3, <2>4
  <2> QED
    BY <1>1, <2>1, <2>3, <2>5
<1>4. ASSUME NEW u \in S, NEW x \in X
      PROVE  Append(u, x) \in S
  <2>1. u \in Seq(X) /\ Append(u, x) \in Seq(X) /\ s \o u \in Seq(X)
    BY <1>1
  <2>2. s \o Append(u, x) = Append(s \o u, x)
    BY <2>1
  <2>3. PICK a, b : a = Among(s, set) /\ b = Among(u, set)
    OBVIOUS
  <2>4. a \in Seq(X) /\ b \in Seq(X) /\ Among(s \o u, set) = a \o b
    BY <1>1, <1>2, <2>1, <2>3
  <2>5. a \o Append(b, x) = Append(a \o b, x)
    BY <2>4
  <2>6. Among(s \o Append(u, x), set) = IF x \in set THEN Append(a \o b, x) ELSE a \o b
    <3>1. PICK v : v = s \o u
      OBVIOUS
    <3>2. v \in Seq(X)
      BY <2>1, <3>1
    <3>3. Among(Append(v, x), set) = IF x \in set THEN Append(Among(v, set), x) ELSE Among(v, set)
      BY <3>2, AmongIs
    <3> QED
      BY <2>2, <2>4, <3>1, <3>3
  <2>7. Among(Append(u, x), set) = IF x \in set THEN Append(b, x) ELSE b
    BY <2>1, <2>3, AmongIs
  <2> QED
    BY <1>1, <2>1, <2>3, <2>5, <2>6, <2>7
<1>5. S = Seq(X)
  BY <1>1, <1>3, <1>4, Kept!SequenceSetInduction
<1> QED
  BY <1>1, <1>5

Rows == [nodes : Seq(Nodes), edges : Seq(Edges), knowledge : SUBSET Ids]

\* The operations that are pushed are of a row, but for the removal of telemetry.
RowOperations == {op \in Operations : op.kind = "prune" \/ op.id \in Ids}

\* The parents of the nodes with an id are cut.
CutAt(nodes, id) ==
  [i \in DOMAIN nodes |-> IF nodes[i].id = id THEN [nodes[i] EXCEPT !.parent = NoId] ELSE nodes[i]]

LEMMA CutIsTyped ==
  ASSUME NEW nodes \in Seq(Nodes), NEW id
  PROVE  CutAt(nodes, id) \in Seq(Nodes) /\ Len(CutAt(nodes, id)) = Len(nodes)
<1>1. PICK cut : cut = CutAt(nodes, id)
  OBVIOUS
<1>2. DOMAIN cut = 1 .. Len(nodes)
  BY <1>1 DEF CutAt
<1>3. ASSUME NEW i \in 1 .. Len(nodes)
      PROVE  cut[i] \in Nodes
  <2>1. nodes[i] \in Nodes
    OBVIOUS
  <2>2. i \in DOMAIN nodes
    OBVIOUS
  <2>3. cut[i] = IF nodes[i].id = id THEN [nodes[i] EXCEPT !.parent = NoId] ELSE nodes[i]
    BY Zenon, <1>1, <2>2 DEF CutAt
  <2> QED
    BY <2>1, <2>3 DEF Nodes
<1>4. cut = [i \in 1 .. Len(nodes) |-> cut[i]]
  BY <1>1 DEF CutAt
<1>5. Len(nodes) \in Nat
  OBVIOUS
<1>6. cut \in Seq(Nodes) /\ Len(cut) = Len(nodes)
  BY <1>3, <1>4, <1>5
<1> QED
  BY <1>1, <1>6

\* The nodes after an operation.
NodesAfter(nodes, op) ==
  CASE op.kind = "insertNode" -> Append(nodes, [id |-> op.id, parent |-> op.other])
    [] op.kind = "deleteNode" -> Among(nodes, {n \in Nodes : n.id # op.id})
    [] op.kind = "cut" -> CutAt(nodes, op.id)
    [] OTHER -> nodes

LEMMA AppliedIs ==
  ASSUME NEW rows \in Rows, NEW op \in RowOperations
  PROVE  /\ Applied(rows, op) \in Rows
         /\ Applied(rows, op).nodes = NodesAfter(rows.nodes, op)
<1>1. /\ rows.nodes \in Seq(Nodes) /\ rows.edges \in Seq(Edges) /\ rows.knowledge \in SUBSET Ids
      /\ rows = [nodes |-> rows.nodes, edges |-> rows.edges, knowledge |-> rows.knowledge]
  BY DEF Rows
<1>2. op.kind # "prune" => op.id \in Ids
  BY DEF RowOperations
<1>3. op.other \in Ids \cup {NoId}
  BY DEF RowOperations, Operations
<1>4. CASE op.kind = "insertNode"
  <2>1. [id |-> op.id, parent |-> op.other] \in Nodes
    BY <1>2, <1>3, <1>4 DEF Nodes
  <2>2. Append(rows.nodes, [id |-> op.id, parent |-> op.other]) \in Seq(Nodes)
    BY <1>1, <2>1
  <2> QED
    BY <1>1, <1>4, <2>2 DEF Applied, NodesAfter, Rows
<1>5. CASE op.kind = "deleteNode"
  <2>1. Among(rows.nodes, {n \in Nodes : n.id # op.id}) \in Seq(Nodes)
    BY <1>1, AmongIsTyped
  <2> QED
    BY <1>1, <1>5, <2>1 DEF Applied, NodesAfter, Rows
<1>6. CASE op.kind = "cut"
  <2>1. CutAt(rows.nodes, op.id) \in Seq(Nodes)
    BY <1>1, CutIsTyped
  <2> QED
    BY <1>1, <1>6, <2>1 DEF Applied, NodesAfter, Rows, CutAt
<1>7. CASE op.kind = "addKnowledge"
  BY <1>1, <1>2, <1>7 DEF Applied, NodesAfter, Rows
<1>8. CASE op.kind = "deleteEdge"
  <2>1. Among(rows.edges, Edges \ {<<op.id, op.other>>}) \in Seq(Edges)
    BY <1>1, AmongIsTyped
  <2> QED
    BY <1>1, <1>8, <2>1 DEF Applied, NodesAfter, Rows
<1>9. CASE op.kind = "prune"
  BY <1>1, <1>9 DEF Applied, NodesAfter, Rows
<1>10. op.kind \in {"insertNode", "deleteNode", "cut", "addKnowledge", "deleteEdge", "prune"}
  BY DEF RowOperations, Operations
<1> QED
  BY <1>4, <1>5, <1>6, <1>7, <1>8, <1>9, <1>10

-----------------------------------------------------------------------------
(* Reads *)

\* Some rows, and then those of the other.
Behind(nodes, others) == \E pre \in Seq(Nodes) : nodes = pre \o others

LEMMA BehindStays ==
  ASSUME NEW nodes \in Seq(Nodes), NEW others \in Seq(Nodes), Behind(nodes, others),
         NEW op \in RowOperations
  PROVE  Behind(NodesAfter(nodes, op), NodesAfter(others, op))
<1>1. PICK pre \in Seq(Nodes) : nodes = pre \o others
  BY DEF Behind
<1>2. CASE op.kind = "insertNode"
  <2>1. PICK n : n = [id |-> op.id, parent |-> op.other]
    OBVIOUS
  <2>2. Append(pre \o others, n) = pre \o Append(others, n)
    OBVIOUS
  <2>3. NodesAfter(nodes, op) = pre \o Append(others, n) /\ NodesAfter(others, op) = Append(others, n)
    BY <1>1, <1>2, <2>1, <2>2 DEF NodesAfter
  <2> QED
    BY <2>3 DEF Behind
<1>3. CASE op.kind = "deleteNode"
  <2>1. PICK set : set = {n \in Nodes : n.id # op.id}
    OBVIOUS
  <2>2. Among(pre \o others, set) = Among(pre, set) \o Among(others, set)
    BY AmongOfConcat
  <2>3. Among(pre, set) \in Seq(Nodes)
    BY AmongIsTyped
  <2>4. NodesAfter(nodes, op) = Among(nodes, set) /\ NodesAfter(others, op) = Among(others, set)
    BY <1>3, <2>1 DEF NodesAfter
  <2> QED
    BY <1>1, <2>2, <2>3, <2>4 DEF Behind
<1>4. CASE op.kind = "cut"
  <2>1. PICK a, b, c : a = CutAt(pre, op.id) /\ b = CutAt(others, op.id) /\ c = CutAt(nodes, op.id)
    OBVIOUS
  <2>2. /\ a \in Seq(Nodes) /\ Len(a) = Len(pre) /\ b \in Seq(Nodes) /\ Len(b) = Len(others)
        /\ c \in Seq(Nodes) /\ Len(c) = Len(nodes)
    BY <2>1, CutIsTyped
  <2>3. Len(nodes) = Len(pre) + Len(others) /\ Len(a \o b) = Len(c) /\ a \o b \in Seq(Nodes)
        /\ Len(pre) \in Nat /\ Len(others) \in Nat
    <3>1. Len(pre) \in Nat /\ Len(others) \in Nat /\ Len(pre \o others) = Len(pre) + Len(others)
      OBVIOUS
    <3>2. Len(a \o b) = Len(a) + Len(b) /\ a \o b \in Seq(Nodes)
      BY <2>2, ConcatProperties
    <3> QED
      BY <1>1, <2>2, <3>1, <3>2
  <2>4. ASSUME NEW i \in 1 .. Len(c) PROVE (a \o b)[i] = c[i]
    <3>1. c[i] = IF nodes[i].id = op.id THEN [nodes[i] EXCEPT !.parent = NoId] ELSE nodes[i]
      <4>1. i \in DOMAIN nodes
        BY <2>2
      <4> QED
        BY Zenon, <2>1, <4>1 DEF CutAt
    <3>2. CASE i <= Len(pre)
      <4>1. i \in DOMAIN pre
        BY <2>2, <3>2
      <4>2. a[i] = IF pre[i].id = op.id THEN [pre[i] EXCEPT !.parent = NoId] ELSE pre[i]
        BY Zenon, <2>1, <4>1 DEF CutAt
      <4>3. nodes[i] = pre[i] /\ (a \o b)[i] = a[i]
        BY <1>1, <2>2, <2>3, <3>2
      <4> QED
        BY <3>1, <4>2, <4>3
    <3>3. CASE i > Len(pre)
      <4>1. PICK j : j = i - Len(pre)
        OBVIOUS
      <4>2. j \in DOMAIN others
        BY <2>2, <2>3, <3>3, <4>1
      <4>3. b[j] = IF others[j].id = op.id THEN [others[j] EXCEPT !.parent = NoId] ELSE others[j]
        BY Zenon, <2>1, <4>2 DEF CutAt
      <4>4. nodes[i] = others[j] /\ (a \o b)[i] = b[j]
        <5>1. (pre \o others)[i] = others[i - Len(pre)]
          BY <2>2, <2>3, <3>3
        <5>2. (a \o b)[i] = b[i - Len(a)]
          BY <2>2, <2>3, <3>3
        <5> QED
          BY <1>1, <2>2, <4>1, <5>1, <5>2
      <4> QED
        BY <3>1, <4>3, <4>4
    <3> QED
      BY <2>2, <2>3, <3>2, <3>3
  <2>5. a \o b = c
    BY <2>2, <2>3, <2>4
  <2>6. NodesAfter(nodes, op) = a \o b /\ NodesAfter(others, op) = b
    BY <1>4, <2>1, <2>5 DEF NodesAfter
  <2> QED
    BY <2>2, <2>6 DEF Behind
<1>5. CASE op.kind \notin {"insertNode", "deleteNode", "cut"}
  BY <1>1, <1>5 DEF NodesAfter, Behind
<1> QED
  BY <1>2, <1>3, <1>4, <1>5

\* A buffer is done to the rows.
RunOf(rows, ops) == Runs!Fold({}, rows, ops)

LEMMA RunIsFold == \A rows, ops : FoldLeft(Applied, rows, ops) = RunOf(rows, ops)
BY DEF RunOf, FoldLeft, MapThenFoldSet, Max, Runs!Fold, Runs!FoldLeft, Runs!MapThenFoldSet, Runs!Max

LEMMA RunIsTyped ==
  ASSUME NEW rows \in Rows, NEW ops \in Seq(RowOperations)
  PROVE  FoldLeft(Applied, rows, ops) \in Rows /\ RunOf(rows, ops) \in Rows
<1>1. \A v \in Rows, x \in RowOperations : Applied(v, x) \in Rows
  BY AppliedIs
<1>2. Runs!Fold({}, rows, ops) \in Rows
  BY <1>1, Runs!FoldIsTyped
<1> QED
  BY <1>2, RunIsFold DEF RunOf

LEMMA RunKeepsBehind ==
  ASSUME NEW rows \in Rows, NEW others \in Rows, Behind(rows.nodes, others.nodes),
         NEW ops \in Seq(RowOperations)
  PROVE  Behind(RunOf(rows, ops).nodes, RunOf(others, ops).nodes)
<1>1. PICK S : S = {s \in Seq(RowOperations) : Behind(RunOf(rows, s).nodes, RunOf(others, s).nodes)}
  OBVIOUS
<1>2. <<>> \in S
  <2>1. RunOf(rows, <<>>) = rows /\ RunOf(others, <<>>) = others
    BY Runs!FoldOfNone DEF RunOf
  <2> QED
    BY <1>1, <2>1
<1>3. ASSUME NEW s \in S, NEW op \in RowOperations
      PROVE  Append(s, op) \in S
  <2>1. s \in Seq(RowOperations) /\ Append(s, op) \in Seq(RowOperations)
        /\ Behind(RunOf(rows, s).nodes, RunOf(others, s).nodes)
    BY <1>1
  <2>2. PICK x, y : x = RunOf(rows, s) /\ y = RunOf(others, s)
    OBVIOUS
  <2>3. x \in Rows /\ y \in Rows
    BY <2>1, <2>2, RunIsTyped
  <2>4. RunOf(rows, Append(s, op)) = Applied(x, op) /\ RunOf(others, Append(s, op)) = Applied(y, op)
    BY <2>1, <2>2, Runs!FoldOfAppend DEF RunOf
  <2>5. Applied(x, op).nodes = NodesAfter(x.nodes, op) /\ Applied(y, op).nodes = NodesAfter(y.nodes, op)
    BY <2>3, AppliedIs
  <2>6. x.nodes \in Seq(Nodes) /\ y.nodes \in Seq(Nodes)
    BY <2>3 DEF Rows
  <2>7. Behind(NodesAfter(x.nodes, op), NodesAfter(y.nodes, op))
    BY <2>1, <2>2, <2>6, BehindStays
  <2> QED
    BY <1>1, <2>1, <2>4, <2>5, <2>7
<1>4. S = Seq(RowOperations)
  BY <1>1, <1>2, <1>3, Kept!SequenceSetInduction
<1> QED
  BY <1>1, <1>4

LEMMA SliceIs ==
  ASSUME NEW X, NEW s \in Seq(X), NEW offset \in Nat
  PROVE  /\ Slice(s, offset) \in Seq(X)
         /\ Len(Slice(s, offset)) \in 0 .. Page
         /\ Len(s) <= offset => Slice(s, offset) = <<>>
         /\ Len(s) <= Page /\ offset = 0 => Slice(s, offset) = s
<1>1. PICK P : P = Page
  OBVIOUS
<1>2. P \in Nat \ {0}
  BY <1>1, PageAssumption
<1>3. PICK last : last = IF offset + P < Len(s) THEN offset + P ELSE Len(s)
  OBVIOUS
<1>4. last \in Nat /\ last <= Len(s) /\ last <= offset + P
  BY <1>2, <1>3
<1>5. Slice(s, offset) = SubSeq(s, offset + 1, last)
  BY <1>1, <1>3 DEF Slice
<1>6. SubSeq(s, offset + 1, last) \in Seq(X)
  BY <1>4
<1>7. Len(SubSeq(s, offset + 1, last)) = IF offset + 1 <= last THEN last - offset ELSE 0
  BY <1>4
<1>8. Len(SubSeq(s, offset + 1, last)) \in 0 .. P
  BY <1>2, <1>4, <1>7
<1>9. ASSUME Len(s) <= offset PROVE SubSeq(s, offset + 1, last) = <<>>
  <2>1. last <= offset
    BY <1>4, <1>9
  <2> QED
    BY <1>4, <1>6, <1>7, <2>1
<1>10. ASSUME Len(s) <= P, offset = 0 PROVE SubSeq(s, offset + 1, last) = s
  <2>1. last = Len(s) /\ offset + 1 = 1
    BY <1>2, <1>3, <1>10
  <2>2. SubSeq(s, 1, Len(s)) = s
    OBVIOUS
  <2> QED
    BY <2>1, <2>2
<1> QED
  BY <1>1, <1>5, <1>6, <1>8, <1>9, <1>10

\* The rows and the buffers are what the operations are applied to.
DataTyped ==
  /\ store \in [Files -> Rows]
  /\ buffer \in [Entries -> [inFlight : Seq(RowOperations), active : Seq(RowOperations)]]

LEMMA EntryFile == \A e \in Entries : FileOf[e] \in Files
BY DEF Files

LEMMA MergedIs ==
  ASSUME DataTyped, NEW e \in Entries, NEW rows \in Rows
  PROVE  /\ Merged(e, rows) \in Rows
         /\ \A others \in Rows : Behind(rows.nodes, others.nodes)
                                  => Behind(Merged(e, rows).nodes, Merged(e, others).nodes)
<1>1. PICK ops : ops = buffer[e].inFlight \o buffer[e].active
  OBVIOUS
<1>2. ops \in Seq(RowOperations)
  <2>1. buffer[e].inFlight \in Seq(RowOperations) /\ buffer[e].active \in Seq(RowOperations)
    BY DEF DataTyped
  <2> QED
    BY <1>1, <2>1, ConcatProperties
<1>3. \A x : Merged(e, x) = RunOf(x, ops)
  BY <1>1, RunIsFold DEF Merged
<1>4. RunOf(rows, ops) \in Rows
  BY <1>2, RunIsTyped
<1>5. ASSUME NEW others \in Rows, Behind(rows.nodes, others.nodes)
      PROVE  Behind(RunOf(rows, ops).nodes, RunOf(others, ops).nodes)
  BY <1>2, <1>5, RunKeepsBehind
<1> QED
  BY <1>3, <1>4, <1>5

LEMMA ViewIsTyped ==
  ASSUME DataTyped, NEW e \in Entries
  PROVE  store[FileOf[e]] \in Rows /\ View(e) \in Rows
<1>1. store[FileOf[e]] \in Rows
  BY EntryFile DEF DataTyped
<1> QED
  BY <1>1, MergedIs DEF View

\* A page is no longer than a page.  If all nodes fit a page, on disk and in the view,
\* then the first page is the view, and the next is empty.
LEMMA NodePageIs ==
  ASSUME DataTyped, NEW e \in Entries, NEW offset \in Nat
  PROVE  /\ NodePage(e, offset) \in Seq(Nodes)
         /\ Len(NodePage(e, offset)) \in 0 .. Page
         /\ Len(View(e).nodes) <= Page /\ Len(store[FileOf[e]].nodes) <= Page
            => /\ offset = 0 => NodePage(e, offset) = View(e).nodes
               /\ offset >= Page => NodePage(e, offset) = <<>>
<1>1. PICK rows : rows = store[FileOf[e]]
  OBVIOUS
<1>2. rows \in Rows /\ View(e) = Merged(e, rows) /\ View(e) \in Rows
  BY <1>1, ViewIsTyped DEF View
<1>3. PICK read : read = [rows EXCEPT !.nodes = Slice(@, offset)]
  OBVIOUS
<1>4. rows.nodes \in Seq(Nodes) /\ View(e).nodes \in Seq(Nodes)
  BY <1>2 DEF Rows
<1>5. Slice(rows.nodes, offset) \in Seq(Nodes)
  BY <1>4, SliceIs
<1>6. read \in Rows /\ read.nodes = Slice(rows.nodes, offset)
  BY <1>2, <1>3, <1>5 DEF Rows
<1>7. PICK seen : seen = Merged(e, read).nodes
  OBVIOUS
<1>8. NodePage(e, offset) = Slice(seen, offset) /\ seen \in Seq(Nodes)
  <2>1. Merged(e, read) \in Rows
    BY <1>6, MergedIs
  <2> QED
    BY <1>1, <1>3, <1>7, <2>1 DEF NodePage, Rows
<1>9. NodePage(e, offset) \in Seq(Nodes) /\ Len(NodePage(e, offset)) \in 0 .. Page
  BY <1>8, SliceIs
<1>10. ASSUME Len(View(e).nodes) <= Page, Len(rows.nodes) <= Page, offset = 0
       PROVE  NodePage(e, offset) = View(e).nodes
  <2>1. Slice(rows.nodes, offset) = rows.nodes
    BY <1>4, <1>10, SliceIs
  <2>2. read = rows
    BY <1>2, <1>3, <2>1 DEF Rows
  <2>3. seen = View(e).nodes
    BY <1>2, <1>7, <2>2
  <2> QED
    BY <1>4, <1>8, <1>10, <2>3, SliceIs
<1>11. ASSUME Len(View(e).nodes) <= Page, Len(rows.nodes) <= Page, offset >= Page
       PROVE  NodePage(e, offset) = <<>>
  <2>1. Page \in Nat
    BY PageAssumption
  <2>2. Slice(rows.nodes, offset) = <<>>
    <3>1. Len(rows.nodes) <= offset
      <4>1. Len(rows.nodes) \in Nat
        BY <1>4
      <4> QED
        BY <1>11, <2>1, <4>1
    <3> QED
      BY <1>4, <3>1, SliceIs
  <2>3. Behind(rows.nodes, read.nodes)
    <3>1. rows.nodes = rows.nodes \o <<>>
      BY <1>4
    <3> QED
      BY <1>4, <1>6, <2>2, <3>1 DEF Behind
  <2>4. Behind(View(e).nodes, seen)
    BY <1>2, <1>6, <1>7, <2>3, MergedIs
  <2>5. PICK pre \in Seq(Nodes) : View(e).nodes = pre \o seen
    BY <2>4 DEF Behind
  <2>6. Len(pre \o seen) = Len(pre) + Len(seen) /\ Len(pre) \in Nat /\ Len(seen) \in Nat
    BY <1>8, ConcatProperties
  <2>7. Len(seen) <= offset
    BY <1>11, <2>1, <2>5, <2>6
  <2> QED
    BY <1>8, <2>7, SliceIs
<1> QED
  BY <1>1, <1>9, <1>10, <1>11

LEMMA EdgePageIs ==
  ASSUME DataTyped, NEW e \in Entries
  PROVE  EdgePage(e) \in Seq(Edges)
<1>1. PICK rows : rows = store[FileOf[e]]
  OBVIOUS
<1>2. rows \in Rows
  BY <1>1, ViewIsTyped
<1>3. PICK read : read = [rows EXCEPT !.edges = Slice(@, 0)]
  OBVIOUS
<1>4. Slice(rows.edges, 0) \in Seq(Edges)
  BY <1>2, SliceIs DEF Rows
<1>5. read \in Rows
  BY <1>2, <1>3, <1>4 DEF Rows
<1>6. Merged(e, read).edges \in Seq(Edges)
  BY <1>5, MergedIs DEF Rows
<1>7. EdgePage(e) = Slice(Merged(e, read).edges, 0)
  BY <1>1, <1>3 DEF EdgePage
<1> QED
  BY <1>6, <1>7, SliceIs

-----------------------------------------------------------------------------
(* The data of the system *)

Stages == Reads \cup {"off", "next", "repair", "drop", "prune", "maintain", "failed"}

WorkerTyped ==
  /\ worker \in [interval : BOOLEAN, initial : Nat, isProcessing : BOOLEAN]
  /\ worker.isProcessing <=> ~At("off")

\* What the audit has to do, as its stage has it.
WorkTyped ==
  /\ At("repair") => audit.work \in Seq(Ids)
  /\ At("sources") \/ At("drop") => audit.work \in Seq(Edges)

\* Where the audit is among the rows.
PlaceTyped ==
  /\ audit.at \in Stages
  /\ audit.offset \in Nat /\ audit.total \in Nat
  /\ audit.offset % Page = 0 /\ audit.total <= audit.offset

BudgetTyped == "ids" \in DOMAIN budget /\ budget["ids"] \subseteq Ids

AuditInv ==
  AuditShape /\ DataTyped /\ WorkerTyped /\ WorkTyped /\ PlaceTyped /\ BudgetTyped
  /\ AuditCutsOnlyDangling

LEMMA AuditInvInit == Init => AuditInv
<1> SUFFICES ASSUME Init PROVE AuditInv
  OBVIOUS
<1>1. AuditShape
  BY AuditShapeInit
<1>2. PICK start \in Starts : ConfigInit(start) /\ store = start.store
  BY DEF Init
<1>3. store \in [Files -> Rows] /\ budget = start.budget /\ BudgetTyped
  BY <1>2, RowsAssumption DEF ConfigInit, Rows, BudgetTyped
<1>4. buffer \in [Entries -> [inFlight : Seq(RowOperations), active : Seq(RowOperations)]]
  <2>1. <<>> \in Seq(RowOperations)
    OBVIOUS
  <2>2. NoBuffer \in [inFlight : Seq(RowOperations), active : Seq(RowOperations)]
    BY <2>1 DEF NoBuffer
  <2> QED
    BY <2>2 DEF Init
<1>5. WorkerTyped
  BY DEF Init, WorkerTyped, NoWorker, NoAudit, At
<1>6. WorkTyped /\ AuditCutsOnlyDangling
  BY DEF Init, WorkTyped, AuditCutsOnlyDangling, NoAudit, At
<1>7. PlaceTyped
  <2>1. PICK P : P = Page
    OBVIOUS
  <2>2. P \in Nat \ {0}
    BY <2>1, PageAssumption
  <2>3. 0 % P = 0
    BY <2>2
  <2>4. audit.at = "off" /\ audit.offset = 0 /\ audit.total = 0
    BY DEF Init, NoAudit
  <2> QED
    BY <2>1, <2>3, <2>4 DEF PlaceTyped, Stages
<1> QED
  BY <1>1, <1>3, <1>4, <1>5, <1>6, <1>7 DEF AuditInv, DataTyped

\* What is spent is never the ids that users write.
LEMMA BudgetStep == BudgetTyped /\ [Next]_vars => BudgetTyped'
<1> SUFFICES ASSUME BudgetTyped, [Next]_vars PROVE BudgetTyped'
  OBVIOUS
<1>1. CASE UNCHANGED budget
  BY <1>1 DEF BudgetTyped
<1>2. ASSUME NEW what \in {"failures", "closes", "crashes", "writes", "starts", "stops"}, Spend(what)
      PROVE  BudgetTyped'
  <2>1. budget' = [budget EXCEPT ![what] = budget[what] - 1] /\ what # "ids"
    BY <1>2 DEF Spend
  <2>2. DOMAIN budget' = DOMAIN budget
    BY <2>1
  <2>3. budget'["ids"] = budget["ids"]
    BY <2>1 DEF BudgetTyped
  <2> QED
    BY <2>2, <2>3 DEF BudgetTyped
<1>3. CASE ConfigStep
  <2>1. ASSUME NEW c, NEW e \in Entries, GetDb(c, e) PROVE BudgetTyped'
    BY <1>1, <2>1 DEF GetDb, GetPublished, GetPending, GetNew
  <2>2. ASSUME NEW c, Drop(c) \/ Settle(c) PROVE BudgetTyped'
    BY <1>1, <2>2 DEF Drop, Settle
  <2>3. ASSUME NEW k, InitializeStep(k) PROVE BudgetTyped'
    BY <1>1, <2>3
    DEF InitializeStep, Publish, SetPragmas, Inspect, Alter, CreateTable, CreateIndex,
        Initialized, StatementOnClosed
  <2>4. ASSUME NEW k, OpenFails(k) \/ StatementFails(k) PROVE BudgetTyped'
    BY <1>2, <2>4 DEF OpenFails, StatementFails
  <2>5. ASSUME NEW p, CloseCall(p) \/ DestroyFails(p) PROVE BudgetTyped'
    BY <1>2, <2>5 DEF CloseCall, DestroyFails
  <2>6. ASSUME NEW p, CloseStep(p) PROVE BudgetTyped'
    BY <1>1, <2>6 DEF CloseStep, CloseNext, Destroyed, Forget, CloseEnd
  <2> QED
    BY <1>3, <2>1, <2>2, <2>3, <2>4, <2>5, <2>6 DEF ConfigStep
<1>4. ASSUME NEW done, Flush(done) PROVE BudgetTyped'
  BY <1>1, <1>2, <1>4 DEF Flush
<1>5. CASE AuditGetDb
  BY <1>1, <1>5 DEF AuditGetDb, GetDb, GetPublished, GetPending, GetNew
<1>6. CASE ReadFails \/ Maintain
  BY <1>1, <1>2, <1>6 DEF ReadFails, Maintain
<1>7. CASE TimerFlush \/ Sync
  BY <1>4, <1>7 DEF TimerFlush, Sync
<1>8. CASE StartWorker \/ StopWorker
  BY <1>2, <1>8 DEF StartWorker, StopWorker
<1>9. ASSUME NEW e, NEW op, UserPush(e, op) PROVE BudgetTyped'
  BY <1>2, <1>9 DEF UserPush
<1>10. ASSUME NEW p, Crash(p) PROVE BudgetTyped'
  BY <1>2, <1>10 DEF Crash, CrashOf
<1> QED
  BY ZenonT(60), <1>1, <1>3, <1>5, <1>6, <1>7, <1>8, <1>9, <1>10
  DEF Next, Tick, InitialRun, AuditStep, ShardNext, AuditEnd, QuickCheck, ReadPage, ReadAt,
      Repair, ReadEdges, ReadSources, DropEdge, Prune, vars, configVars

LEMMA PushTyped ==
  ASSUME DataTyped, NEW e \in Entries, NEW op \in RowOperations, Push(e, op), store' = store
  PROVE  DataTyped'
<1>1. PICK B : B = [inFlight : Seq(RowOperations), active : Seq(RowOperations)]
  OBVIOUS
<1>2. buffer[e] \in B
  BY <1>1 DEF DataTyped
<1>3. Append(buffer[e].active, op) \in Seq(RowOperations)
  BY <1>1, <1>2
<1>4. [buffer[e] EXCEPT !.active = Append(@, op)] \in B
  BY <1>1, <1>2, <1>3
<1>5. buffer' = [buffer EXCEPT ![e] = [buffer[e] EXCEPT !.active = Append(@, op)]]
  BY DEF Push
<1> QED
  BY <1>1, <1>4, <1>5 DEF DataTyped

LEMMA FlushTyped ==
  ASSUME DataTyped, NEW done \in SUBSET Dirty, Flush(done)
  PROVE  DataTyped'
<1>1. PICK B : B = [inFlight : Seq(RowOperations), active : Seq(RowOperations)]
  OBVIOUS
<1>2. \A e \in Entries : buffer[e] \in B /\ buffer[e].active \in Seq(RowOperations)
  BY <1>1 DEF DataTyped
<1>3. NoBuffer \in B /\ \A e \in Entries : [inFlight |-> buffer[e].active, active |-> <<>>] \in B
  <2>1. <<>> \in Seq(RowOperations)
    OBVIOUS
  <2> QED
    BY <1>1, <1>2, <2>1 DEF NoBuffer
<1>4. buffer' \in [Entries -> B]
  BY <1>2, <1>3 DEF Flush
<1>5. ASSUME NEW f \in Files
      PROVE  LET mine == {e \in done : FileOf[e] = f}
             IN (IF mine = {} THEN store[f]
                 ELSE FoldLeft(Applied, store[f], buffer[CHOOSE e \in mine : TRUE].active)) \in Rows
  <2>1. PICK mine : mine = {e \in done : FileOf[e] = f}
    OBVIOUS
  <2>2. CASE mine = {}
    BY <2>1, <2>2 DEF DataTyped
  <2>3. CASE mine # {}
    <3>1. PICK e : e = CHOOSE x \in mine : TRUE
      OBVIOUS
    <3>2. e \in Entries
      BY <2>1, <2>3, <3>1 DEF Dirty
    <3>3. FoldLeft(Applied, store[f], buffer[e].active) \in Rows
      BY <1>2, <3>2, RunIsTyped DEF DataTyped
    <3> QED
      BY <2>1, <2>3, <3>1, <3>3
  <2> QED
    BY <2>2, <2>3
<1>6. store' \in [Files -> Rows]
  BY <1>5 DEF Flush
<1> QED
  BY <1>1, <1>4, <1>6 DEF DataTyped

\* What users write is of a row.
LEMMA WrittenIsTyped ==
  ASSUME NEW kind \in UserOps, NEW id \in Ids, NEW other \in Ids \cup {NoId}
  PROVE  Op(kind, id, other) \in RowOperations
BY RowsAssumption DEF Op, RowOperations, Operations

LEMMA TailIs ==
  ASSUME NEW X, NEW s \in Seq(X), s # <<>>
  PROVE  Head(s) \in X /\ Tail(s) \in Seq(X) /\ Range(Tail(s)) \subseteq Range(s)
<1>1. Head(s) \in X /\ Tail(s) \in Seq(X) /\ Len(Tail(s)) = Len(s) - 1 /\ Len(s) \in Nat
  OBVIOUS
<1>2. \A i \in 1 .. Len(Tail(s)) : Tail(s)[i] = s[i + 1] /\ i + 1 \in DOMAIN s
  BY <1>1
<1> QED
  BY <1>1, <1>2 DEF Range

LEMMA DataStep == AuditInv /\ [Next]_vars => DataTyped'
<1> SUFFICES ASSUME AuditInv, [Next]_vars PROVE DataTyped'
  OBVIOUS
<1>1. CASE UNCHANGED data
  BY <1>1 DEF AuditInv, DataTyped, data
<1>2. ASSUME NEW e \in Entries, NEW kind \in UserOps, NEW id \in budget["ids"],
             NEW other \in budget["ids"] \cup {NoId}, UserPush(e, Op(kind, id, other))
      PROVE  DataTyped'
  <2>1. Op(kind, id, other) \in RowOperations
    BY WrittenIsTyped DEF AuditInv, BudgetTyped
  <2> QED
    BY <1>2, <2>1, PushTyped DEF AuditInv, UserPush
<1>3. CASE TimerFlush \/ Sync
  BY <1>3, FlushTyped DEF AuditInv, TimerFlush, Sync
<1>4. CASE Repair
  <2>1. audit.work \in Seq(Ids) /\ audit.entry \in Entries
    BY <1>4 DEF AuditInv, AuditShape, WorkTyped, Repair, At
  <2>2. Head(audit.work) \in Ids
    BY <1>4, <2>1, TailIs DEF Repair
  <2>3. Op("cut", Head(audit.work), NoId) \in RowOperations
    BY <2>2 DEF Op, RowOperations, Operations
  <2> QED
    BY <1>4, <2>1, <2>3, PushTyped DEF AuditInv, Repair
<1>5. CASE DropEdge
  <2>1. audit.work \in Seq(Edges) /\ audit.entry \in Entries
    BY <1>5 DEF AuditInv, AuditShape, WorkTyped, DropEdge, At
  <2>2. Head(audit.work) \in Edges
    BY <1>5, <2>1, TailIs DEF DropEdge
  <2>3. Head(audit.work)[1] \in Ids /\ Head(audit.work)[2] \in Ids
    BY <2>2 DEF Edges
  <2>4. Op("deleteEdge", Head(audit.work)[1], Head(audit.work)[2]) \in RowOperations
    BY <2>3 DEF Op, RowOperations, Operations
  <2> QED
    BY <1>5, <2>1, <2>4, PushTyped DEF AuditInv, DropEdge
<1>6. CASE Prune
  <2>1. audit.entry \in Entries
    BY <1>6 DEF AuditInv, AuditShape, Prune, At
  <2>2. Op("prune", NoId, NoId) \in RowOperations
    BY DEF Op, RowOperations, Operations
  <2>3. CASE UNCHANGED buffer
    BY <1>6, <2>3 DEF AuditInv, DataTyped, Prune
  <2> QED
    BY <1>6, <2>1, <2>2, <2>3, PushTyped DEF AuditInv, Prune
<1>7. ASSUME NEW p, Crash(p) PROVE DataTyped'
  <2>1. NoBuffer \in [inFlight : Seq(RowOperations), active : Seq(RowOperations)]
    <3>1. <<>> \in Seq(RowOperations)
      OBVIOUS
    <3> QED
      BY <3>1 DEF NoBuffer
  <2> QED
    BY <1>7, <2>1 DEF Crash, AuditInv, DataTyped
<1> QED
  BY ZenonT(60), <1>1, <1>2, <1>3, <1>4, <1>5, <1>6, <1>7
  DEF Next, Tick, InitialRun, StartWorker, StopWorker, AuditStep, ShardNext, AuditEnd, AuditGetDb,
      ReadFails, QuickCheck, ReadPage, ReadEdges, ReadSources, Maintain, vars, auditVars

\* isProcessing is set as long as an audit is under way.
LEMMA WorkerStep == AuditInv /\ [Next]_vars => WorkerTyped'
<1> SUFFICES ASSUME AuditInv, [Next]_vars PROVE WorkerTyped'
  OBVIOUS
<1>1. /\ worker = [interval |-> worker.interval, initial |-> worker.initial,
                   isProcessing |-> worker.isProcessing]
      /\ worker.interval \in BOOLEAN /\ worker.initial \in Nat /\ worker.isProcessing \in BOOLEAN
      /\ worker.isProcessing <=> audit.at # "off"
  BY DEF AuditInv, WorkerTyped, At
<1>2. audit = [at |-> audit.at, todo |-> audit.todo, entry |-> audit.entry, conn |-> audit.conn,
               offset |-> audit.offset, total |-> audit.total, work |-> audit.work]
  BY DEF AuditInv, AuditShape
<1>3. ASSUME worker' = worker, audit'.at = "off" <=> audit.at = "off" PROVE WorkerTyped'
  BY <1>1, <1>3 DEF WorkerTyped, At
<1>4. CASE UNCHANGED <<worker, audit>>
  BY <1>3, <1>4
<1>5. ASSUME NEW stage, audit' = [audit EXCEPT !.at = stage] PROVE audit'.at = stage
  BY <1>2, <1>5
<1>6. CASE StartWorker \/ StopWorker
  <2>1. PICK i \in BOOLEAN, n \in Nat :
          worker' = [interval |-> i, initial |-> n, isProcessing |-> worker.isProcessing]
    <3>1. CASE StartWorker
      <4>1. worker' = [interval |-> TRUE, initial |-> worker.initial + 1,
                       isProcessing |-> worker.isProcessing]
        BY <1>1, <3>1 DEF StartWorker
      <4>2. worker.initial + 1 \in Nat /\ TRUE \in BOOLEAN
        BY <1>1
      <4> QED
        BY <4>1, <4>2
    <3>2. CASE StopWorker
      <4>1. worker' = [interval |-> FALSE, initial |-> worker.initial,
                       isProcessing |-> worker.isProcessing]
        BY <1>1, <3>2 DEF StopWorker
      <4> QED
        BY <1>1, <4>1
    <3> QED
      BY <1>6, <3>1, <3>2
  <2>3. audit' = audit
    BY <1>6 DEF StartWorker, StopWorker
  <2> QED
    BY <1>1, <2>1, <2>3 DEF WorkerTyped, At
<1>7. CASE Tick \/ InitialRun
  <2>1. PICK n \in Nat : worker' = [interval |-> worker.interval, initial |-> n, isProcessing |-> TRUE]
    <3>1. CASE Tick
      <4>1. worker' = [interval |-> worker.interval, initial |-> worker.initial, isProcessing |-> TRUE]
        BY <1>1, <3>1 DEF Tick
      <4> QED
        BY <1>1, <4>1
    <3>2. CASE InitialRun
      <4>1. worker' = [worker EXCEPT !.initial = worker.initial - 1, !.isProcessing = TRUE]
        BY <3>2 DEF InitialRun
      <4>2. worker.initial - 1 \in Nat
        BY <1>1, <3>2 DEF InitialRun
      <4>3. worker' = [interval |-> worker.interval, initial |-> worker.initial - 1,
                       isProcessing |-> TRUE]
        BY <1>1, <4>1
      <4> QED
        BY <4>2, <4>3
    <3> QED
      BY <1>7, <3>1, <3>2
  <2>2. audit'.at # "off"
    <3>1. CASE RunAudit
      BY <3>1 DEF RunAudit, NoAudit
    <3>2. CASE worker.isProcessing /\ audit' = audit
      BY <1>1, <3>2
    <3> QED
      BY <1>7, <3>1, <3>2 DEF Tick, InitialRun
  <2> QED
    BY <1>1, <2>1, <2>2 DEF WorkerTyped, At
<1>8. CASE AuditEnd
  <2>1. worker' = [worker EXCEPT !.isProcessing = FALSE] /\ audit'.at = "off"
    BY <1>8 DEF AuditEnd, NoAudit
  <2> QED
    BY <1>1, <2>1 DEF WorkerTyped, At
<1>9. CASE ShardNext
  BY <1>3, <1>9 DEF ShardNext, At, NoAudit
<1>10. CASE ReadFails
  <2>1. worker' = worker /\ audit.at # "off" /\ audit'.at \in {"prune", "failed"}
    BY <1>5, <1>10 DEF ReadFails, Reads, Throw, Go
  <2> QED
    BY <1>3, <2>1
<1>11. CASE QuickCheck
  <2>1. worker' = worker /\ audit.at # "off" /\ audit'.at = "page"
    BY <1>2, <1>11 DEF QuickCheck, ReadAt, At
  <2> QED
    BY <1>3, <2>1
<1>12. CASE ReadPage
  <2>1. worker' = worker /\ audit.at # "off"
    BY <1>12 DEF ReadPage, ReadAt, At
  <2>2. \E stage \in {"edges", "page", "repair"} : \E w, o, n :
          \/ audit' = [audit EXCEPT !.at = stage]
          \/ audit' = [audit EXCEPT !.at = stage, !.work = w, !.offset = o, !.total = n]
    BY <1>12 DEF ReadPage, AfterPage
  <2>3. audit'.at # "off"
    BY <1>2, <2>2
  <2> QED
    BY <1>3, <2>1, <2>3
<1>13. CASE Repair \/ DropEdge
  <2>1. worker' = worker /\ audit' = [audit EXCEPT !.work = Tail(@)]
    BY <1>13 DEF Repair, DropEdge
  <2>2. audit'.at = audit.at
    BY <1>2, <2>1
  <2> QED
    BY <1>3, <2>1, <2>2
<1>14. CASE Sync
  <2>1. worker' = worker /\ audit.at # "off"
    BY <1>14 DEF Sync
  <2>2. \E stage \in {"edges", "page", "prune", "failed"} : audit' = [audit EXCEPT !.at = stage]
    BY <1>14 DEF Sync, Throw, Go, AfterPage
  <2> QED
    BY <1>3, <1>5, <2>1, <2>2
<1>15. CASE ReadEdges \/ ReadSources
  <2>1. worker' = worker /\ audit.at # "off"
    BY <1>15 DEF ReadEdges, ReadSources, ReadAt, At
  <2>2. \E stage \in {"prune", "sources", "drop"} : \E w :
          audit' = [audit EXCEPT !.at = stage, !.work = w]
    BY <1>15 DEF ReadEdges, ReadSources
  <2>3. audit'.at # "off"
    BY <1>2, <2>2
  <2> QED
    BY <1>3, <2>1, <2>3
<1>16. CASE Prune
  <2>1. worker' = worker /\ audit.at # "off" /\ audit'.at = "maintain"
    BY <1>2, <1>16 DEF Prune, At
  <2> QED
    BY <1>3, <2>1
<1>17. CASE Maintain
  <2>1. worker' = worker /\ audit.at # "off" /\ audit'.at \in {"next", "failed"}
    BY <1>5, <1>17 DEF Maintain, Go, At
  <2> QED
    BY <1>3, <2>1
<1>18. ASSUME NEW p, Crash(p) PROVE WorkerTyped'
  <2>1. CASE worker' = NoWorker /\ audit' = NoAudit
    BY <2>1 DEF NoWorker, NoAudit, WorkerTyped, At
  <2> QED
    BY <1>4, <1>18, <2>1 DEF Crash
<1> QED
  BY ZenonT(60), <1>4, <1>6, <1>7, <1>8, <1>9, <1>10, <1>11, <1>12, <1>13, <1>14, <1>15, <1>16, <1>17,
     <1>18
  DEF Next, UserPush, TimerFlush, AuditStep, AuditGetDb, vars, auditVars

LEMMA ZeroIsPlaced == 0 \in Nat /\ 0 % Page = 0 /\ 0 <= 0
<1>1. PICK P : P = Page
  OBVIOUS
<1>2. P \in Nat \ {0}
  BY <1>1, PageAssumption
<1>3. 0 % P = 0
  BY <1>2
<1> QED
  BY <1>1, <1>3

LEMMA NextIsPlaced ==
  ASSUME NEW offset \in Nat, offset % Page = 0
  PROVE  /\ offset + Page \in Nat /\ (offset + Page) % Page = 0
         /\ offset = 0 \/ offset >= Page
<1>1. PICK P : P = Page
  OBVIOUS
<1>2. P \in Nat \ {0} /\ offset % P = 0
  BY <1>1, PageAssumption
<1>3. PICK q : q = offset \div P
  OBVIOUS
<1>4. q \in Nat /\ offset = P * q
  BY <1>2, <1>3
<1>5. offset + P = P * (q + 1)
  BY <1>2, <1>4
<1>6. (P * (q + 1)) % P = 0
  BY <1>2, <1>4
<1>7. offset + P \in Nat /\ (offset + P) % P = 0
  BY <1>2, <1>5, <1>6
<1>8. offset = 0 \/ offset >= P
  BY <1>2
<1> QED
  BY <1>1, <1>7, <1>8

\* What a step of the audit that reads no page does to the record.
LEMMA PlaceKept ==
  ASSUME AuditInv, audit'.at \in Stages, audit'.offset = audit.offset, audit'.total = audit.total
  PROVE  PlaceTyped'
BY DEF AuditInv, PlaceTyped

LEMMA PlaceNew ==
  ASSUME audit'.at \in Stages, audit'.offset = 0, audit'.total = 0
  PROVE  PlaceTyped'
BY ZeroIsPlaced DEF PlaceTyped

\* An audit ends or begins, or goes on with the next shard.
LEMMA NewAudit ==
  ASSUME audit' = NoAudit \/ RunAudit \/ ShardNext
  PROVE  \E stage \in {"off", "next", "check"} : \E todo, entry :
           audit' = [at |-> stage, todo |-> todo, entry |-> entry, conn |-> 0, offset |-> 0,
                     total |-> 0, work |-> <<>>]
<1>1. CASE audit' = NoAudit
  <2>1. audit' = [at |-> "off", todo |-> {}, entry |-> NoEntry, conn |-> 0, offset |-> 0,
                  total |-> 0, work |-> <<>>]
    BY <1>1 DEF NoAudit
  <2> QED
    BY <2>1
<1>2. CASE RunAudit
  <2>1. PICK todo : audit' = [NoAudit EXCEPT !.at = "next", !.todo = todo]
    BY <1>2 DEF RunAudit
  <2>2. audit' = [at |-> "next", todo |-> todo, entry |-> NoEntry, conn |-> 0, offset |-> 0,
                  total |-> 0, work |-> <<>>]
    BY <2>1 DEF NoAudit
  <2> QED
    BY <2>2
<1>3. CASE ShardNext
  <2>1. PICK todo, e : audit' = [NoAudit EXCEPT !.at = "check", !.todo = todo, !.entry = e]
    BY <1>3 DEF ShardNext
  <2>2. audit' = [at |-> "check", todo |-> todo, entry |-> e, conn |-> 0, offset |-> 0,
                  total |-> 0, work |-> <<>>]
    BY <2>1 DEF NoAudit
  <2> QED
    BY <2>2
<1> QED
  BY <1>1, <1>2, <1>3

LEMMA PlaceStep == AuditInv /\ [Next]_vars => PlaceTyped'
<1> SUFFICES ASSUME AuditInv, [Next]_vars PROVE PlaceTyped'
  OBVIOUS
<1>1. audit = [at |-> audit.at, todo |-> audit.todo, entry |-> audit.entry, conn |-> audit.conn,
               offset |-> audit.offset, total |-> audit.total, work |-> audit.work]
  BY DEF AuditInv, AuditShape
<1>2. audit.at \in Stages
  BY DEF AuditInv, PlaceTyped
<1>3. CASE audit' = audit
  BY <1>2, <1>3, PlaceKept
<1>4. ASSUME NEW stage \in Stages, audit' = [audit EXCEPT !.at = stage] PROVE PlaceTyped'
  BY <1>1, <1>4, PlaceKept
<1>5. ASSUME NEW stage \in Stages, NEW w, audit' = [audit EXCEPT !.at = stage, !.work = w]
      PROVE  PlaceTyped'
  BY <1>1, <1>5, PlaceKept
<1>6. CASE audit' = NoAudit \/ RunAudit \/ ShardNext
  <2>1. PICK stage \in {"off", "next", "check"} : \E todo, entry :
          audit' = [at |-> stage, todo |-> todo, entry |-> entry, conn |-> 0, offset |-> 0,
                     total |-> 0, work |-> <<>>]
    BY <1>6, NewAudit
  <2>2. audit'.at = stage /\ audit'.offset = 0 /\ audit'.total = 0
    BY <2>1
  <2> QED
    BY <2>2, PlaceNew DEF Stages, Reads
<1>7. CASE ReadFails \/ Sync \/ Maintain
  <2>1. \E stage \in {"prune", "failed", "edges", "page", "next"} :
          audit' = [audit EXCEPT !.at = stage]
    BY <1>7 DEF ReadFails, Sync, Maintain, Throw, Go, AfterPage
  <2> QED
    BY <1>4, <2>1 DEF Stages, Reads
<1>8. CASE ReadEdges \/ ReadSources \/ Prune
  <2>1. \E stage \in {"prune", "sources", "drop", "maintain"} : \E w :
          audit' = [audit EXCEPT !.at = stage, !.work = w]
    BY <1>8 DEF ReadEdges, ReadSources, Prune
  <2> QED
    BY <1>5, <2>1 DEF Stages, Reads
<1>9. CASE Repair \/ DropEdge
  <2>1. \E w : audit' = [audit EXCEPT !.work = w]
    BY <1>9 DEF Repair, DropEdge
  <2> QED
    BY <1>1, <1>2, <2>1, PlaceKept
<1>10. CASE QuickCheck
  <2>1. audit'.at = "page" /\ audit'.offset = audit.offset /\ audit'.total = audit.total
    BY <1>1, <1>10 DEF QuickCheck
  <2> QED
    BY <2>1, PlaceKept DEF Stages, Reads
<1>11. CASE ReadPage
  <2>1. PICK page : page = NodePage(audit.entry, audit.offset)
    OBVIOUS
  <2>2. CASE page = <<>>
    <3>1. audit' = [audit EXCEPT !.at = "edges"]
      BY <1>11, <2>1, <2>2 DEF ReadPage
    <3> QED
      BY <1>4, <3>1 DEF Stages, Reads
  <2>3. CASE page # <<>>
    <3>1. PICK stage \in {"edges", "page", "repair"} : \E w :
            audit' = [audit EXCEPT !.at = stage, !.work = w, !.offset = audit.offset + Page,
                                   !.total = audit.total + Len(page)]
      BY <1>11, <2>1, <2>3 DEF ReadPage, AfterPage
    <3>2. audit'.at = stage /\ audit'.offset = audit.offset + Page
          /\ audit'.total = audit.total + Len(page)
      BY <1>1, <3>1
    <3>3. audit.entry \in Entries
      BY <1>11 DEF ReadPage, ReadAt, At, AuditInv, AuditShape
    <3>4. audit.offset \in Nat /\ audit.total \in Nat /\ audit.total <= audit.offset
          /\ audit.offset % Page = 0 /\ Page \in Nat
      BY PageAssumption DEF AuditInv, PlaceTyped
    <3>5. Len(page) \in 0 .. Page
      BY <2>1, <3>3, <3>4, NodePageIs DEF AuditInv
    <3>6. audit.offset + Page \in Nat /\ (audit.offset + Page) % Page = 0
      BY <3>4, NextIsPlaced
    <3>7. audit.total + Len(page) \in Nat /\ audit.total + Len(page) <= audit.offset + Page
      BY <3>4, <3>5
    <3>8. audit'.at \in Stages
      BY <3>2 DEF Stages, Reads
    <3> QED
      BY <3>2, <3>6, <3>7, <3>8 DEF PlaceTyped
  <2> QED
    BY <2>2, <2>3
<1> QED
  BY ZenonT(60), <1>3, <1>6, <1>7, <1>8, <1>9, <1>10, <1>11
  DEF Next, UserPush, TimerFlush, StartWorker, StopWorker, Tick, InitialRun, AuditStep, AuditEnd,
      AuditGetDb, Crash, vars, auditVars

-----------------------------------------------------------------------------
(* What the audit has to do *)

WorkInv == WorkTyped /\ AuditCutsOnlyDangling

\* Only three stages have work.
LEMMA NoWork ==
  ASSUME audit'.at \notin {"repair", "sources", "drop"}
  PROVE  WorkInv'
BY DEF WorkInv, WorkTyped, AuditCutsOnlyDangling, At

LEMMA OrphansAre ==
  ASSUME NEW nodes \in Seq(Nodes), NEW ids
  PROVE  OrphansIn(nodes, ids) \in Seq(Nodes)
BY AmongIsTyped DEF OrphansIn

\* A page is judged by itself.  If all nodes fit a page, it has all of them.
LEMMA PageIsJudged ==
  ASSUME AuditInv, ReadPage
  PROVE  WorkInv'
<1>1. audit = [at |-> audit.at, todo |-> audit.todo, entry |-> audit.entry, conn |-> audit.conn,
               offset |-> audit.offset, total |-> audit.total, work |-> audit.work]
      /\ audit.entry \in Entries /\ DataTyped
  BY DEF AuditInv, AuditShape, ReadPage, ReadAt, At
<1>2. PICK page : page = NodePage(audit.entry, audit.offset)
  OBVIOUS
<1>3. PICK orphans : orphans = OrphansIn(page, NodeIds(page))
  OBVIOUS
<1>4. PICK work : work = [i \in DOMAIN orphans |-> orphans[i].id]
  OBVIOUS
<1>5. audit.offset \in Nat /\ audit.offset % Page = 0
  BY DEF AuditInv, PlaceTyped
<1>6. page \in Seq(Nodes) /\ orphans \in Seq(Nodes)
  BY <1>1, <1>2, <1>3, <1>5, NodePageIs, OrphansAre
<1>7. work \in Seq(Ids) /\ Range(work) = NodeIds(orphans)
  <2>1. \A i \in DOMAIN orphans : orphans[i] \in Nodes
    BY <1>6
  <2>2. \A i \in DOMAIN orphans : orphans[i].id \in Ids
    BY <2>1 DEF Nodes
  <2>3. work \in Seq(Ids)
    BY <1>4, <1>6, <2>2
  <2>4. DOMAIN work = DOMAIN orphans /\ \A i \in DOMAIN orphans : work[i] = orphans[i].id
    BY <1>4
  <2>5. Range(work) = NodeIds(orphans)
    BY <2>4 DEF Range, NodeIds
  <2> QED
    BY <2>3, <2>5
<1>8. PICK all, rows : all = View(audit.entry).nodes /\ rows = store[FileOf[audit.entry]].nodes
  OBVIOUS
<1>9. /\ grounds' = [dangling |-> NodeIds(OrphansIn(all, NodeIds(all))),
                     wide |-> Len(all) > Page \/ Len(rows) > Page]
      /\ audit' = IF page = <<>> THEN [audit EXCEPT !.at = "edges"]
                  ELSE [audit EXCEPT !.at = IF orphans = <<>> THEN AfterPage(audit.total + Len(page))
                                            ELSE "repair",
                                     !.work = work,
                                     !.offset = @ + Page, !.total = audit.total + Len(page)]
  BY <1>2, <1>3, <1>4, <1>8 DEF ReadPage, ParentIds
<1>10. CASE page = <<>>
  <2>1. audit'.at = "edges"
    BY <1>1, <1>9, <1>10
  <2> QED
    BY <2>1, NoWork
<1>11. CASE page # <<>> /\ orphans = <<>>
  <2>1. audit'.at \in {"edges", "page"}
    BY <1>1, <1>9, <1>11 DEF AfterPage
  <2> QED
    BY <2>1, NoWork
<1>12. CASE page # <<>> /\ orphans # <<>>
  <2>1. audit'.at = "repair" /\ audit'.work = work
    BY <1>1, <1>9, <1>12
  <2>2. ASSUME ~grounds'.wide PROVE Range(work) \subseteq grounds'.dangling
    <3>1. grounds'.wide = (Len(all) > Page \/ Len(rows) > Page)
          /\ grounds'.dangling = NodeIds(OrphansIn(all, NodeIds(all)))
      BY <1>9
    <3>2. all \in Seq(Nodes) /\ rows \in Seq(Nodes)
      BY <1>1, <1>8, ViewIsTyped DEF Rows
    <3>3. Len(all) <= Page /\ Len(rows) <= Page
      <4>1. Len(all) \in Nat /\ Len(rows) \in Nat /\ Page \in Nat
        BY <3>2, PageAssumption
      <4>2. ~(Len(all) > Page) /\ ~(Len(rows) > Page)
        BY Zenon, <2>2, <3>1
      <4> QED
        BY <4>1, <4>2
    <3>4. audit.offset = 0 \/ audit.offset >= Page
      BY <1>5, NextIsPlaced
    <3>5. page = all
      BY <1>1, <1>2, <1>5, <1>8, <1>12, <3>3, <3>4, NodePageIs
    <3> QED
      BY <1>3, <1>7, <3>1, <3>5
  <2>3. WorkTyped'
    BY <1>7, <2>1 DEF WorkTyped, At
  <2>4. AuditCutsOnlyDangling'
    BY <2>1, <2>2 DEF AuditCutsOnlyDangling
  <2> QED
    BY <2>3, <2>4 DEF WorkInv
<1> QED
  BY <1>10, <1>11, <1>12

LEMMA WorkStep == AuditInv /\ [Next]_vars => WorkInv'
<1> SUFFICES ASSUME AuditInv, [Next]_vars PROVE WorkInv'
  OBVIOUS
<1>1. /\ audit = [at |-> audit.at, todo |-> audit.todo, entry |-> audit.entry, conn |-> audit.conn,
                  offset |-> audit.offset, total |-> audit.total, work |-> audit.work]
      /\ audit.at \notin {"off", "next", "failed"} => audit.entry \in Entries
      /\ DataTyped
  BY DEF AuditInv, AuditShape
<1>2. WorkInv
  BY DEF AuditInv, WorkInv
<1>3. CASE UNCHANGED <<audit, grounds>>
  BY <1>2, <1>3 DEF WorkInv, WorkTyped, AuditCutsOnlyDangling, At
<1>4. CASE audit' = NoAudit \/ RunAudit \/ ShardNext
  <2>1. PICK stage \in {"off", "next", "check"} : \E todo, entry :
          audit' = [at |-> stage, todo |-> todo, entry |-> entry, conn |-> 0, offset |-> 0,
                     total |-> 0, work |-> <<>>]
    BY <1>4, NewAudit
  <2>2. audit'.at = stage
    BY <2>1
  <2> QED
    BY <2>2, NoWork
<1>5. CASE ReadFails \/ Sync \/ Maintain
  <2>1. \E stage \in {"prune", "failed", "edges", "page", "next"} :
          audit' = [audit EXCEPT !.at = stage]
    BY <1>5 DEF ReadFails, Sync, Maintain, Throw, Go, AfterPage
  <2>2. audit'.at \notin {"repair", "sources", "drop"}
    BY <1>1, <2>1
  <2> QED
    BY <2>2, NoWork
<1>6. CASE Prune
  <2>1. audit'.at = "maintain"
    BY <1>1, <1>6 DEF Prune
  <2> QED
    BY <2>1, NoWork
<1>7. CASE QuickCheck
  <2>1. audit'.at = "page"
    BY <1>1, <1>7 DEF QuickCheck
  <2> QED
    BY <2>1, NoWork
<1>8. CASE ReadEdges
  <2>1. PICK edges : edges = EdgePage(audit.entry)
    OBVIOUS
  <2>2. edges \in Seq(Edges)
    BY <1>1, <1>8, <2>1, EdgePageIs DEF ReadEdges, ReadAt, At
  <2>3. audit'.at \in {"prune", "sources"} /\ audit'.work = edges
    BY <1>1, <1>8, <2>1 DEF ReadEdges
  <2> QED
    BY <2>2, <2>3 DEF WorkInv, WorkTyped, AuditCutsOnlyDangling, At
<1>9. CASE ReadSources
  <2>1. PICK dangling : dangling = DanglingIn(audit.work, View(audit.entry).knowledge)
    OBVIOUS
  <2>2. audit.work \in Seq(Edges)
    BY <1>2, <1>9 DEF WorkInv, WorkTyped, ReadSources, ReadAt
  <2>3. dangling \in Seq(Edges)
    BY <2>1, <2>2, AmongIsTyped DEF DanglingIn
  <2>4. audit'.at \in {"prune", "drop"} /\ audit'.work = dangling
    BY <1>1, <1>9, <2>1 DEF ReadSources
  <2> QED
    BY <2>3, <2>4 DEF WorkInv, WorkTyped, AuditCutsOnlyDangling, At
<1>10. CASE Repair
  <2>1. audit.at = "repair" /\ audit.work \in Seq(Ids) /\ audit.work # <<>>
        /\ (grounds.wide \/ Range(audit.work) \subseteq grounds.dangling)
    BY <1>2, <1>10 DEF WorkInv, WorkTyped, AuditCutsOnlyDangling, Repair, At
  <2>2. Tail(audit.work) \in Seq(Ids) /\ Range(Tail(audit.work)) \subseteq Range(audit.work)
    BY <2>1, TailIs
  <2>3. audit'.at = "repair" /\ audit'.work = Tail(audit.work) /\ grounds' = grounds
    BY <1>1, <1>10, <2>1 DEF Repair
  <2> QED
    BY <2>1, <2>2, <2>3 DEF WorkInv, WorkTyped, AuditCutsOnlyDangling, At
<1>11. CASE DropEdge
  <2>1. audit.at = "drop" /\ audit.work \in Seq(Edges) /\ audit.work # <<>>
    BY <1>2, <1>11 DEF WorkInv, WorkTyped, DropEdge, At
  <2>2. Tail(audit.work) \in Seq(Edges)
    BY <2>1, TailIs
  <2>3. audit'.at = "drop" /\ audit'.work = Tail(audit.work)
    BY <1>1, <1>11, <2>1 DEF DropEdge
  <2> QED
    BY <2>2, <2>3 DEF WorkInv, WorkTyped, AuditCutsOnlyDangling, At
<1>12. CASE ReadPage
  BY <1>12, PageIsJudged
<1> QED
  BY ZenonT(60), <1>3, <1>4, <1>5, <1>6, <1>7, <1>8, <1>9, <1>10, <1>11, <1>12
  DEF Next, UserPush, TimerFlush, StartWorker, StopWorker, Tick, InitialRun, AuditStep, AuditEnd,
      AuditGetDb, Crash, vars, auditVars

\* What the audit, its buffers and its rows are at every await of IntegrityWorker.ts: the
\* inductive invariant of the two theorems below.
THEOREM AuditInvHolds == Spec => []AuditInv
<1>1. AuditInv /\ [Next]_vars => AuditInv'
  BY AuditShapeStep, DataStep, WorkerStep, WorkStep, PlaceStep, BudgetStep DEF AuditInv, WorkInv
<1> QED
  BY <1>1, AuditInvInit, PTL DEF Spec

\* Rows, buffers and the record of the audit have their types: whatever is buffered, lost
\* and read again, the edges and nodes that the audit goes on with are rows, it reads a
\* page at a time, and isProcessing is set exactly while an audit is under way.
THEOREM AuditIsTyped == Spec => []TypeOK
<1>1. AuditInv /\ ConfigTypeOK => TypeOK
  <2> SUFFICES ASSUME AuditInv, ConfigTypeOK PROVE TypeOK
    OBVIOUS
  <2>1. \A f \in Files :
          /\ store[f].nodes \in Seq(Nodes)
          /\ store[f].edges \in Seq(Edges) /\ store[f].knowledge \subseteq Ids
    <3>1. \A f \in Files : store[f] \in Rows
      BY DEF AuditInv, DataTyped
    <3> QED
      BY <3>1 DEF Rows
  <2>2. buffer \in [Entries -> [inFlight : Seq(Operations), active : Seq(Operations)]]
    <3>1. ASSUME NEW e \in Entries
          PROVE  buffer[e] \in [inFlight : Seq(Operations), active : Seq(Operations)]
      <4>1. buffer[e] \in [inFlight : Seq(RowOperations), active : Seq(RowOperations)]
        BY DEF AuditInv, DataTyped
      <4>2. \A s \in Seq(RowOperations) : s \in Seq(Operations)
        BY DEF RowOperations
      <4> QED
        BY <4>1, <4>2
    <3>2. buffer = [e \in Entries |-> buffer[e]]
      BY DEF AuditInv, DataTyped
    <3> QED
      BY <3>1, <3>2
  <2>3. worker \in [interval : BOOLEAN, initial : Nat, isProcessing : BOOLEAN]
        /\ (worker.isProcessing <=> ~At("off"))
    BY DEF AuditInv, WorkerTyped
  <2>4. /\ audit.at \in Reads \cup {"off", "next", "repair", "drop", "prune", "maintain", "failed"}
        /\ audit.offset % Page = 0 /\ audit.total <= audit.offset
    BY DEF AuditInv, PlaceTyped, Stages
  <2> QED
    BY <2>1, <2>2, <2>3, <2>4 DEF TypeOK
<1> QED
  BY <1>1, AuditInvHolds, ConfigIsTyped, PTL

\* The audit cuts no node off a parent that was there when it read the page: pages are of
\* merged rows, and when the nodes fit one page, that page is all the nodes there are.
THEOREM AuditIsJust == Spec => []AuditCutsOnlyDangling
<1>1. AuditInv => AuditCutsOnlyDangling
  BY DEF AuditInv
<1> QED
  BY <1>1, AuditInvHolds, PTL
=============================================================================
