------------------------------ MODULE DbConfig ------------------------------
(***************************************************************************)
(* Config.ts (src/infrastructure/db/Config.ts): the connections a process  *)
(* keeps to its shards, opened by getDb() and getRawDb() and closed by     *)
(* closeAllShards(), and initializeSchema(), which creates or repairs the  *)
(* tables of a file while others use it.                                   *)
(*                                                                         *)
(* An entry is a shard as one process sees it; entries of different        *)
(* processes may stand for the same file.  A connection is the number of   *)
(* the opening that made it.  An action is what runs between two awaits:   *)
(* one SQL statement, or the continuation of a promise.                    *)
(*                                                                         *)
(* initializeSchema() is a programme of statements.  A table is the set of *)
(* its columns that matter; one table stands for the many of its kind.     *)
(***************************************************************************)
EXTENDS Naturals, FiniteSets, SequencesExt

CONSTANTS
  Entries,                   \* keys of the maps of Config.ts, for all processes
  ProcessOf, FileOf,         \* functions on Entries
  Clients,                   \* activations that call getDb() ...
  RawClients,                \* ... those of them that call getRawDb()
  NoEntry,
  Starts                     \* initial files, open entries and budgets

Processes == {ProcessOf[e] : e \in Entries}
Files == {FileOf[e] : e \in Entries}
KeyTables == {"settings", "queue_settings"}
Tables == KeyTables \cup {"nodes"}

ASSUME EntriesAssumption == NoEntry \notin Entries /\ RawClients \subseteq Clients

VARIABLES
  file,                      \* the tables of each file: their columns, {} if there is none
  opens,                     \* the openings so far
  dbs,                       \* _dbs and _rawDbs, which are set and deleted together
  initPromises,              \* _initPromises
  isInitialized,             \* _isInitialized
  call,                      \* the getDb() or getRawDb() each client runs, and its result
  closing,                   \* closeAllShards() of each process
  budget                     \* what may happen: failures, closes, crashes, ...

connections == <<opens, dbs, initPromises, isInitialized>>
configVars == <<file, connections, call, closing, budget>>

NoCall == [stage |-> "idle", entry |-> NoEntry, conn |-> 0]

NotClosing == [stage |-> "idle", conn |-> 0, passed |-> {}]

Opening(e) == [entry |-> e, stage |-> "loading", next |-> 1, health |-> "clean",
               handle |-> "none"]

\* The entries of start.open are open, their schema complete.
ConfigInit(start) ==
  /\ file = start.file
  /\ budget = start.budget
  /\ opens = [k \in 1 .. Len(start.open) |->
               [entry |-> start.open[k], stage |-> "ready", next |-> 1, health |-> "clean",
                handle |-> "open"]]
  /\ dbs = [e \in Entries |-> CHOOSE k \in 0 .. Len(start.open) :
                               IF k = 0 THEN e \notin Range(start.open) ELSE start.open[k] = e]
  /\ initPromises = dbs
  /\ isInitialized = Range(start.open)
  /\ call = [c \in Clients |-> NoCall]
  /\ closing = [p \in Processes |-> NotClosing]

\* The bounds: how often each entry is opened, who calls, how often something fails ...
MayOpen(e) == Cardinality({k \in DOMAIN opens : opens[k].entry = e}) < budget.opens[e]

Spend(what) == budget[what] > 0 /\ budget' = [budget EXCEPT ![what] = @ - 1]

-----------------------------------------------------------------------------
(* The programme of initializeSchema() *)

Statement(op, t, change) == [op |-> op, table |-> t, change |-> change]

\* A repair is a look at PRAGMA table_info and the ALTER TABLE it may call for.  The
\* second look, which verifies it, changes nothing.
Heal(t, change) == <<Statement("inspect", t, change), Statement("alter", t, change)>>

Pragmas == <<Statement("pragmas", "nodes", "none")>>

\* The column "name" of the settings tables is renamed; both are in one try block.
Migration == Heal("settings", "rename") \o Heal("queue_settings", "rename")

\* The tables from users to telemetry_aggregates.
CoreTables == <<Statement("create", "nodes", "none")>>

CoreIndices == <<Statement("index", "nodes", "none")>>

\* The tables from agents to decisions, and their indices.
SettingsTables == <<Statement("create", "settings", "none")>>

QueueTables == <<Statement("create", "queue_settings", "none")>>

\* The tables of the hive are of one kind; one statement stands for them.
HiveTables == <<Statement("create", "queue_settings", "none")>>

\* Seeded fault: the tables of the queue are not repaired.
EnsureColumns_NotQueue == Heal("nodes", "id") \o Heal("settings", "id")

\* ensureColumn() for every table, each in a try block of its own.
EnsureColumns ==
  Heal("nodes", "id") \o Heal("settings", "id") \o Heal("queue_settings", "id")

LastIndices == <<Statement("index", "nodes", "none")>>

Programme ==
  Pragmas \o Migration \o CoreTables \o CoreIndices \o SettingsTables \o QueueTables
  \o HiveTables \o EnsureColumns \o LastIndices

\* What CREATE TABLE makes, and what the rest of the code needs.
Columns(t) == IF t \in KeyTables THEN {"id", "key"} ELSE {"id", "parentId"}

\* A start opens no entry twice, and only on complete files; a settings table of an old
\* file has one of the two names of its key.
ASSUME StartsAssumption ==
  \A start \in Starts :
    /\ start.file \in [Files -> [Tables -> SUBSET {"id", "key", "name", "parentId"}]]
    /\ start.open \in Seq(Entries) /\ IsInjective(start.open)
    /\ \A e \in Range(start.open), t \in Tables : Columns(t) \subseteq start.file[FileOf[e]][t]
    /\ \A f \in Files, t \in KeyTables :
         start.file[f][t] = {} \/ start.file[f][t] \cap {"name", "key"} # {}

\* Whether the table needs the change.
Lacks(columns, change) ==
  IF change = "rename" THEN "name" \in columns /\ "key" \notin columns
                       ELSE "id" \notin columns

Changed(columns, change) ==
  IF change = "rename" THEN (columns \ {"name"}) \cup {"key"} ELSE columns \cup {"id"}

-----------------------------------------------------------------------------
(* getDb() and getRawDb() *)

Entry(k) == opens[k].entry

File(k) == FileOf[Entry(k)]

\* The call returns the connection of the entry, whatever its state.
GetPublished(c, e) ==
  /\ call[c].stage = "idle" /\ dbs[e] # 0
  /\ call' = [call EXCEPT ![c] = [stage |-> "holding", entry |-> e, conn |-> dbs[e]]]
  /\ UNCHANGED <<file, connections, closing, budget>>

Await(c, e, k) ==
  call' = [call EXCEPT ![c] = [stage |-> "waiting", entry |-> e, conn |-> k]]

\* The connection is being opened, or its opening has failed: the promise is shared.
GetPending(c, e) ==
  /\ call[c].stage = "idle" /\ dbs[e] = 0 /\ initPromises[e] # 0
  /\ Await(c, e, initPromises[e])
  /\ UNCHANGED <<file, connections, closing, budget>>

\* Seeded fault: no promise is shared.
GetNew_Unshared(c, e) ==
  /\ call[c].stage = "idle" /\ dbs[e] = 0
  /\ MayOpen(e)
  /\ opens' = Append(opens, Opening(e))
  /\ initPromises' = [initPromises EXCEPT ![e] = Len(opens) + 1]
  /\ Await(c, e, Len(opens) + 1)
  /\ UNCHANGED <<file, dbs, isInitialized, closing, budget>>

GetNew(c, e) ==
  /\ call[c].stage = "idle" /\ dbs[e] = 0 /\ initPromises[e] = 0
  /\ MayOpen(e)
  /\ opens' = Append(opens, Opening(e))
  /\ initPromises' = [initPromises EXCEPT ![e] = Len(opens) + 1]
  /\ Await(c, e, Len(opens) + 1)
  /\ UNCHANGED <<file, dbs, isInitialized, closing, budget>>

\* The promise settles.  getRawDb() looks the connection up once more, and throws if it
\* is gone by then.
Settle(c) ==
  LET k == call[c].conn
      got == IF c \in RawClients THEN dbs[call[c].entry] ELSE k
  IN /\ call[c].stage = "waiting" /\ opens[k].stage \in {"ready", "rejected"}
     /\ call' = [call EXCEPT ![c] = IF opens[k].stage = "rejected" \/ got = 0
                                    THEN [@ EXCEPT !.stage = "error"]
                                    ELSE [@ EXCEPT !.stage = "holding", !.conn = got]]
     /\ UNCHANGED <<file, connections, closing, budget>>

\* The caller is done with the connection, or with the error.
Drop(c) ==
  /\ call[c].stage \in {"holding", "error"}
  /\ call' = [call EXCEPT ![c] = NoCall]
  /\ UNCHANGED <<file, connections, closing, budget>>

\* The driver is imported and the file opened: the connection is in the maps before its
\* schema is initialised.
Publish(k) ==
  LET e == Entry(k) IN
  /\ opens[k].stage = "loading"
  /\ dbs' = [dbs EXCEPT ![e] = k]
  /\ opens' = [opens EXCEPT ![k].handle = "open",
                            ![k].stage = IF e \in isInitialized THEN "ready" ELSE "schema",
                            ![k].health = IF e \in isInitialized THEN "skipped" ELSE @]
  /\ UNCHANGED <<file, initPromises, isInitialized, call, closing, budget>>

OpenFails(k) ==
  /\ opens[k].stage = "loading"
  /\ Spend("failures")
  /\ opens' = [opens EXCEPT ![k].stage = "rejected"]
  /\ UNCHANGED <<file, dbs, initPromises, isInitialized, call, closing>>

-----------------------------------------------------------------------------
(* initializeSchema() *)

\* The statement that the initialisation of connection k runs next.
Current(k) == Programme[opens[k].next]

Running(k, op) ==
  /\ opens[k].stage = "schema" /\ opens[k].handle = "open"
  /\ opens[k].next <= Len(Programme) /\ Current(k).op = op

Columns0(k) == file[File(k)][Current(k).table]

GoOn(k, next) == opens' = [opens EXCEPT ![k].next = next]

SetPragmas(k) ==
  /\ Running(k, "pragmas")
  /\ GoOn(k, opens[k].next + 1)
  /\ UNCHANGED <<file, dbs, initPromises, isInitialized, call, closing, budget>>

\* PRAGMA table_info: the ALTER TABLE is skipped if it is not called for.
Inspect(k) ==
  /\ Running(k, "inspect")
  /\ GoOn(k, opens[k].next + IF Lacks(Columns0(k), Current(k).change) THEN 1 ELSE 2)
  /\ UNCHANGED <<file, dbs, initPromises, isInitialized, call, closing, budget>>

\* Where the initialisation goes on after a failed statement: 0 if it rejects.
AfterFailure(k) ==
  CASE Current(k).change = "none" -> 0
    [] Current(k).change = "rename" -> Len(Pragmas \o Migration) + 1
    [] Current(k).change = "id" ->
         opens[k].next + IF Current(k).op = "inspect" THEN 2 ELSE 1

\* A statement of connection k fails; "health" says whether others had made it fail.
Failed(k, health) ==
  opens' = [opens EXCEPT ![k] = IF AfterFailure(k) = 0 THEN [@ EXCEPT !.stage = "rejected"]
                                ELSE [@ EXCEPT !.next = AfterFailure(k), !.health = health]]

\* ALTER TABLE fails if another process has made the change since the look.
Alter(k) ==
  LET needed == Lacks(Columns0(k), Current(k).change) IN
  /\ Running(k, "alter")
  /\ IF needed
     THEN /\ file' = [file EXCEPT ![File(k)][Current(k).table] =
                                      Changed(@, Current(k).change)]
          /\ GoOn(k, opens[k].next + 1)
     ELSE /\ Failed(k, IF opens[k].health = "clean" THEN "raced" ELSE opens[k].health)
          /\ UNCHANGED file
  /\ UNCHANGED <<dbs, initPromises, isInitialized, call, closing, budget>>

CreateTable(k) ==
  /\ Running(k, "create")
  /\ file' = [file EXCEPT ![File(k)][Current(k).table] =
                              IF @ = {} THEN Columns(Current(k).table) ELSE @]
  /\ GoOn(k, opens[k].next + 1)
  /\ UNCHANGED <<dbs, initPromises, isInitialized, call, closing, budget>>

\* An index on a column that an old table does not have is an error.
CreateIndex(k) ==
  /\ Running(k, "index")
  /\ IF "parentId" \in Columns0(k) THEN GoOn(k, opens[k].next + 1) ELSE Failed(k, "faulty")
  /\ UNCHANGED <<file, dbs, initPromises, isInitialized, call, closing, budget>>

\* A statement fails, for want of a lock for example.
StatementFails(k) ==
  /\ opens[k].stage = "schema" /\ opens[k].handle = "open" /\ opens[k].next <= Len(Programme)
  /\ Spend("failures")
  /\ Failed(k, "faulty")
  /\ UNCHANGED <<file, dbs, initPromises, isInitialized, call, closing>>

\* The connection was closed: every statement fails.
StatementOnClosed(k) ==
  /\ opens[k].stage = "schema" /\ opens[k].handle = "closed" /\ opens[k].next <= Len(Programme)
  /\ Failed(k, "faulty")
  /\ UNCHANGED <<file, dbs, initPromises, isInitialized, call, closing, budget>>

\* The continuation after the last statement, also if the connection was closed since.
Initialized(k) ==
  /\ opens[k].stage = "schema" /\ opens[k].next = Len(Programme) + 1
  /\ opens' = [opens EXCEPT ![k].stage = "ready"]
  /\ isInitialized' = isInitialized \cup {Entry(k)}
  /\ UNCHANGED <<file, dbs, initPromises, call, closing, budget>>

InitializeStep(k) ==
  Publish(k) \/ SetPragmas(k) \/ Inspect(k) \/ Alter(k) \/ CreateTable(k)
  \/ CreateIndex(k) \/ Initialized(k)
  \/ StatementOnClosed(k)

-----------------------------------------------------------------------------
(* closeAllShards() *)

\* pool.stop(), or any other caller; two at a time in one process are left out.
CloseCall(p) ==
  /\ closing[p].stage = "idle"
  /\ Spend("closes")
  /\ closing' = [closing EXCEPT ![p] = [stage |-> "next", conn |-> 0, passed |-> {}]]
  /\ UNCHANGED <<file, connections, call>>

\* The next connection of the map, which shows what was added since the loop began.
CloseNext(p) ==
  /\ closing[p].stage = "next"
  /\ \E e \in Entries :
       /\ ProcessOf[e] = p /\ dbs[e] # 0 /\ dbs[e] \notin closing[p].passed
       /\ closing' = [closing EXCEPT ![p].stage = "destroying", ![p].conn = dbs[e]]
  /\ UNCHANGED <<file, connections, call, budget>>

Destroyed(p) ==
  /\ closing[p].stage = "destroying"
  /\ opens' = [opens EXCEPT ![closing[p].conn].handle = "closed"]
  /\ closing' = [closing EXCEPT ![p].stage = "destroyed"]
  /\ UNCHANGED <<file, dbs, initPromises, isInitialized, call, budget>>

\* db.destroy() rejects: the connection stays, and the loop goes on.
DestroyFails(p) ==
  /\ closing[p].stage = "destroying"
  /\ Spend("failures")
  /\ closing' = [closing EXCEPT ![p].stage = "next", ![p].passed = @ \cup {closing[p].conn}]
  /\ UNCHANGED <<file, connections, call>>

\* The four maps forget the shard.
Forget(p) ==
  LET e == Entry(closing[p].conn) IN
  /\ closing[p].stage = "destroyed"
  /\ dbs' = [dbs EXCEPT ![e] = 0]
  /\ initPromises' = [initPromises EXCEPT ![e] = 0]
  /\ isInitialized' = isInitialized \ {e}
  /\ closing' = [closing EXCEPT ![p].stage = "next"]
  /\ UNCHANGED <<file, opens, call, budget>>

CloseEnd(p) ==
  /\ closing[p].stage = "next"
  /\ \A e \in Entries : ProcessOf[e] = p => dbs[e] \in {0} \cup closing[p].passed
  /\ closing' = [closing EXCEPT ![p] = NotClosing]
  /\ UNCHANGED <<file, connections, call, budget>>

CloseStep(p) == CloseNext(p) \/ Destroyed(p) \/ Forget(p) \/ CloseEnd(p)

-----------------------------------------------------------------------------
\* Process p dies and starts again on the same files.
CrashOf(p) ==
  LET mine == {e \in Entries : ProcessOf[e] = p} IN
  /\ Spend("crashes")
  /\ opens' = [k \in DOMAIN opens |->
                 IF Entry(k) \notin mine THEN opens[k]
                 ELSE [opens[k] EXCEPT
                         !.stage = IF @ = "ready" THEN @ ELSE "rejected",
                         !.handle = IF @ = "open" THEN "closed" ELSE @]]
  /\ dbs' = [e \in Entries |-> IF e \in mine THEN 0 ELSE dbs[e]]
  /\ initPromises' = [e \in Entries |-> IF e \in mine THEN 0 ELSE initPromises[e]]
  /\ isInitialized' = isInitialized \ mine
  /\ call' = [c \in Clients |-> IF call[c].entry \in mine THEN NoCall ELSE call[c]]
  /\ closing' = [closing EXCEPT ![p] = NotClosing]
  /\ UNCHANGED file

GetDb(c, e) == GetPublished(c, e) \/ GetPending(c, e) \/ GetNew(c, e)

ConfigStep ==
  \/ \E c \in budget.users : \/ \E e \in Entries : GetDb(c, e)
                            \/ Drop(c)
  \/ \E c \in Clients : Settle(c)
  \/ \E k \in DOMAIN opens : InitializeStep(k) \/ OpenFails(k) \/ StatementFails(k)
  \/ \E p \in Processes : CloseCall(p) \/ CloseStep(p) \/ DestroyFails(p)

-----------------------------------------------------------------------------
(* Properties *)

ConfigTypeOK ==
  /\ file \in [Files -> [Tables -> SUBSET {"id", "key", "name", "parentId"}]]
  /\ opens \in Seq([entry : Entries, stage : {"loading", "schema", "ready", "rejected"},
                    next : 1 .. Len(Programme) + 1,
                    health : {"clean", "raced", "faulty", "skipped"},
                    handle : {"none", "open", "closed"}])
  /\ dbs \in [Entries -> 0 .. Len(opens)] /\ initPromises \in [Entries -> 0 .. Len(opens)]
  /\ isInitialized \subseteq Entries
  /\ call \in [Clients -> [stage : {"idle", "waiting", "holding", "error"},
                           entry : Entries \cup {NoEntry}, conn : 0 .. Len(opens)]]
  /\ closing \in [Processes -> [stage : {"idle", "next", "destroying", "destroyed"},
                                conn : 0 .. Len(opens), passed : SUBSET (1 .. Len(opens))]]

\* A process never has two open connections to a shard, and an open connection is in the
\* map, where closeAllShards() finds it: however getDb(), a failing initialisation and
\* closeAllShards() interleave.  ConnectionFree of WriteBehind rests on the former.
OneConnectionPerShard ==
  \A k \in DOMAIN opens : opens[k].handle = "open" => dbs[Entry(k)] = k

Complete(f) == \A t \in Tables : Columns(t) \subseteq file[f][t]

OpeningsOf(f) == {k \in DOMAIN opens : File(k) = f}

\* An initialisation of file f that no failure and no other process disturbed has ended;
\* or all of them have ended, disturbed by each other at most.
Initialised(f) ==
  LET ks == OpeningsOf(f)
  IN \/ \E k \in ks : opens[k].stage = "ready" /\ opens[k].health = "clean"
     \/ ks # {} /\ \A k \in ks : opens[k].stage = "ready" /\ opens[k].health # "faulty"

\* Such an initialisation leaves a complete schema, whatever the file was like, and
\* whatever crashed initialisations and those of other processes did to it meanwhile: a
\* repair that loses a race leaves out others of its try block, which the winner makes.
SchemaHealed == \A f \in Files : Initialised(f) => Complete(f)
=============================================================================
