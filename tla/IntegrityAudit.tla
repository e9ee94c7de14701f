--------------------------- MODULE IntegrityAudit ---------------------------
(***************************************************************************)
(* IntegrityWorker.ts (src/infrastructure/db): a timer that audits the     *)
(* active shards of a process, cuts nodes off parents that do not exist,   *)
(* and deletes knowledge edges whose source does not, while others write,  *)
(* flushes fail and connections close and reopen (DbConfig).               *)
(*                                                                         *)
(* The pool is what WriteBehind promises: operations are buffered per      *)
(* shard, a flush persists all of a shard or nothing, and what a failed    *)
(* flush kept in flight is lost at the next swap.  Reads show the rows of  *)
(* the disk with both buffers applied.                                     *)
(***************************************************************************)
EXTENDS DbConfig

CONSTANTS
  Auditor,                   \* the audit, as a client of getDb()
  Host,                      \* its process
  Ids, NoId,                 \* ids of rows, and null
  Page,                      \* BATCH_SIZE, and the limit of the edges read
  AuditLimit,                \* rows after which the audit of a shard ends
  UserOps                    \* kinds of operations that users push

ASSUME AuditorAssumption == Auditor \in Clients \ RawClients /\ Host \in Processes
ASSUME PageAssumption == Page \in Nat \ {0} /\ AuditLimit \in Nat \ {0} /\ NoId \notin Ids

Nodes == [id : Ids, parent : Ids \cup {NoId}]
Edges == Ids \X Ids

\* A start has rows in each file, and the ids that users write.
ASSUME RowsAssumption ==
  /\ UserOps \subseteq {"insertNode", "deleteNode", "addKnowledge"}
  /\ \A start \in Starts :
       /\ start.store \in [Files -> [nodes : Seq(Nodes), edges : Seq(Edges),
                                     knowledge : SUBSET Ids]]
       /\ "ids" \in DOMAIN start.budget /\ start.budget.ids \subseteq Ids

VARIABLES
  store,                     \* the rows of each file: nodes, edges, knowledge
  buffer,                    \* the buffered operations of each shard
  worker,                    \* the interval, the initial timers, isProcessing
  audit,                     \* runAudit() and auditShard()
  grounds                    \* history: what was dangling when the rows were judged

data == <<store, buffer>>
auditVars == <<data, worker, audit, grounds>>
vars == <<configVars, auditVars>>

NoAudit == [at |-> "off", todo |-> {}, entry |-> NoEntry, conn |-> 0, offset |-> 0,
            total |-> 0, work |-> <<>>]

NoBuffer == [inFlight |-> <<>>, active |-> <<>>]

NoWorker == [interval |-> FALSE, initial |-> 0, isProcessing |-> FALSE]

NoGrounds == [dangling |-> {}, wide |-> FALSE]

Init ==
  /\ \E start \in Starts : ConfigInit(start) /\ store = start.store
  /\ buffer = [e \in Entries |-> NoBuffer]
  /\ worker = NoWorker /\ audit = NoAudit /\ grounds = NoGrounds

-----------------------------------------------------------------------------
(* Rows, operations and reads *)

Op(kind, id, other) == [kind |-> kind, id |-> id, other |-> other]

\* The rows that are in a set, in their order.
Among(rows, set) ==
  FoldLeft(LAMBDA kept, x : IF x \in set THEN Append(kept, x) ELSE kept, <<>>, rows)

\* A node has a parent, an edge a target; knowledge has neither.
Applied(rows, op) ==
  CASE op.kind = "insertNode" ->
         [rows EXCEPT !.nodes = Append(@, [id |-> op.id, parent |-> op.other])]
    [] op.kind = "deleteNode" ->
         [rows EXCEPT !.nodes = Among(@, {n \in Nodes : n.id # op.id})]
    [] op.kind = "cut" ->
         [rows EXCEPT !.nodes = [i \in DOMAIN @ |->
            IF @[i].id = op.id THEN [@[i] EXCEPT !.parent = NoId] ELSE @[i]]]
    [] op.kind = "addKnowledge" -> [rows EXCEPT !.knowledge = @ \cup {op.id}]
    [] op.kind = "deleteEdge" ->
         [rows EXCEPT !.edges = Among(@, Edges \ {<<op.id, op.other>>})]
    [] OTHER -> rows

Merged(e, rows) ==
  FoldLeft(Applied, rows, buffer[e].inFlight \o buffer[e].active)

View(e) == Merged(e, store[FileOf[e]])

Slice(rows, offset) ==
  SubSeq(rows, offset + 1, IF offset + Page < Len(rows) THEN offset + Page ELSE Len(rows))

\* Limit and offset are applied on the disk, and again to the merged rows.
NodePage(e, offset) ==
  Slice(Merged(e, [store[FileOf[e]] EXCEPT !.nodes = Slice(@, offset)]).nodes, offset)

EdgePage(e) ==
  Slice(Merged(e, [store[FileOf[e]] EXCEPT !.edges = Slice(@, 0)]).edges, 0)

NodeIds(nodes) == {n.id : n \in Range(nodes)}

OrphansIn(nodes, ids) ==
  Among(nodes, {n \in Nodes : n.parent # NoId /\ n.parent \notin ids})

DanglingIn(edges, knowledge) == Among(edges, {x \in Edges : x[1] \notin knowledge})

Push(e, op) == buffer' = [buffer EXCEPT ![e].active = Append(@, op)]

UserPush(e, op) ==
  /\ ProcessOf[e] = Host /\ dbs[e] # 0
  /\ Spend("writes")
  /\ CASE op.kind = "insertNode" -> op.id \notin NodeIds(View(e).nodes)
       [] op.kind = "deleteNode" -> op.id \in NodeIds(View(e).nodes) /\ op.other = NoId
       [] op.kind = "addKnowledge" -> op.id \notin View(e).knowledge /\ op.other = NoId
  /\ Push(e, op)
  /\ UNCHANGED <<file, connections, call, closing, store, worker, audit, grounds>>

Dirty == {e \in Entries : buffer[e].active # <<>>}

\* flush() with one transaction for each shard of "done"; a failure ends it.
Flush(done) ==
  /\ done = Dirty \/ (done \in SUBSET Dirty /\ done # Dirty /\ Spend("failures"))
  /\ done = Dirty => UNCHANGED budget
  /\ store' = [f \in Files |->
                 LET mine == {e \in done : FileOf[e] = f}
                 IN IF mine = {} THEN store[f]
                    ELSE FoldLeft(Applied, store[f], buffer[CHOOSE e \in mine : TRUE].active)]
  /\ buffer' = [e \in Entries |->
                  IF e \in done THEN NoBuffer
                  ELSE IF e \in Dirty THEN [inFlight |-> buffer[e].active, active |-> <<>>]
                  ELSE buffer[e]]

\* The flush timer of the pool.
TimerFlush ==
  /\ Dirty # {}
  /\ \E done \in SUBSET Dirty : Flush(done)
  /\ UNCHANGED <<file, connections, call, closing, worker, audit, grounds>>

-----------------------------------------------------------------------------
(* start(), stop() and the timers *)

StartWorker ==
  /\ ~worker.interval /\ Spend("starts")
  /\ worker' = [worker EXCEPT !.interval = TRUE, !.initial = @ + 1]
  /\ UNCHANGED <<file, connections, call, closing, data, audit, grounds>>

\* The initial run is not cancelled.
StopWorker ==
  /\ worker.interval /\ Spend("stops")
  /\ worker' = [worker EXCEPT !.interval = FALSE]
  /\ UNCHANGED <<file, connections, call, closing, data, audit, grounds>>

RunAudit ==
  audit' = [NoAudit EXCEPT !.at = "next",
                           !.todo = {e \in Entries : ProcessOf[e] = Host /\ dbs[e] # 0}]

Tick ==
  /\ worker.interval /\ ~worker.isProcessing
  /\ worker' = [worker EXCEPT !.isProcessing = TRUE]
  /\ RunAudit
  /\ UNCHANGED <<configVars, data, grounds>>

InitialRun ==
  /\ worker.initial > 0
  /\ worker' = [worker EXCEPT !.initial = @ - 1, !.isProcessing = TRUE]
  /\ IF worker.isProcessing THEN UNCHANGED audit ELSE RunAudit
  /\ UNCHANGED <<configVars, data, grounds>>

-----------------------------------------------------------------------------
(* runAudit() and auditShard() *)

At(stage) == audit.at = stage

Go(stage) == audit' = [audit EXCEPT !.at = stage]

\* The next shard of the snapshot, in the order of the map.
ShardNext ==
  /\ At("next") /\ audit.todo # {}
  /\ \E e \in audit.todo :
       audit' = [NoAudit EXCEPT !.at = "check", !.todo = audit.todo \ {e}, !.entry = e]
  /\ grounds' = NoGrounds
  /\ UNCHANGED <<configVars, data, worker>>

\* Seeded fault: isProcessing is reset after the last shard only.
AuditEnd_NotFinally ==
  /\ (At("next") /\ audit.todo = {}) \/ At("failed")
  /\ audit' = NoAudit /\ grounds' = NoGrounds
  /\ worker' = [worker EXCEPT !.isProcessing = At("failed")]
  /\ UNCHANGED <<configVars, data>>

\* The end of the loop, or the catch block; and the finally block.
AuditEnd ==
  /\ (At("next") /\ audit.todo = {}) \/ At("failed")
  /\ audit' = NoAudit /\ grounds' = NoGrounds
  /\ worker' = [worker EXCEPT !.isProcessing = FALSE]
  /\ UNCHANGED <<configVars, data>>

\* Stages that begin with a call of getDb(), by the audit or by selectWhere().
Reads == {"check", "page", "edges", "sources"}

AuditGetDb ==
  /\ audit.at \in Reads /\ GetDb(Auditor, audit.entry)
  /\ UNCHANGED auditVars

\* The read is done on the connection that getDb() returned, which is still open and
\* whose tables exist.
ReadAt(stage) ==
  /\ At(stage) /\ call[Auditor].stage = "holding"
  /\ opens[call[Auditor].conn].handle = "open"
  /\ stage = "check" \/ file[FileOf[audit.entry]]["nodes"] # {}
  /\ call' = [call EXCEPT ![Auditor] = NoCall]
  /\ UNCHANGED <<file, connections, closing, budget>>

\* An error within the audit of edges is caught there; any other ends the audit.
Throw == Go(IF audit.at \in {"edges", "sources", "drop"} THEN "prune" ELSE "failed")

ReadFails ==
  /\ audit.at \in Reads
  /\ \/ call[Auditor].stage = "error" /\ UNCHANGED budget
     \/ /\ call[Auditor].stage = "holding"
        /\ \/ Spend("failures")
           \/ /\ \/ opens[call[Auditor].conn].handle # "open"
                 \/ ~At("check") /\ file[FileOf[audit.entry]]["nodes"] = {}
              /\ UNCHANGED budget
  /\ call' = [call EXCEPT ![Auditor] = NoCall]
  /\ Throw
  /\ UNCHANGED <<file, connections, closing, data, worker, grounds>>

QuickCheck ==
  /\ ReadAt("check")
  /\ audit' = [audit EXCEPT !.at = "page", !.conn = call[Auditor].conn]
  /\ UNCHANGED <<data, worker, grounds>>

AfterPage(total) == IF total >= AuditLimit THEN "edges" ELSE "page"

\* Seeded fault: the rows on disk decide which parents exist.
ParentIds_OnDisk(page) == NodeIds(Slice(store[FileOf[audit.entry]].nodes, audit.offset))

ParentIds(page) == NodeIds(page)

ReadPage ==
  LET page == NodePage(audit.entry, audit.offset)
      orphans == OrphansIn(page, ParentIds(page))
      all == View(audit.entry).nodes
      total == audit.total + Len(page)
  IN /\ ReadAt("page")
     /\ audit' = IF page = <<>> THEN [audit EXCEPT !.at = "edges"]
                 ELSE [audit EXCEPT !.at = IF orphans = <<>> THEN AfterPage(total)
                                           ELSE "repair",
                                    !.work = [i \in DOMAIN orphans |-> orphans[i].id],
                                    !.offset = @ + Page, !.total = total]
     /\ grounds' = [dangling |-> NodeIds(OrphansIn(all, NodeIds(all))),
                    wide |-> Len(all) > Page \/ Len(store[FileOf[audit.entry]].nodes) > Page]
     /\ UNCHANGED <<data, worker>>

\* Others push in between; the orphan may have been deleted or its parent inserted.
Repair ==
  /\ At("repair") /\ audit.work # <<>>
  /\ Push(audit.entry, Op("cut", Head(audit.work), NoId))
  /\ audit' = [audit EXCEPT !.work = Tail(@)]
  /\ UNCHANGED <<configVars, store, worker, grounds>>

\* The flush after the repairs: of all shards, whoever pushed.
Sync ==
  /\ audit.at \in {"repair", "drop"} /\ audit.work = <<>>
  /\ \E done \in SUBSET Dirty :
       /\ Flush(done)
       /\ IF done # Dirty THEN Throw
          ELSE Go(IF At("repair") THEN AfterPage(audit.total) ELSE "prune")
  /\ UNCHANGED <<file, connections, call, closing, worker, grounds>>

ReadEdges ==
  LET edges == EdgePage(audit.entry) IN
  /\ ReadAt("edges")
  /\ audit' = [audit EXCEPT !.at = IF edges = <<>> THEN "prune" ELSE "sources",
                            !.work = edges]
  /\ UNCHANGED <<data, worker, grounds>>

ReadSources ==
  LET dangling == DanglingIn(audit.work, View(audit.entry).knowledge) IN
  /\ ReadAt("sources")
  /\ audit' = [audit EXCEPT !.at = IF dangling = <<>> THEN "prune" ELSE "drop",
                            !.work = dangling]
  /\ UNCHANGED <<data, worker, grounds>>

DropEdge ==
  /\ At("drop") /\ audit.work # <<>>
  /\ Push(audit.entry, Op("deleteEdge", Head(audit.work)[1], Head(audit.work)[2]))
  /\ audit' = [audit EXCEPT !.work = Tail(@)]
  /\ UNCHANGED <<configVars, store, worker, grounds>>

\* Old telemetry is deleted; deleting it twice in a transaction is deleting it once.
Prune ==
  /\ At("prune")
  /\ IF Op("prune", NoId, NoId) \in Range(buffer[audit.entry].active) THEN UNCHANGED buffer
     ELSE Push(audit.entry, Op("prune", NoId, NoId))
  /\ audit' = [audit EXCEPT !.at = "maintain", !.work = <<>>]
  /\ UNCHANGED <<configVars, store, worker, grounds>>

\* On the connection the audit of the shard began with.
Maintain ==
  /\ At("maintain")
  /\ \/ opens[audit.conn].handle = "open" /\ Go("next") /\ UNCHANGED budget
     \/ opens[audit.conn].handle # "open" /\ Go("failed") /\ UNCHANGED budget
     \/ Go("failed") /\ Spend("failures")
  /\ UNCHANGED <<file, connections, call, closing, data, worker, grounds>>

AuditStep ==
  \/ ShardNext \/ AuditEnd \/ AuditGetDb \/ ReadFails \/ QuickCheck \/ ReadPage
  \/ Repair \/ Sync \/ ReadEdges \/ ReadSources \/ DropEdge \/ Prune \/ Maintain

\* A process dies, with what it had buffered.
Crash(p) ==
  /\ CrashOf(p)
  /\ buffer' = [e \in Entries |-> IF ProcessOf[e] = p THEN NoBuffer ELSE buffer[e]]
  /\ IF p = Host THEN worker' = NoWorker /\ audit' = NoAudit /\ grounds' = NoGrounds
                 ELSE UNCHANGED <<worker, audit, grounds>>
  /\ UNCHANGED store

Next ==
  \/ ConfigStep /\ UNCHANGED auditVars
  \/ \E e \in Entries, kind \in UserOps, id \in budget.ids, other \in budget.ids \cup {NoId} :
       UserPush(e, Op(kind, id, other))
  \/ TimerFlush
  \/ StartWorker \/ StopWorker \/ Tick \/ InitialRun
  \/ AuditStep
  \/ \E p \in Processes : Crash(p)

\* Promises settle, timers fire, and what runs goes on.  Nothing forces a call, a fault,
\* a flush by the timer, or a close.
Fairness ==
  /\ WF_vars(Tick) /\ WF_vars(AuditStep)
  /\ \A c \in Clients : WF_vars(Settle(c) /\ UNCHANGED auditVars)
  /\ \A p \in Processes : WF_vars(CloseStep(p) /\ UNCHANGED auditVars)
  /\ WF_vars(\E k \in DOMAIN opens : InitializeStep(k) /\ UNCHANGED auditVars)

Spec == Init /\ [][Next]_vars /\ Fairness
-----------------------------------------------------------------------------
(* Properties *)

Operations == [kind : {"insertNode", "deleteNode", "cut", "addKnowledge", "deleteEdge", "prune"},
               id : Ids \cup {NoId}, other : Ids \cup {NoId}]

TypeOK ==
  /\ ConfigTypeOK
  /\ \A f \in Files :
       /\ store[f].nodes \in Seq(Nodes)
       /\ store[f].edges \in Seq(Edges) /\ store[f].knowledge \subseteq Ids
  /\ buffer \in [Entries -> [inFlight : Seq(Operations), active : Seq(Operations)]]
  /\ worker \in [interval : BOOLEAN, initial : Nat, isProcessing : BOOLEAN]
  /\ audit.at \in Reads \cup {"off", "next", "repair", "drop", "prune", "maintain", "failed"}
  /\ worker.isProcessing <=> ~At("off")
  /\ audit.offset % Page = 0 /\ audit.total <= audit.offset

\* The audit only cuts nodes whose parent was in no row of the shard when it judged them,
\* on disk or buffered; unless there are more nodes than a page, when a parent in another
\* page counts as missing.
AuditCutsOnlyDangling ==
  At("repair") => grounds.wide \/ Range(audit.work) \subseteq grounds.dangling

Orphans(e) == LET nodes == View(e).nodes IN OrphansIn(nodes, NodeIds(nodes))

Dangling(e) == DanglingIn(View(e).edges, View(e).knowledge)

\* The worker runs, and sees all nodes of the shard in its first page, and all edges.
Audited(e) ==
  /\ worker.interval /\ dbs[e] # 0
  /\ \A rows \in {View(e), store[FileOf[e]]} :
       Len(rows.nodes) <= Page /\ Len(rows.edges) <= Page

\* The orphaned nodes and dangling edges of an active shard are repaired in the end,
\* although flushes fail and lose repairs, statements fail and end audits, and shards are
\* closed and opened again meanwhile: as long as the worker runs and all rows fit a page.
OrphansRepaired ==
  \A e \in {e \in Entries : ProcessOf[e] = Host} :
    Audited(e) ~> (Audited(e) => Orphans(e) = <<>> /\ Dangling(e) = <<>>)
=============================================================================
