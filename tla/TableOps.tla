------------------------------ MODULE TableOps -------------------------------
(***************************************************************************)
(* What the pool makes of the operations on one table: groupOps() and      *)
(* executeSingleOp() (src/infrastructure/db/pool/Operations.ts), which     *)
(* take them to disk, and applyOpsToResults() (QueryEngine.ts), which      *)
(* shows them to readers before they get there.                            *)
(*                                                                         *)
(* A row has a status and a counter.  An operation names its rows by a     *)
(* list of ids: "where id = i" and "where id IN [i]" have the same         *)
(* dedupKey.  Identifiers of inserts are fresh, so none fails.             *)
(***************************************************************************)
EXTENDS Integers, FiniteSets, SequencesExt

CONSTANTS
  Ids, Statuses, Lists,      \* Lists: the id lists of updates
  NoStatus,                  \* an update that leaves the status alone
  MaxOps                     \* bound on the operations of a behaviour

ASSUME TableAssumption ==
  /\ IsFiniteSet(Ids) /\ Lists \subseteq Seq(Ids)
  /\ NoStatus \notin Statuses /\ MaxOps \in Nat

NoRow == [status |-> NoStatus, count |-> 0]

\* The operations: their type, rows and status, and what they do to the counter, which
\* is to add a value (0 leaves it alone) or to set it.
Insert(i, st) == [type |-> "insert", ids |-> <<i>>, status |-> st, how |-> "sets", val |-> 0]

Upsert(i, st) == [type |-> "upsert", ids |-> <<i>>, status |-> st, how |-> "sets", val |-> 0]

Update(ids, st, how, val) ==
  [type |-> "update", ids |-> ids, status |-> st, how |-> how, val |-> val]

Delete(i) == [type |-> "delete", ids |-> <<i>>, status |-> NoStatus, how |-> "adds", val |-> 0]

VARIABLES
  disk,                      \* the rows
  active, inFlight,          \* activeBuffer and inFlightBuffer
  trx,                       \* the operations the transaction has yet to execute, the rows
                             \* as it sees them, and whether grouping moved an update
  stage,                     \* of the flush: none, transaction, committed
  truth,                     \* history: the rows after every operation, in order
  reordered,                 \* history: whether a flush moved an update over another
                             \* operation on one of its rows
  pushes                     \* operations so far

vars == <<disk, active, inFlight, trx, stage, truth, reordered, pushes>>

Init ==
  /\ disk \in [Ids -> {NoRow} \cup {[status |-> st, count |-> 0] : st \in Statuses}]
  /\ active = <<>> /\ inFlight = <<>>
  /\ trx = [ops |-> <<>>, rows |-> disk, moved |-> FALSE] /\ stage = "none"
  /\ truth = disk
  /\ reordered = FALSE /\ pushes = 0

-----------------------------------------------------------------------------
(* Operations.ts *)

Written(op) == [status |-> op.status, count |-> 0]

Updated(row, op) ==
  [status |-> IF op.status = NoStatus THEN row.status ELSE op.status,
   count |-> IF op.how = "sets" THEN op.val ELSE row.count + op.val]

\* executeSingleOp(): an update or a delete of a row that is not there does nothing.
Execute(rows, op) ==
  [i \in Ids |->
     IF i \notin Range(op.ids) THEN rows[i]
     ELSE CASE op.type \in {"insert", "upsert"} -> Written(op)
            [] op.type = "update" -> IF rows[i] = NoRow THEN NoRow ELSE Updated(rows[i], op)
            [] op.type = "delete" -> NoRow]

\* Seeded fault: the later increment replaces the earlier one.
Merge_ReplacesInc(op, later) ==
  [op EXCEPT !.status = IF later.status = NoStatus THEN @ ELSE later.status,
             !.how = IF later.how = "sets" THEN "sets" ELSE @,
             !.val = IF later.how = "adds" /\ later.val = 0 THEN @ ELSE later.val]

\* A later update with the same dedupKey is merged into an earlier one: its increment is
\* added to the value or the increment that is there, its value replaces either.
Merge(op, later) ==
  [op EXCEPT !.status = IF later.status = NoStatus THEN @ ELSE later.status,
             !.how = IF later.how = "sets" THEN "sets" ELSE @,
             !.val = IF later.how = "sets" THEN later.val ELSE @ + later.val]

\* Where the update cache has an operation with the key of op.
Cached(ops, op) ==
  IF op.type # "update" THEN {}
  ELSE {k \in 1 .. Len(ops) : ops[k].type = "update" /\ ops[k].ids = op.ids}

\* groupOps() on one operation, after those of out.  It also groups adjacent inserts,
\* which changes nothing for the rows.
Grouped(out, op) ==
  LET k == Cached(out, op)
  IN IF k = {} THEN Append(out, op) ELSE [out EXCEPT ![CHOOSE i \in k : TRUE] = Merge(@, op)]

Coalesce(ops) == FoldLeft(Grouped, <<>>, ops)

\* groupOps() merges in place: the first of the merged operations, which readers still
\* see in the in-flight buffer, gets the values of all of them; the others keep theirs.
\* (Its hasIncrements is not set again, so readers may take an increment merged into it for
\* the value itself; no property is about counters in the middle of a transaction.)
MergedFrom(ops, k, op, m) ==
  IF m > k /\ m \in Cached(ops, ops[k]) THEN Merge(op, ops[m]) ELSE op

Mutated(ops) ==
  LET merged(k) == FoldLeftDomain(LAMBDA op, m : MergedFrom(ops, k, op, m), ops[k], ops)
  IN [k \in 1 .. Len(ops) |-> IF \E m \in Cached(ops, ops[k]) : m < k THEN ops[k]
                              ELSE merged(k)]

-----------------------------------------------------------------------------
(* QueryEngine.ts *)

\* The conditions of a query, here the ids and the statuses it asks for.
Passes(filter, i, row) == row # NoRow /\ i \in filter.ids /\ row.status \in filter.statuses

\* Seeded fault: an increment is not added to the row's value.
ApplySingle_NoIncrement(target, op, filter) ==
  LET kept(i, row) == IF Passes(filter, i, row) THEN row ELSE NoRow
      plain == IF op.how = "adds" THEN [op EXCEPT !.val = 0] ELSE op
  IN [i \in Ids |-> IF i \in Range(op.ids) THEN kept(i, Execute(target, plain)[i]) ELSE target[i]]

\* Seeded fault: a row that no longer passes the filter stays as it was.
ApplySingle_KeepsRow(target, op, filter) ==
  LET kept(i, row) == IF row = NoRow \/ Passes(filter, i, row) THEN row ELSE target[i]
  IN [i \in Ids |-> IF i \in Range(op.ids) THEN kept(i, Execute(target, op)[i]) ELSE target[i]]

\* applySingleOp() on the rows of a query: what no longer passes the
\* filter is dropped, and an update brings nothing back.
ApplySingle(target, op, filter) ==
  LET kept(i, row) == IF Passes(filter, i, row) THEN row ELSE NoRow
  IN [i \in Ids |-> IF i \in Range(op.ids) THEN kept(i, Execute(target, op)[i]) ELSE target[i]]

\* What the index on status st holds for i: the last operation on its status, if that is
\* st.  The queue's upserts name their row in a "where" and are indexed like updates.
Indexed(ops, i, st) ==
  LET on == {k \in 1 .. Len(ops) : /\ ops[k].type \in {"update", "upsert"}
                                   /\ ops[k].status # NoStatus /\ i \in Range(ops[k].ids)}
  IN IF on = {} THEN <<>>
     ELSE LET last == CHOOSE k \in on : \A m \in on : m <= k
          IN IF ops[last].status = st THEN <<ops[last]>> ELSE <<>>

Apply(target, ops, filter) ==
  FoldLeft(LAMBDA rows, op : ApplySingle(rows, op, filter), target, ops)

Filtered(filter) ==
  [i \in Ids |-> IF Passes(filter, i, disk[i]) THEN disk[i] ELSE NoRow]

\* selectWhere() by id.
ReadById(id) ==
  LET filter == [ids |-> {id}, statuses |-> Statuses]
  IN Apply(Apply(Filtered(filter), inFlight, filter), active, filter)[id]

\* selectWhere() by status: each buffer is applied after the operations of its index.
ReadByStatus(st) ==
  LET filter == [ids |-> Ids, statuses |-> {st}]
      index(ops) == FoldSet(LAMBDA i, s : Indexed(ops, i, st) \o s, <<>>, Ids)
      layer(target, ops) == Apply(Apply(target, index(ops), filter), ops, filter)
  IN layer(layer(Filtered(filter), inFlight), active)

-----------------------------------------------------------------------------
(* The flush *)

\* Whether an update of ops is merged over an operation in between on one of its rows.
Reorders(ops) ==
  \E k, m \in 1 .. Len(ops) :
    /\ k < m /\ k \in Cached(ops, ops[m])
    /\ \E b \in k + 1 .. m - 1 : /\ b \notin Cached(ops, ops[m])
                                 /\ Range(ops[b].ids) \cap Range(ops[m].ids) # {}

\* push() appends the operation and keeps the index.
Push(op) ==
  /\ pushes < MaxOps /\ pushes' = pushes + 1
  /\ op.type = "insert" => truth[op.ids[1]] = NoRow
  /\ active' = Append(active, op)
  /\ truth' = Execute(truth, op)
  /\ UNCHANGED <<disk, inFlight, trx, stage, reordered>>

Changes ==
  [status : Statuses, how : {"adds"}, val : {0}]
    \cup [status : Statuses \cup {NoStatus}, how : {"adds"}, val : {1}]
    \cup [status : Statuses \cup {NoStatus}, how : {"sets"}, val : {0}]

Operations ==
  {Insert(i, st) : i \in Ids, st \in Statuses} \cup {Upsert(i, st) : i \in Ids, st \in Statuses}
  \cup {Update(s, c.status, c.how, c.val) : s \in Lists, c \in Changes} \cup {Delete(i) : i \in Ids}

\* Seeded fault: the active buffer goes on with the operations it handed over.
Swap_SharesBuffer ==
  /\ stage = "none" /\ active # <<>>
  /\ stage' = "transaction"
  /\ trx' = [ops |-> Coalesce(active), rows |-> disk, moved |-> Reorders(active)]
  /\ inFlight' = Mutated(active)
  /\ UNCHANGED <<disk, active, truth, reordered, pushes>>

\* flush() swaps the buffers, groups the operations and opens the transaction.
Swap ==
  /\ stage = "none" /\ active # <<>>
  /\ stage' = "transaction"
  /\ trx' = [ops |-> Coalesce(active), rows |-> disk, moved |-> Reorders(active)]
  /\ inFlight' = Mutated(active)
  /\ active' = <<>>
  /\ UNCHANGED <<disk, truth, reordered, pushes>>

ExecuteNext ==
  /\ stage = "transaction" /\ trx.ops # <<>>
  /\ trx' = [trx EXCEPT !.ops = Tail(@), !.rows = Execute(@, Head(trx.ops))]
  /\ UNCHANGED <<disk, active, inFlight, stage, truth, reordered, pushes>>

Commit ==
  /\ stage = "transaction" /\ trx.ops = <<>>
  /\ stage' = "committed"
  /\ disk' = trx.rows
  /\ reordered' = (reordered \/ trx.moved)
  /\ UNCHANGED <<active, inFlight, trx, truth, pushes>>

\* clearInFlight(), when the flush goes on after its transaction.
Clear ==
  /\ stage = "committed" /\ stage' = "none"
  /\ inFlight' = <<>>
  /\ trx' = [ops |-> <<>>, rows |-> disk, moved |-> FALSE]
  /\ UNCHANGED <<disk, active, truth, reordered, pushes>>

Next == (\E op \in Operations : Push(op)) \/ Swap \/ ExecuteNext \/ Commit \/ Clear

Spec == Init /\ [][Next]_vars
-----------------------------------------------------------------------------
(* Properties *)

Row == [status : Statuses \cup {NoStatus}, count : Nat]

Op == [type : {"insert", "upsert", "update", "delete"}, ids : Seq(Ids),
       status : Statuses \cup {NoStatus}, how : {"adds", "sets"}, val : Nat]

\* Every variable holds what its declaration says: a buffer holds as many operations as
\* were pushed into it, and grouping never makes more of them.
TypeOK ==
  /\ disk \in [Ids -> Row] /\ truth \in [Ids -> Row]
  /\ active \in Seq(Op) /\ inFlight \in Seq(Op)
  /\ trx.ops \in Seq(Op) /\ trx.rows \in [Ids -> Row]
  /\ stage \in {"none", "transaction", "committed"}
  /\ Len(trx.ops) <= Len(inFlight) /\ Len(inFlight) + Len(active) <= pushes

\* The statuses of a row since it was on disk or upserted, {} for a row that is not there.
Since(i, s, op) ==
  IF i \notin Range(op.ids) THEN s
  ELSE CASE op.type \in {"insert", "upsert"} -> {op.status}
         [] op.type = "delete" -> {}
         [] op.type = "update" -> IF s = {} \/ op.status = NoStatus THEN s
                                  ELSE s \cup {op.status}

StatusesSince(i) ==
  FoldLeft(LAMBDA s, op : Since(i, s, op),
           IF disk[i] = NoRow THEN {} ELSE {disk[i].status}, active)

\* What flushes leave on disk is what the operations do in the order they were pushed,
\* unless an update was moved: merging keeps every increment and every last value.
FlushMatches == stage = "none" /\ active = <<>> /\ ~reordered => disk = truth

\* The same of the statuses without the exception, as the documentation has it: of
\* several updates of a row, the latest survives the flush.
LatestSurvives ==
  stage = "none" /\ active = <<>> => \A i \in Ids : disk[i].status = truth[i].status

\* A read by id shows the row as all operations leave it; while a transaction is under
\* way, whose updates are merged in place, that holds for existence and status.
ReadByIdMatches ==
  stage # "committed" /\ ~reordered =>
    \A i \in Ids : /\ ReadById(i).status = truth[i].status
                   /\ stage = "none" => ReadById(i) = truth[i]

\* A read by status never shows a row that has another status by now, not even while a
\* transaction is under way: nobody works on a job because of a stale status.
StatusReadSound ==
  stage # "committed" /\ ~reordered =>
    \A st \in Statuses, i \in Ids : ReadByStatus(st)[i] # NoRow => truth[i].status = st

\* Between flushes, a read by status shows a row exactly if it has had no other status
\* since it was on disk or upserted.  The job queue relies on no more.
ShowsMatches ==
  stage = "none" /\ ~reordered =>
    \A st \in Statuses, i \in Ids : ReadByStatus(st)[i] # NoRow <=> StatusesSince(i) = {st}

\* Reads by status are sound at all times, and show what the queue relies on at rest.
StatusReads == StatusReadSound /\ ShowsMatches
=============================================================================
