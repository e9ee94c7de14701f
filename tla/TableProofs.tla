----------------------------- MODULE TableProofs -----------------------------
(***************************************************************************)
(* Theorems about TableOps, for any finite set of rows, any statuses and   *)
(* lists of ids, and any number of operations.  What grouping and reading  *)
(* make of a whole buffer is proved by induction on the buffer: the folds  *)
(* that define them are taken apart by FoldLemmas.                         *)
(***************************************************************************)
EXTENDS TableOps, FiniteSetTheorems, SequenceTheorems, TLAPS

\* The folds of the model.
E == INSTANCE FoldLemmas WITH Op <- LAMBDA p, t, x : Execute(t, x)

G == INSTANCE FoldLemmas WITH Op <- LAMBDA p, t, x : Grouped(t, x)

M == INSTANCE FoldLemmas WITH Op <- LAMBDA p, t, x : MergedFrom(p[1], p[2], t, x)

A == INSTANCE FoldLemmas WITH Op <- LAMBDA p, t, x : ApplySingle(t, x, p)

S == INSTANCE FoldLemmas WITH Op <- LAMBDA p, t, x : Since(p, t, x)

I == INSTANCE FoldLemmas WITH Op <- LAMBDA p, t, x : Indexed(p[1], x, p[2]) \o t

\* The operations, one after the other.
Run(rows, ops) == E!Fold({}, rows, ops)

LEMMA CoalesceIsFold == \A ops : Coalesce(ops) = G!Fold({}, <<>>, ops)
BY DEF Coalesce, FoldLeft, MapThenFoldSet, Max, G!Fold, G!FoldLeft, G!MapThenFoldSet, G!Max

LEMMA ApplyIsFold == \A rows, ops, filter : Apply(rows, ops, filter) = A!Fold(filter, rows, ops)
BY DEF Apply, FoldLeft, MapThenFoldSet, Max, A!Fold, A!FoldLeft, A!MapThenFoldSet, A!Max

LEMMA SinceIsFold ==
  \A i : StatusesSince(i)
         = S!Fold(i, IF disk[i] = NoRow THEN {} ELSE {disk[i].status}, active)
BY DEF StatusesSince, FoldLeft, MapThenFoldSet, Max, S!Fold, S!FoldLeft, S!MapThenFoldSet, S!Max

LEMMA MergedIsFold ==
  \A ops, k : FoldLeftDomain(LAMBDA op, m : MergedFrom(ops, k, op, m), ops[k], ops)
              = M!Fold(<<ops, k>>, ops[k], [i \in DOMAIN ops |-> i])
BY DEF FoldLeftDomain, FoldLeft, MapThenFoldSet, Max, M!Fold, M!FoldLeft, M!MapThenFoldSet, M!Max

LEMMA IndexIsFold ==
  \A ops, st : FoldSet(LAMBDA i, s : Indexed(ops, i, st) \o s, <<>>, Ids)
              = I!SetFold(<<ops, st>>, <<>>, Ids)
BY DEF FoldSet, MapThenFoldSet, I!SetFold, I!FoldSet, I!MapThenFoldSet

-----------------------------------------------------------------------------
(* The rows after an operation *)

\* The rows that are there have a status; the operations that write a row give it one.
LiveRow == [status : Statuses, count : Nat]

Rows == [Ids -> {NoRow} \cup LiveRow]

Ops == {op \in Op : op.type \in {"insert", "upsert"} => op.status \in Statuses}

RowAfter(row, op) ==
  CASE op.type \in {"insert", "upsert"} -> Written(op)
    [] op.type = "update" -> IF row = NoRow THEN NoRow ELSE Updated(row, op)
    [] op.type = "delete" -> NoRow

\* An operation is done row by row.
LEMMA ExecuteRow ==
  \A rows, op : /\ DOMAIN Execute(rows, op) = Ids
                /\ \A i \in Ids : Execute(rows, op)[i]
                                  = IF i \notin Range(op.ids) THEN rows[i] ELSE RowAfter(rows[i], op)
BY DEF Execute, RowAfter

LEMMA LiveRows ==
  \A row \in {NoRow} \cup LiveRow :
    /\ row.status \in Statuses \cup {NoStatus} /\ row.count \in Nat
    /\ row = NoRow <=> row.status \notin Statuses
BY TableAssumption DEF NoRow, LiveRow

LEMMA RowIsTyped ==
  \A row \in {NoRow} \cup LiveRow, op \in Ops : RowAfter(row, op) \in {NoRow} \cup LiveRow
<1> SUFFICES ASSUME NEW row \in {NoRow} \cup LiveRow, NEW op \in Ops
             PROVE  RowAfter(row, op) \in {NoRow} \cup LiveRow
  OBVIOUS
<1>1. op.type \in {"insert", "upsert", "update", "delete"} /\ op.val \in Nat
      /\ op.status \in Statuses \cup {NoStatus}
  BY DEF Ops, Op
<1>2. CASE op.type \in {"insert", "upsert"}
  <2>1. op.status \in Statuses
    BY <1>2 DEF Ops
  <2> QED
    BY <1>2, <2>1 DEF RowAfter, Written, LiveRow
<1>3. CASE op.type = "update"
  <2>1. CASE row = NoRow
    BY <1>3, <2>1 DEF RowAfter
  <2>2. CASE row # NoRow
    <3>1. row \in LiveRow
      BY <2>2
    <3>2. row.status \in Statuses /\ row.count + op.val \in Nat
      BY <1>1, <3>1 DEF LiveRow
    <3>3. RowAfter(row, op) = Updated(row, op)
      BY <1>3, <2>2 DEF RowAfter
    <3> QED
      BY <1>1, <3>2, <3>3 DEF Updated, LiveRow
  <2> QED
    BY <2>1, <2>2
<1>4. CASE op.type = "delete"
  BY <1>4 DEF RowAfter
<1> QED
  BY <1>1, <1>2, <1>3, <1>4

\* What the operations of the model make of a row.
LEMMA RowCases ==
  \A row \in {NoRow} \cup LiveRow, op \in Ops :
    /\ op.type \in {"insert", "upsert"} =>
         RowAfter(row, op) # NoRow /\ RowAfter(row, op).status = op.status /\ op.status \in Statuses
    /\ op.type = "delete" => RowAfter(row, op) = NoRow
    /\ op.type = "update" =>
         /\ row = NoRow <=> RowAfter(row, op) = NoRow
         /\ row # NoRow => RowAfter(row, op).status
                           = IF op.status = NoStatus THEN row.status ELSE op.status
<1> SUFFICES ASSUME NEW row \in {NoRow} \cup LiveRow, NEW op \in Ops
             PROVE  /\ op.type \in {"insert", "upsert"} =>
                         /\ RowAfter(row, op) # NoRow /\ RowAfter(row, op).status = op.status
                         /\ op.status \in Statuses
                    /\ op.type = "delete" => RowAfter(row, op) = NoRow
                    /\ op.type = "update" =>
                         /\ row = NoRow <=> RowAfter(row, op) = NoRow
                         /\ row # NoRow => RowAfter(row, op).status
                              = IF op.status = NoStatus THEN row.status ELSE op.status
  OBVIOUS
<1>1. ASSUME op.type \in {"insert", "upsert"}
      PROVE  /\ RowAfter(row, op) # NoRow /\ RowAfter(row, op).status = op.status
             /\ op.status \in Statuses
  <2>1. op.status \in Statuses
    BY <1>1 DEF Ops
  <2>2. RowAfter(row, op) = Written(op)
    BY <1>1 DEF RowAfter
  <2>3. Written(op).status = op.status /\ NoRow.status = NoStatus
    BY DEF Written, NoRow
  <2> QED
    BY <2>1, <2>2, <2>3, TableAssumption
<1>2. op.type = "delete" => RowAfter(row, op) = NoRow
  BY DEF RowAfter
<1>3. ASSUME op.type = "update"
      PROVE  /\ row = NoRow <=> RowAfter(row, op) = NoRow
             /\ row # NoRow => RowAfter(row, op).status
                               = IF op.status = NoStatus THEN row.status ELSE op.status
  <2>1. CASE row = NoRow
    BY <1>3, <2>1 DEF RowAfter
  <2>2. CASE row # NoRow
    <3>1. row.status \in Statuses
      BY <2>2, LiveRows
    <3>2. RowAfter(row, op) = Updated(row, op)
      BY <1>3, <2>2 DEF RowAfter
    <3>3. Updated(row, op).status = (IF op.status = NoStatus THEN row.status ELSE op.status)
      BY DEF Updated
    <3>4. op.status \in Statuses \cup {NoStatus} /\ NoRow.status = NoStatus
      BY DEF Ops, Op, NoRow
    <3> QED
      BY <2>2, <3>1, <3>2, <3>3, <3>4, TableAssumption
  <2> QED
    BY <2>1, <2>2
<1> QED
  BY <1>1, <1>2, <1>3

LEMMA ExecuteIsTyped == \A rows \in Rows, op \in Ops : Execute(rows, op) \in Rows
<1> SUFFICES ASSUME NEW rows \in Rows, NEW op \in Ops
             PROVE  Execute(rows, op) \in Rows
  OBVIOUS
<1>1. PICK X : X = {NoRow} \cup LiveRow
  OBVIOUS
<1>2. rows \in [Ids -> X] /\ Rows = [Ids -> X]
  BY <1>1 DEF Rows
<1>3. ASSUME NEW i \in Ids
      PROVE  (IF i \notin Range(op.ids) THEN rows[i] ELSE RowAfter(rows[i], op)) \in X
  BY <1>1, <1>2, RowIsTyped
<1>4. Execute(rows, op)
      = [i \in Ids |-> IF i \notin Range(op.ids) THEN rows[i] ELSE RowAfter(rows[i], op)]
  BY DEF Execute, RowAfter
<1> QED
  BY <1>2, <1>3, <1>4

LEMMA RunIsTyped == \A rows \in Rows, ops \in Seq(Ops) : Run(rows, ops) \in Rows
<1> SUFFICES ASSUME NEW rows \in Rows, NEW ops \in Seq(Ops)
             PROVE  Run(rows, ops) \in Rows
  OBVIOUS
<1>1. \A v \in Rows, x \in Ops : Execute(v, x) \in Rows
  BY ExecuteIsTyped
<1> QED
  BY <1>1, E!FoldIsTyped DEF Run

LEMMA RunOfNone == \A rows : Run(rows, <<>>) = rows
BY E!FoldOfNone DEF Run

LEMMA RunOfAppend ==
  \A rows : \A ops \in Seq(Ops), op \in Ops : Run(rows, Append(ops, op)) = Execute(Run(rows, ops), op)
BY E!FoldOfAppend DEF Run

LEMMA RunOfTail ==
  \A rows : \A ops \in Seq(Ops) :
    ops # <<>> => Run(rows, ops) = Run(Execute(rows, Head(ops)), Tail(ops))
BY E!FoldOfTail DEF Run

-----------------------------------------------------------------------------
(* Merging two updates *)

LEMMA SameRows ==
  \A r1, r2, op1, op2 :
    (\A i \in Ids : Execute(r1, op1)[i] = Execute(r2, op2)[i])
      => Execute(r1, op1) = Execute(r2, op2)
<1> SUFFICES ASSUME NEW r1, NEW r2, NEW op1, NEW op2,
                    \A i \in Ids : Execute(r1, op1)[i] = Execute(r2, op2)[i]
             PROVE  Execute(r1, op1) = Execute(r2, op2)
  OBVIOUS
<1>1. PICK f : f = Execute(r1, op1)
  OBVIOUS
<1>2. PICK g : g = Execute(r2, op2)
  OBVIOUS
<1>3. f = [i \in Ids |-> f[i]] /\ g = [i \in Ids |-> g[i]]
  BY <1>1, <1>2 DEF Execute
<1> QED
  BY <1>1, <1>2, <1>3

LEMMA MergeIsTyped ==
  \A op, later \in Ops :
    op.type = "update" =>
      /\ Merge(op, later) \in Ops
      /\ Merge(op, later).type = op.type /\ Merge(op, later).ids = op.ids
      /\ Merge(op, later).status = (IF later.status = NoStatus THEN op.status ELSE later.status)
      /\ Merge(op, later).how = (IF later.how = "sets" THEN "sets" ELSE op.how)
      /\ Merge(op, later).val = (IF later.how = "sets" THEN later.val ELSE op.val + later.val)
<1> SUFFICES ASSUME NEW op \in Ops, NEW later \in Ops, op.type = "update"
             PROVE  /\ Merge(op, later) \in Ops
                    /\ Merge(op, later).type = op.type /\ Merge(op, later).ids = op.ids
                    /\ Merge(op, later).status
                       = (IF later.status = NoStatus THEN op.status ELSE later.status)
                    /\ Merge(op, later).how = (IF later.how = "sets" THEN "sets" ELSE op.how)
                    /\ Merge(op, later).val
                       = (IF later.how = "sets" THEN later.val ELSE op.val + later.val)
  OBVIOUS
<1>1. PICK st, how, val : /\ st = (IF later.status = NoStatus THEN op.status ELSE later.status)
                          /\ how = (IF later.how = "sets" THEN "sets" ELSE op.how)
                          /\ val = (IF later.how = "sets" THEN later.val ELSE op.val + later.val)
  OBVIOUS
<1>2. /\ op \in Op /\ st \in Statuses \cup {NoStatus}
      /\ how \in {"adds", "sets"} /\ val \in Nat
  BY <1>1 DEF Ops, Op
<1>3. PICK m : m = [op EXCEPT !.status = st, !.how = how, !.val = val]
  OBVIOUS
<1>4. /\ m \in Op /\ m.type = op.type /\ m.ids = op.ids
      /\ m.status = st /\ m.how = how /\ m.val = val
  BY <1>2, <1>3 DEF Op
<1>5. m = Merge(op, later)
  BY <1>1, <1>3 DEF Merge
<1> QED
  BY <1>1, <1>4, <1>5 DEF Ops

\* A merged update does to a row what the two do one after the other.
LEMMA MergeRow ==
  \A row \in {NoRow} \cup LiveRow, op, later \in Ops :
    op.type = "update" /\ later.type = "update" =>
      RowAfter(row, Merge(op, later)) = RowAfter(RowAfter(row, op), later)
<1> SUFFICES ASSUME NEW row \in {NoRow} \cup LiveRow, NEW op \in Ops, NEW later \in Ops,
                    op.type = "update", later.type = "update"
             PROVE  RowAfter(row, Merge(op, later)) = RowAfter(RowAfter(row, op), later)
  OBVIOUS
<1>1. PICK m \in Ops :
        /\ m = Merge(op, later) /\ m.type = "update"
        /\ m.how = (IF later.how = "sets" THEN "sets" ELSE op.how)
        /\ m.val = (IF later.how = "sets" THEN later.val ELSE op.val + later.val)
        /\ m.status = (IF later.status = NoStatus THEN op.status ELSE later.status)
  BY MergeIsTyped
<1>2. CASE row = NoRow
  BY <1>1, <1>2 DEF RowAfter
<1>3. CASE row # NoRow
  <2>1. row.status \in Statuses /\ row.count \in Nat
    BY <1>3, LiveRows
  <2>2. PICK r : r = Updated(row, op)
    OBVIOUS
  <2>3. r = RowAfter(row, op) /\ r # NoRow
    BY <1>3, <2>2, RowCases DEF RowAfter
  <2>4. r.status = (IF op.status = NoStatus THEN row.status ELSE op.status)
        /\ r.count = IF op.how = "sets" THEN op.val ELSE row.count + op.val
    BY <2>2 DEF Updated
  <2>5. RowAfter(r, later) = Updated(r, later) /\ RowAfter(row, m) = Updated(row, m)
    BY <1>1, <1>3, <2>3 DEF RowAfter
  <2>6. op.val \in Nat /\ later.val \in Nat
    BY DEF Ops, Op
  <2>7. (IF m.how = "sets" THEN m.val ELSE row.count + m.val)
        = IF later.how = "sets" THEN later.val ELSE r.count + later.val
    BY <1>1, <2>1, <2>4, <2>6
  <2>8. (IF m.status = NoStatus THEN row.status ELSE m.status)
        = IF later.status = NoStatus THEN r.status ELSE later.status
    BY <1>1, <2>4
  <2>9. Updated(r, later) = Updated(row, m)
    BY <1>1, <2>4, <2>7, <2>8 DEF Updated
  <2> QED
    BY <1>1, <2>3, <2>5, <2>9
<1> QED
  BY <1>2, <1>3

LEMMA MergeExecutes ==
  \A rows \in Rows, op, later \in Ops :
    op.type = "update" /\ later.type = "update" /\ op.ids = later.ids =>
      Execute(rows, Merge(op, later)) = Execute(Execute(rows, op), later)
<1> SUFFICES ASSUME NEW rows \in Rows, NEW op \in Ops, NEW later \in Ops,
                    op.type = "update", later.type = "update", op.ids = later.ids
             PROVE  Execute(rows, Merge(op, later)) = Execute(Execute(rows, op), later)
  OBVIOUS
<1>1. Merge(op, later).ids = op.ids
  BY MergeIsTyped
<1>2. ASSUME NEW i \in Ids
      PROVE  Execute(rows, Merge(op, later))[i] = Execute(Execute(rows, op), later)[i]
  <2>1. rows[i] \in {NoRow} \cup LiveRow
    BY DEF Rows
  <2>2. RowAfter(rows[i], Merge(op, later)) = RowAfter(RowAfter(rows[i], op), later)
    BY <2>1, MergeRow
  <2> QED
    BY <1>1, <2>2, ExecuteRow
<1> QED
  BY <1>2, SameRows

\* Operations on different rows may change places.
LEMMA DisjointCommute ==
  \A rows, a, b :
    Range(a.ids) \cap Range(b.ids) = {} =>
      Execute(Execute(rows, a), b) = Execute(Execute(rows, b), a)
<1> SUFFICES ASSUME NEW rows, NEW a, NEW b, Range(a.ids) \cap Range(b.ids) = {}
             PROVE  Execute(Execute(rows, a), b) = Execute(Execute(rows, b), a)
  OBVIOUS
<1>1. ASSUME NEW i \in Ids
      PROVE  Execute(Execute(rows, a), b)[i] = Execute(Execute(rows, b), a)[i]
  <2>1. i \notin Range(a.ids) \/ i \notin Range(b.ids)
    OBVIOUS
  <2> QED
    BY <2>1, ExecuteRow
<1> QED
  BY <1>1, SameRows

\* Merging an update into an operation that only operations on other rows follow does
\* what it does at the end.
LEMMA MergeInto ==
  ASSUME NEW rows \in Rows, NEW out \in Seq(Ops), NEW op \in Ops, NEW k \in 1 .. Len(out),
         op.type = "update", out[k].type = "update", out[k].ids = op.ids,
         \A j \in k + 1 .. Len(out) : Range(out[j].ids) \cap Range(op.ids) = {}
  PROVE  Run(rows, [out EXCEPT ![k] = Merge(@, op)]) = Execute(Run(rows, out), op)
<1>1. PICK n : n = Len(out)
  OBVIOUS
<1>2. PICK new : new = [out EXCEPT ![k] = Merge(@, op)]
  OBVIOUS
<1>3. /\ n \in Nat /\ k \in 1 .. n /\ DOMAIN out = 1 .. n /\ DOMAIN new = 1 .. n
      /\ new[k] = Merge(out[k], op) /\ \A i \in 1 .. n : out[i] \in Ops
      /\ \A i \in 1 .. n : i # k => new[i] = out[i]
      /\ \A j \in k + 1 .. n : Range(out[j].ids) \cap Range(op.ids) = {}
  BY <1>1, <1>2
<1>4. PICK f : E!Steps({}, f, rows, out, n) /\ E!Fold({}, rows, out) = f[n]
  BY <1>3, E!FoldRuns
<1>5. PICK g : E!Steps({}, g, rows, new, n) /\ E!Fold({}, rows, new) = g[n]
  BY <1>3, E!FoldRuns
<1>6. f[0] = rows /\ \A i \in 0 .. n - 1 : f[i + 1] = Execute(f[i], out[i + 1])
  BY <1>4 DEF E!Steps
<1>7. g[0] = rows /\ \A i \in 0 .. n - 1 : g[i + 1] = Execute(g[i], new[i + 1])
  BY <1>5 DEF E!Steps
<1>8. PICK T : T = {i \in Nat : i <= n => /\ f[i] \in Rows
                                          /\ g[i] = IF i < k THEN f[i] ELSE Execute(f[i], op)}
  OBVIOUS
<1>9. 0 \in T
  BY <1>3, <1>6, <1>7, <1>8
<1>10. ASSUME NEW i \in T
       PROVE  i + 1 \in T
  <2>1. i \in Nat
    BY <1>8
  <2>2. CASE i + 1 <= n
    <3>1. i \in 0 .. n - 1 /\ i + 1 \in 1 .. n /\ i <= n
      BY <1>3, <2>1, <2>2
    <3>2. /\ f[i + 1] = Execute(f[i], out[i + 1]) /\ g[i + 1] = Execute(g[i], new[i + 1])
          /\ f[i] \in Rows /\ out[i + 1] \in Ops
          /\ g[i] = IF i < k THEN f[i] ELSE Execute(f[i], op)
      BY <1>3, <1>6, <1>7, <1>8, <3>1
    <3>3. f[i + 1] \in Rows
      BY <3>2, ExecuteIsTyped
    <3>4. CASE i + 1 < k
      BY <1>3, <1>8, <2>1, <3>1, <3>2, <3>3, <3>4
    <3>5. CASE i + 1 = k
      <4>1. Execute(f[i], Merge(out[k], op)) = Execute(Execute(f[i], out[k]), op)
        BY <3>2, <3>5, MergeExecutes
      <4>2. g[i + 1] = Execute(f[i + 1], op)
        BY <1>3, <2>1, <3>2, <3>5, <4>1
      <4> QED
        BY <1>8, <2>1, <3>3, <3>5, <4>2
    <3>6. CASE i + 1 > k
      <4>1. i + 1 \in k + 1 .. n /\ new[i + 1] = out[i + 1] /\ ~(i < k)
        BY <1>3, <2>1, <3>1, <3>6
      <4>2. g[i + 1] = Execute(Execute(f[i], op), out[i + 1])
        BY <3>2, <4>1
      <4>3. g[i + 1] = Execute(f[i + 1], op)
        BY <1>3, <3>2, <4>1, <4>2, DisjointCommute
      <4> QED
        BY <1>3, <1>8, <2>1, <3>3, <3>6, <4>3
    <3> QED
      BY <1>3, <2>1, <3>4, <3>5, <3>6
  <2> QED
    BY <1>8, <2>1, <2>2
<1>11. n \in T
  BY <1>3, <1>8, <1>9, <1>10, E!NatSetInduction
<1>12. g[n] = Execute(f[n], op)
  BY <1>3, <1>8, <1>11
<1> QED
  BY <1>2, <1>4, <1>5, <1>12 DEF Run

-----------------------------------------------------------------------------
(* Grouping *)

\* Operations with the same type and rows: of updates, those with the same dedupKey.
Same(a, b) == a.type = b.type /\ a.ids = b.ids

\* Grouping keeps the order: operations that follow each other in "out" stem from
\* operations that follow each other in "ops".
Ordered(ops, out) ==
  \A j, k \in 1 .. Len(out) :
    j < k => \E p, q \in 1 .. Len(ops) : p < q /\ Same(ops[p], out[j]) /\ Same(ops[q], out[k])

OneUpdatePerKey(out) ==
  \A j, k \in 1 .. Len(out) : j < k => ~(out[j].type = "update" /\ Same(out[j], out[k]))

Groups(ops, out) ==
  /\ out \in Seq(Ops) /\ Len(out) <= Len(ops)
  /\ \A j \in 1 .. Len(out) : \E p \in 1 .. Len(ops) : Same(ops[p], out[j])
  /\ Ordered(ops, out)
  /\ OneUpdatePerKey(out)
  /\ ~Reorders(ops) => \A rows \in Rows : Run(rows, out) = Run(rows, ops)

LEMMA CachedIs ==
  \A ops, op : Cached(ops, op) = {k \in 1 .. Len(ops) : op.type = "update" /\ Same(ops[k], op)}
BY DEF Cached, Same

\* What a longer buffer does not reorder, a shorter one does not.
LEMMA ReordersGrows ==
  \A ops \in Seq(Ops), op \in Ops : Reorders(ops) => Reorders(Append(ops, op))
<1> SUFFICES ASSUME NEW ops \in Seq(Ops), NEW op \in Ops, Reorders(ops)
             PROVE  Reorders(Append(ops, op))
  OBVIOUS
<1>1. PICK all : all = Append(ops, op)
  OBVIOUS
<1>2. PICK n \in Nat : n = Len(ops)
  OBVIOUS
<1>3. Len(all) = n + 1 /\ \A i \in 1 .. n : all[i] = ops[i]
  BY <1>1, <1>2
<1>4. PICK k, m \in 1 .. n :
        /\ k < m /\ k \in Cached(ops, ops[m])
        /\ \E b \in k + 1 .. m - 1 : /\ b \notin Cached(ops, ops[m])
                                     /\ Range(ops[b].ids) \cap Range(ops[m].ids) # {}
  BY <1>2 DEF Reorders
<1>5. PICK b \in k + 1 .. m - 1 : /\ b \notin Cached(ops, ops[m])
                                  /\ Range(ops[b].ids) \cap Range(ops[m].ids) # {}
  BY <1>4
<1>6. b \in 1 .. n /\ k \in 1 .. n + 1 /\ m \in 1 .. n + 1 /\ b \in 1 .. n + 1
  OBVIOUS
<1>7. \A i \in 1 .. n : i \in Cached(all, all[m]) <=> i \in Cached(ops, ops[m])
  BY <1>2, <1>3, CachedIs
<1>8. /\ k < m /\ k \in Cached(all, all[m]) /\ b \notin Cached(all, all[m])
      /\ Range(all[b].ids) \cap Range(all[m].ids) # {}
  BY <1>3, <1>4, <1>5, <1>6, <1>7
<1>9. Reorders(all)
  BY <1>3, <1>5, <1>6, <1>8 DEF Reorders
<1> QED
  BY <1>1, <1>9

\* An operation that is not merged goes to the end.
LEMMA GroupsAppend ==
  ASSUME NEW ops \in Seq(Ops), NEW out, NEW op \in Ops, Groups(ops, out), Cached(out, op) = {}
  PROVE  Groups(Append(ops, op), Append(out, op))
<1>1. PICK all, new : all = Append(ops, op) /\ new = Append(out, op)
  OBVIOUS
<1>2. PICK n, l \in Nat : n = Len(ops) /\ l = Len(out)
  BY DEF Groups
<1>3. /\ out \in Seq(Ops) /\ new \in Seq(Ops) /\ l <= n
      /\ Len(all) = n + 1 /\ Len(new) = l + 1
      /\ all[n + 1] = op /\ \A i \in 1 .. n : all[i] = ops[i]
      /\ new[l + 1] = op /\ \A i \in 1 .. l : new[i] = out[i]
  BY <1>1, <1>2 DEF Groups
<1>4. Same(all[n + 1], new[l + 1])
  BY <1>3 DEF Same
<1>5. \A j \in 1 .. l : \E p \in 1 .. n : Same(all[p], new[j])
  BY <1>2, <1>3 DEF Groups
<1>6. \A j \in 1 .. l + 1 : \E p \in 1 .. n + 1 : Same(all[p], new[j])
  <2>1. n + 1 \in 1 .. n + 1 /\ \A p \in 1 .. n : p \in 1 .. n + 1
    OBVIOUS
  <2> QED
    BY <1>4, <1>5, <2>1
<1>7. Ordered(all, new)
  <2>1. ASSUME NEW j \in 1 .. l + 1, NEW k \in 1 .. l + 1, j < k
        PROVE  \E p, q \in 1 .. n + 1 : p < q /\ Same(all[p], new[j]) /\ Same(all[q], new[k])
    <3>1. CASE k = l + 1
      <4>1. PICK p \in 1 .. n : Same(all[p], new[j])
        BY <1>5, <2>1, <3>1
      <4>2. p \in 1 .. n + 1 /\ n + 1 \in 1 .. n + 1 /\ p < n + 1
        OBVIOUS
      <4> QED
        BY <1>4, <3>1, <4>1, <4>2
    <3>2. CASE k # l + 1
      <4>1. j \in 1 .. l /\ k \in 1 .. l
        BY <2>1, <3>2
      <4>2. PICK p, q \in 1 .. n : p < q /\ Same(ops[p], out[j]) /\ Same(ops[q], out[k])
        BY <1>2, <2>1, <4>1 DEF Groups, Ordered
      <4>3. p \in 1 .. n + 1 /\ q \in 1 .. n + 1
        OBVIOUS
      <4> QED
        BY <1>3, <4>1, <4>2, <4>3
    <3> QED
      BY <3>1, <3>2
  <2> QED
    BY <1>3, <2>1 DEF Ordered
<1>8. OneUpdatePerKey(new)
  <2>1. ASSUME NEW j \in 1 .. l + 1, NEW k \in 1 .. l + 1, j < k,
               new[j].type = "update", Same(new[j], new[k])
        PROVE  FALSE
    <3>1. CASE k = l + 1
      <4>1. j \in 1 .. l /\ new[j] = out[j] /\ new[k] = op
        BY <1>3, <2>1, <3>1
      <4>2. j \in Cached(out, op)
        BY <1>2, <2>1, <4>1, CachedIs DEF Same
      <4> QED
        BY <4>2
    <3>2. CASE k # l + 1
      <4>1. j \in 1 .. l /\ k \in 1 .. l
        BY <2>1, <3>2
      <4> QED
        BY <1>2, <1>3, <2>1, <4>1 DEF Groups, OneUpdatePerKey
    <3> QED
      BY <3>1, <3>2
  <2> QED
    BY <1>3, <2>1 DEF OneUpdatePerKey
<1>9. ASSUME ~Reorders(all), NEW rows \in Rows
      PROVE  Run(rows, new) = Run(rows, all)
  <2>1. Run(rows, out) = Run(rows, ops)
    BY <1>1, <1>9, ReordersGrows DEF Groups
  <2>2. Run(rows, Append(out, op)) = Execute(Run(rows, out), op)
        /\ Run(rows, Append(ops, op)) = Execute(Run(rows, ops), op)
    BY <1>3, RunOfAppend
  <2> QED
    BY <1>1, <2>1, <2>2
<1>10. Groups(all, new)
  BY <1>3, <1>6, <1>7, <1>8, <1>9 DEF Groups
<1> QED
  BY <1>1, <1>10

\* An update that is merged leaves the others where they are.
LEMMA GroupsMerge ==
  ASSUME NEW ops \in Seq(Ops), NEW out, NEW op \in Ops, Groups(ops, out),
         NEW c \in Cached(out, op)
  PROVE  Groups(Append(ops, op), [out EXCEPT ![c] = Merge(@, op)])
<1>1. PICK all, new : all = Append(ops, op) /\ new = [out EXCEPT ![c] = Merge(@, op)]
  OBVIOUS
<1>2. PICK n, l \in Nat : n = Len(ops) /\ l = Len(out)
  BY DEF Groups
<1>3. /\ out \in Seq(Ops) /\ l <= n /\ c \in 1 .. l
      /\ op.type = "update" /\ out[c].type = "update" /\ out[c].ids = op.ids
      /\ Len(all) = n + 1 /\ all[n + 1] = op /\ \A i \in 1 .. n : all[i] = ops[i]
  BY <1>1, <1>2, CachedIs DEF Groups, Same
<1>4. Merge(out[c], op) \in Ops /\ Same(Merge(out[c], op), out[c])
  BY <1>2, <1>3, MergeIsTyped DEF Same
<1>5. /\ new \in Seq(Ops) /\ Len(new) = l
      /\ \A j \in 1 .. l : Same(new[j], out[j])
  <2>1. new \in Seq(Ops) /\ Len(new) = l /\ new[c] = Merge(out[c], op)
        /\ \A j \in 1 .. l : j # c => new[j] = out[j]
    BY <1>1, <1>2, <1>3, <1>4
  <2> QED
    BY <1>4, <2>1 DEF Same
<1>6. ASSUME NEW j \in 1 .. l
      PROVE  \E p \in 1 .. n + 1 : Same(all[p], new[j])
  <2>1. PICK p \in 1 .. n : Same(ops[p], out[j])
    BY <1>2 DEF Groups
  <2>2. p \in 1 .. n + 1 /\ Same(all[p], new[j])
    BY <1>3, <1>5, <2>1 DEF Same
  <2> QED
    BY <2>2
<1>7. Ordered(all, new)
  <2>1. ASSUME NEW j \in 1 .. l, NEW k \in 1 .. l, j < k
        PROVE  \E p, q \in 1 .. n + 1 : p < q /\ Same(all[p], new[j]) /\ Same(all[q], new[k])
    <3>1. PICK p, q \in 1 .. n : p < q /\ Same(ops[p], out[j]) /\ Same(ops[q], out[k])
      BY <1>2, <2>1 DEF Groups, Ordered
    <3>2. p \in 1 .. n + 1 /\ q \in 1 .. n + 1 /\ Same(all[p], new[j]) /\ Same(all[q], new[k])
      BY <1>3, <1>5, <3>1 DEF Same
    <3> QED
      BY <3>1, <3>2
  <2> QED
    BY <1>3, <1>5, <2>1 DEF Ordered
<1>8. OneUpdatePerKey(new)
  <2>1. ASSUME NEW j \in 1 .. l, NEW k \in 1 .. l, j < k,
               new[j].type = "update", Same(new[j], new[k])
        PROVE  FALSE
    <3>1. out[j].type = "update" /\ Same(out[j], out[k])
      BY <1>5, <2>1 DEF Same
    <3> QED
      BY <1>2, <2>1, <3>1 DEF Groups, OneUpdatePerKey
  <2> QED
    BY <1>5, <2>1 DEF OneUpdatePerKey
<1>9. ASSUME ~Reorders(all), NEW rows \in Rows
      PROVE  Run(rows, new) = Run(rows, all)
  <2>1. Run(rows, out) = Run(rows, ops)
    BY <1>1, <1>9, ReordersGrows DEF Groups
  <2>2. ASSUME NEW j \in c + 1 .. l, Range(out[j].ids) \cap Range(op.ids) # {}
        PROVE  FALSE
    <3>1. c \in 1 .. l /\ j \in 1 .. l /\ c < j
      BY <1>3
    <3>2. PICK p, q \in 1 .. n : p < q /\ Same(ops[p], out[c]) /\ Same(ops[q], out[j])
      BY <1>2, <3>1 DEF Groups, Ordered
    <3>3. ~Same(out[c], out[j])
      BY <1>2, <1>3, <3>1 DEF Groups, OneUpdatePerKey
    <3>4. p \in Cached(all, op) /\ q \notin Cached(all, op)
      <4>1. /\ all[p] = ops[p] /\ all[q] = ops[q] /\ Len(all) = n + 1
            /\ p \in 1 .. n + 1 /\ q \in 1 .. n + 1
        BY <1>3, <3>2
      <4>2. Same(all[p], op) /\ ~Same(all[q], op)
        BY <1>3, <3>2, <3>3, <4>1 DEF Same
      <4>3. Cached(all, op) = {k \in 1 .. n + 1 : op.type = "update" /\ Same(all[k], op)}
        BY <4>1, CachedIs
      <4> QED
        BY <1>3, <4>1, <4>2, <4>3
    <3>5. Range(all[q].ids) \cap Range(op.ids) # {}
      BY <1>3, <2>2, <3>2 DEF Same
    <3>6. p \in 1 .. n + 1 /\ n + 1 \in 1 .. n + 1 /\ p < n + 1 /\ q \in p + 1 .. (n + 1) - 1
      BY <3>2
    <3>7. Reorders(all)
      BY <1>3, <3>4, <3>5, <3>6 DEF Reorders
    <3> QED
      BY <1>9, <3>7
  <2>3. Run(rows, new) = Execute(Run(rows, out), op)
    BY <1>1, <1>2, <1>3, <2>2, MergeInto
  <2>4. Run(rows, Append(ops, op)) = Execute(Run(rows, ops), op)
    BY RunOfAppend
  <2> QED
    BY <1>1, <2>1, <2>3, <2>4
<1>10. Groups(all, new)
  BY <1>2, <1>3, <1>5, <1>6, <1>7, <1>8, <1>9 DEF Groups
<1> QED
  BY <1>1, <1>10

\* What groupOps() makes of a buffer: never more operations, in the same order, with one
\* update for each key, and with the same effect unless an update is merged over another
\* operation on one of its rows.
THEOREM CoalesceGroups == \A ops \in Seq(Ops) : Groups(ops, Coalesce(ops))
<1>1. PICK T : T = {n \in Nat : \A ops \in Seq(Ops) :
                                  Len(ops) = n => Groups(ops, Coalesce(ops))}
  OBVIOUS
<1>2. 0 \in T
  <2>1. ASSUME NEW ops \in Seq(Ops), Len(ops) = 0
        PROVE  Groups(ops, Coalesce(ops))
    <3>1. ops = <<>>
      BY <2>1
    <3>2. Coalesce(<<>>) = <<>>
      BY CoalesceIsFold, G!FoldOfNone
    <3>3. Len(<<>>) = 0 /\ 1 .. 0 = {}
      OBVIOUS
    <3>4. Ordered(<<>>, <<>>) /\ OneUpdatePerKey(<<>>)
      BY <3>3 DEF Ordered, OneUpdatePerKey
    <3>5. <<>> \in Seq(Ops) /\ Len(<<>>) <= Len(<<>>)
          /\ \A j \in 1 .. Len(<<>>) : \E p \in 1 .. Len(<<>>) : Same(<<>>[p], <<>>[j])
      BY <3>3
    <3>6. Groups(<<>>, <<>>)
      BY <3>4, <3>5 DEF Groups
    <3> QED
      BY <3>1, <3>2, <3>6
  <2> QED
    BY <1>1, <2>1
<1>3. ASSUME NEW n \in T
      PROVE  n + 1 \in T
  <2>1. n \in Nat
    BY <1>1
  <2>2. ASSUME NEW ops \in Seq(Ops), Len(ops) = n + 1
        PROVE  Groups(ops, Coalesce(ops))
    <3>1. ops # <<>>
      BY <2>1, <2>2
    <3>2. PICK init \in Seq(Ops), op \in Ops : ops = Append(init, op)
      BY <3>1, SequenceEmptyOrAppend
    <3>3. Len(init) = n
      BY <2>1, <2>2, <3>2
    <3>4. PICK out : out = Coalesce(init)
      OBVIOUS
    <3>5. Groups(init, out)
      BY <1>1, <3>3, <3>4
    <3>6. Coalesce(ops) = Grouped(out, op)
      BY <3>2, <3>4, CoalesceIsFold, G!FoldOfAppend
    <3>7. CASE Cached(out, op) = {}
      BY <3>2, <3>5, <3>6, <3>7, GroupsAppend DEF Grouped
    <3>8. CASE Cached(out, op) # {}
      <4>1. PICK c : c = CHOOSE i \in Cached(out, op) : TRUE
        OBVIOUS
      <4>2. c \in Cached(out, op)
        BY <3>8, <4>1
      <4>3. PICK new : new = [out EXCEPT ![c] = Merge(@, op)]
        OBVIOUS
      <4>4. Groups(Append(init, op), new)
        BY <3>5, <4>2, <4>3, GroupsMerge
      <4>5. Grouped(out, op) = new
        BY <3>8, <4>1, <4>3 DEF Grouped
      <4> QED
        BY <3>2, <3>6, <4>4, <4>5
    <3> QED
      BY <3>7, <3>8
  <2> QED
    BY <1>1, <2>1, <2>2
<1>4. T = Nat
  BY <1>1, <1>2, <1>3, G!NatSetInduction
<1> QED
  BY <1>1, <1>4

-----------------------------------------------------------------------------
(* What readers see of a buffer that is being flushed *)

\* A buffer whose updates took over the values of later ones with the same key: an
\* update differs in its status only if a later one on the same rows sets the status.
Like(ops, mut) ==
  /\ mut \in Seq(Ops) /\ Len(mut) = Len(ops)
  /\ \A k \in 1 .. Len(ops) :
       /\ Same(mut[k], ops[k])
       /\ ops[k].type # "update" => mut[k] = ops[k]
       /\ \/ mut[k].status = ops[k].status
          \/ \E m \in k + 1 .. Len(ops) : Same(ops[m], ops[k]) /\ ops[m].status # NoStatus

LEMMA LikeItself == \A ops \in Seq(Ops) : Like(ops, ops)
BY DEF Like, Same

LEMMA MergedIsLike ==
  ASSUME NEW ops \in Seq(Ops), NEW k \in 1 .. Len(ops)
  PROVE  \E op \in Ops :
           /\ op = M!Fold(<<ops, k>>, ops[k], [i \in DOMAIN ops |-> i])
           /\ Same(op, ops[k])
           /\ ops[k].type # "update" => op = ops[k]
           /\ \/ op.status = ops[k].status
              \/ \E m \in k + 1 .. Len(ops) : Same(ops[m], ops[k]) /\ ops[m].status # NoStatus
<1>1. PICK n \in Nat : n = Len(ops)
  OBVIOUS
<1>2. PICK V : V = {op \in Ops :
                      /\ Same(op, ops[k])
                      /\ ops[k].type # "update" => op = ops[k]
                      /\ \/ op.status = ops[k].status
                         \/ \E m \in k + 1 .. n :
                              Same(ops[m], ops[k]) /\ ops[m].status # NoStatus}
  OBVIOUS
<1>3. PICK idx : idx = [i \in DOMAIN ops |-> i]
  OBVIOUS
<1>4. idx \in Seq(1 .. n) /\ \A i \in 1 .. n : ops[i] \in Ops
  <2>1. DOMAIN ops = 1 .. n
    BY <1>1
  <2>2. idx \in [1 .. n -> 1 .. n]
    BY <1>3, <2>1
  <2> QED
    BY <1>1, <2>2
<1>5. ops[k] \in V
  BY <1>1, <1>2, <1>4 DEF Same
<1>6. ASSUME NEW v \in V, NEW m \in 1 .. n
      PROVE  MergedFrom(ops, k, v, m) \in V
  <2>1. CASE m > k /\ m \in Cached(ops, ops[k])
    <3>1. /\ m \in k + 1 .. n /\ ops[k].type = "update" /\ Same(ops[m], ops[k])
          /\ v \in Ops /\ v.type = "update" /\ Same(v, ops[k]) /\ ops[m] \in Ops
      BY <1>2, <1>4, <2>1, CachedIs DEF Same
    <3>2. PICK new \in Ops :
            /\ new = Merge(v, ops[m]) /\ Same(new, v)
            /\ new.status = (IF ops[m].status = NoStatus THEN v.status ELSE ops[m].status)
      BY <3>1, MergeIsTyped DEF Same
    <3>3. CASE ops[m].status = NoStatus
      <4>1. \/ new.status = ops[k].status
            \/ \E j \in k + 1 .. n : Same(ops[j], ops[k]) /\ ops[j].status # NoStatus
        BY <1>2, <3>2, <3>3
      <4>2. new \in V
        BY <1>2, <3>1, <3>2, <4>1 DEF Same
      <4> QED
        BY <2>1, <3>2, <4>2 DEF MergedFrom
    <3>4. CASE ops[m].status # NoStatus
      <4>1. new \in V
        BY <1>2, <3>1, <3>2, <3>4 DEF Same
      <4> QED
        BY <2>1, <3>2, <4>1 DEF MergedFrom
    <3> QED
      BY <3>3, <3>4
  <2>2. CASE ~(m > k /\ m \in Cached(ops, ops[k]))
    BY <2>2 DEF MergedFrom
  <2> QED
    BY <2>1, <2>2
<1>7. \A v \in V, m \in 1 .. n : MergedFrom(<<ops, k>>[1], <<ops, k>>[2], v, m) \in V
  BY <1>6
<1>8. M!Fold(<<ops, k>>, ops[k], idx) \in V
  BY <1>4, <1>5, <1>7, M!FoldIsTyped
<1> QED
  BY <1>1, <1>2, <1>3, <1>8

\* What groupOps() leaves of the buffer that it merges in place.
LEMMA MutatedIsLike == \A ops \in Seq(Ops) : Like(ops, Mutated(ops))
<1> SUFFICES ASSUME NEW ops \in Seq(Ops)
             PROVE  Like(ops, Mutated(ops))
  OBVIOUS
<1>1. PICK n \in Nat : n = Len(ops)
  OBVIOUS
<1>2. PICK mut : mut = Mutated(ops)
  OBVIOUS
<1>3. PICK merged : merged = [k \in 1 .. n |-> M!Fold(<<ops, k>>, ops[k], [i \in DOMAIN ops |-> i])]
  OBVIOUS
<1>4. mut = [k \in 1 .. n |-> IF \E m \in Cached(ops, ops[k]) : m < k THEN ops[k] ELSE merged[k]]
  BY <1>1, <1>2, <1>3, MergedIsFold DEF Mutated
<1>5. ASSUME NEW k \in 1 .. n
      PROVE  /\ mut[k] \in Ops
             /\ Same(mut[k], ops[k])
             /\ ops[k].type # "update" => mut[k] = ops[k]
             /\ \/ mut[k].status = ops[k].status
                \/ \E m \in k + 1 .. n : Same(ops[m], ops[k]) /\ ops[m].status # NoStatus
  <2>1. CASE mut[k] = ops[k]
    BY <1>1, <2>1 DEF Same
  <2>2. CASE mut[k] = merged[k]
    <3>1. merged[k] = M!Fold(<<ops, k>>, ops[k], [i \in DOMAIN ops |-> i])
      BY <1>3
    <3> QED
      BY <1>1, <2>2, <3>1, MergedIsLike
  <2> QED
    BY <1>4, <2>1, <2>2
<1>6. mut \in Seq(Ops) /\ Len(mut) = n
  <2>1. mut \in [1 .. n -> Ops]
    BY <1>4, <1>5
  <2> QED
    BY <2>1
<1>7. Like(ops, mut)
  BY <1>1, <1>5, <1>6 DEF Like
<1> QED
  BY <1>2, <1>7

\* An update from the n-th operation on sets the status of row i.
StatusLater(ops, i, n) ==
  \E m \in n .. Len(ops) :
    i \in Range(ops[m].ids) /\ ops[m].type = "update" /\ ops[m].status # NoStatus

LEMMA LikeStep ==
  ASSUME NEW ops \in Seq(Ops), NEW mut, Like(ops, mut), NEW i \in Ids,
         NEW n \in Nat, n + 1 \in 1 .. Len(ops),
         NEW x \in {NoRow} \cup LiveRow, NEW y \in {NoRow} \cup LiveRow,
         x = NoRow <=> y = NoRow,
         \/ x.status = y.status
         \/ StatusLater(ops, i, n + 1),
         i \in Range(ops[n + 1].ids)
  PROVE  /\ RowAfter(x, ops[n + 1]) = NoRow <=> RowAfter(y, mut[n + 1]) = NoRow
         /\ \/ RowAfter(x, ops[n + 1]).status = RowAfter(y, mut[n + 1]).status
            \/ StatusLater(ops, i, n + 2)
<1>1. PICK a, b \in Ops : a = ops[n + 1] /\ b = mut[n + 1]
  BY DEF Like
<1>2. /\ Same(b, a) /\ a.type \in {"insert", "upsert", "update", "delete"}
      /\ a.type # "update" => b = a
  BY <1>1 DEF Like, Ops, Op
<1>3. CASE a.type # "update"
  <2>1. b = a /\ a.type \in {"insert", "upsert", "delete"}
    BY <1>2, <1>3
  <2>2. RowAfter(x, a) = RowAfter(y, a)
    BY <2>1 DEF RowAfter
  <2> QED
    BY <1>1, <2>1, <2>2
<1>4. CASE a.type = "update"
  <2>1. /\ x = NoRow <=> RowAfter(x, a) = NoRow
        /\ y = NoRow <=> RowAfter(y, b) = NoRow
        /\ x # NoRow => RowAfter(x, a).status = IF a.status = NoStatus THEN x.status ELSE a.status
        /\ y # NoRow => RowAfter(y, b).status = IF b.status = NoStatus THEN y.status ELSE b.status
    BY <1>2, <1>4, RowCases DEF Same
  <2>2. CASE x = NoRow
    BY <1>1, <2>1, <2>2
  <2>3. CASE b.status # a.status
    <3>1. PICK m \in (n + 1) + 1 .. Len(ops) : Same(ops[m], a) /\ ops[m].status # NoStatus
      BY <1>1, <2>3 DEF Like
    <3>2. m \in n + 2 .. Len(ops) /\ i \in Range(ops[m].ids) /\ ops[m].type = "update"
      BY <1>1, <1>4, <3>1 DEF Same
    <3>3. StatusLater(ops, i, n + 2)
      BY <3>1, <3>2 DEF StatusLater
    <3> QED
      BY <1>1, <2>1, <3>3
  <2>4. CASE x # NoRow /\ b.status = a.status
    <3>1. CASE x.status = y.status \/ a.status # NoStatus
      BY <1>1, <2>1, <2>4, <3>1
    <3>2. CASE x.status # y.status /\ a.status = NoStatus
      <4>1. PICK m \in n + 1 .. Len(ops) : /\ i \in Range(ops[m].ids) /\ ops[m].type = "update"
                                           /\ ops[m].status # NoStatus
        BY <3>2 DEF StatusLater
      <4>2. m # n + 1
        BY <1>1, <3>2, <4>1
      <4>3. StatusLater(ops, i, n + 2)
        <5>1. m \in n + 2 .. Len(ops)
          BY <4>2
        <5> QED
          BY <4>1, <5>1 DEF StatusLater
      <4> QED
        BY <1>1, <2>1, <4>3
    <3> QED
      BY <3>1, <3>2
  <2> QED
    BY <2>2, <2>3, <2>4
<1> QED
  BY <1>3, <1>4

\* The merged buffer leaves every row with the status that the original one leaves it with.
LEMMA LikeRuns ==
  ASSUME NEW ops \in Seq(Ops), NEW mut, Like(ops, mut), NEW i \in Ids,
         NEW r1 \in Rows, NEW r2 \in Rows, r1[i].status = r2[i].status
  PROVE  Run(r1, ops)[i].status = Run(r2, mut)[i].status
<1>1. PICK n \in Nat : n = Len(ops)
  OBVIOUS
<1>2. /\ DOMAIN ops = 1 .. n /\ DOMAIN mut = 1 .. n /\ Len(mut) = n
      /\ \A k \in 1 .. n : ops[k] \in Ops /\ mut[k] \in Ops /\ mut[k].ids = ops[k].ids
  BY <1>1 DEF Like, Same
<1>3. PICK f : E!Steps({}, f, r1, ops, n) /\ E!Fold({}, r1, ops) = f[n]
  BY <1>2, E!FoldRuns
<1>4. PICK g : E!Steps({}, g, r2, mut, n) /\ E!Fold({}, r2, mut) = g[n]
  BY <1>2, E!FoldRuns
<1>5. /\ f[0] = r1 /\ \A k \in 0 .. n - 1 : f[k + 1] = Execute(f[k], ops[k + 1])
      /\ g[0] = r2 /\ \A k \in 0 .. n - 1 : g[k + 1] = Execute(g[k], mut[k + 1])
  BY <1>3, <1>4 DEF E!Steps
<1>6. PICK T : T = {k \in Nat :
                      k <= n =>
                        /\ f[k] \in Rows /\ g[k] \in Rows
                        /\ f[k][i] = NoRow <=> g[k][i] = NoRow
                        /\ \/ f[k][i].status = g[k][i].status
                           \/ StatusLater(ops, i, k + 1)}
  OBVIOUS
<1>7. 0 \in T
  <2>1. r1[i] \in {NoRow} \cup LiveRow /\ r2[i] \in {NoRow} \cup LiveRow
    BY DEF Rows
  <2>2. r1[i] = NoRow <=> r2[i] = NoRow
    BY <2>1, LiveRows
  <2> QED
    BY <1>5, <1>6, <2>2
<1>8. ASSUME NEW k \in T
      PROVE  k + 1 \in T
  <2>1. k \in Nat
    BY <1>6
  <2>2. CASE k + 1 <= n
    <3>1. k \in 0 .. n - 1 /\ k + 1 \in 1 .. n /\ k <= n
      BY <2>1, <2>2
    <3>2. PICK x, y, a, b : x = f[k] /\ y = g[k] /\ a = ops[k + 1] /\ b = mut[k + 1]
      OBVIOUS
    <3>3. /\ x \in Rows /\ y \in Rows /\ a \in Ops /\ b \in Ops /\ b.ids = a.ids
          /\ x[i] = NoRow <=> y[i] = NoRow
          /\ \/ x[i].status = y[i].status
             \/ StatusLater(ops, i, k + 1)
      BY <1>2, <1>6, <3>1, <3>2
    <3>4. PICK u, v : u = Execute(x, a) /\ v = Execute(y, b)
      OBVIOUS
    <3>5. u \in Rows /\ v \in Rows /\ f[k + 1] = u /\ g[k + 1] = v
      BY <1>5, <3>1, <3>2, <3>3, <3>4, ExecuteIsTyped
    <3>6. /\ u[i] = IF i \notin Range(a.ids) THEN x[i] ELSE RowAfter(x[i], a)
          /\ v[i] = IF i \notin Range(a.ids) THEN y[i] ELSE RowAfter(y[i], b)
      BY <3>3, <3>4, ExecuteRow
    <3>7. /\ u[i] = NoRow <=> v[i] = NoRow
          /\ \/ u[i].status = v[i].status
             \/ StatusLater(ops, i, k + 2)
      <4>1. CASE i \notin Range(a.ids)
        <5>1. \A m \in k + 1 .. n : i \in Range(ops[m].ids) => m \in k + 2 .. n
          BY <2>1, <3>2, <4>1
        <5>2. StatusLater(ops, i, k + 1) => StatusLater(ops, i, k + 2)
          BY <1>1, <5>1 DEF StatusLater
        <5> QED
          BY <3>3, <3>6, <4>1, <5>2
      <4>2. CASE i \in Range(a.ids)
        <5>1. x[i] \in {NoRow} \cup LiveRow /\ y[i] \in {NoRow} \cup LiveRow
          BY <3>3 DEF Rows
        <5>2. PICK xi \in {NoRow} \cup LiveRow, yi \in {NoRow} \cup LiveRow :
                xi = x[i] /\ yi = y[i]
          BY <5>1
        <5>3. /\ xi = NoRow <=> yi = NoRow
              /\ \/ xi.status = yi.status
                 \/ StatusLater(ops, i, k + 1)
          BY <1>1, <3>3, <5>2
        <5>4. k + 1 \in 1 .. Len(ops) /\ i \in Range(ops[k + 1].ids)
          BY <1>1, <3>1, <3>2, <4>2
        <5>5. /\ RowAfter(xi, ops[k + 1]) = NoRow <=> RowAfter(yi, mut[k + 1]) = NoRow
              /\ \/ RowAfter(xi, ops[k + 1]).status = RowAfter(yi, mut[k + 1]).status
                 \/ StatusLater(ops, i, k + 2)
          BY <2>1, <5>3, <5>4, LikeStep
        <5> QED
          BY <1>1, <3>2, <3>6, <4>2, <5>2, <5>5
      <4> QED
        BY <4>1, <4>2
    <3>8. (k + 1) + 1 = k + 2
      BY <2>1
    <3> QED
      BY <1>6, <2>1, <3>5, <3>7, <3>8
  <2> QED
    BY <1>6, <2>1, <2>2
<1>9. n \in T
  BY <1>1, <1>6, <1>7, <1>8, E!NatSetInduction
<1>10. f[n][i].status = g[n][i].status
  <2>1. n + 1 .. n = {}
    BY <1>1
  <2> QED
    BY <1>1, <1>6, <1>9, <2>1 DEF StatusLater
<1> QED
  BY <1>3, <1>4, <1>10 DEF Run

-----------------------------------------------------------------------------
(* Reads by id *)

\* A read applies an operation row by row too.
LEMMA ApplyRow ==
  \A rows, op, filter : \A i \in Ids :
    ApplySingle(rows, op, filter)[i]
    = IF i \notin Range(op.ids) THEN rows[i]
      ELSE IF Passes(filter, i, RowAfter(rows[i], op)) THEN RowAfter(rows[i], op) ELSE NoRow
<1> SUFFICES ASSUME NEW rows, NEW op, NEW filter, NEW i \in Ids
             PROVE  ApplySingle(rows, op, filter)[i]
                    = IF i \notin Range(op.ids) THEN rows[i]
                      ELSE IF Passes(filter, i, RowAfter(rows[i], op))
                           THEN RowAfter(rows[i], op) ELSE NoRow
  OBVIOUS
<1>1. i \in Range(op.ids) => Execute(rows, op)[i] = RowAfter(rows[i], op)
  BY ExecuteRow
<1> QED
  BY <1>1 DEF ApplySingle

\* Applying a buffer to the row that a query asks for by its id does to it what executing
\* the buffer does.
LEMMA ApplyById ==
  ASSUME NEW ops \in Seq(Ops), NEW i \in Ids, NEW rows \in Rows, NEW target,
         target[i] = rows[i]
  PROVE  Apply(target, ops, [ids |-> {i}, statuses |-> Statuses])[i] = Run(rows, ops)[i]
<1>1. PICK n \in Nat : n = Len(ops)
  OBVIOUS
<1>2. PICK filter : filter = [ids |-> {i}, statuses |-> Statuses]
  OBVIOUS
<1>3. DOMAIN ops = 1 .. n /\ \A k \in 1 .. n : ops[k] \in Ops
  BY <1>1
<1>4. PICK f : E!Steps({}, f, rows, ops, n) /\ E!Fold({}, rows, ops) = f[n]
  BY <1>3, E!FoldRuns
<1>5. PICK g : A!Steps(filter, g, target, ops, n) /\ A!Fold(filter, target, ops) = g[n]
  BY <1>3, A!FoldRuns
<1>6. /\ f[0] = rows /\ \A k \in 0 .. n - 1 : f[k + 1] = Execute(f[k], ops[k + 1])
      /\ g[0] = target /\ \A k \in 0 .. n - 1 : g[k + 1] = ApplySingle(g[k], ops[k + 1], filter)
  BY <1>4, <1>5 DEF E!Steps, A!Steps
<1>7. PICK T : T = {k \in Nat : k <= n => f[k] \in Rows /\ g[k][i] = f[k][i]}
  OBVIOUS
<1>8. 0 \in T
  BY <1>6, <1>7
<1>9. ASSUME NEW k \in T
      PROVE  k + 1 \in T
  <2>1. k \in Nat
    BY <1>7
  <2>2. CASE k + 1 <= n
    <3>1. k \in 0 .. n - 1 /\ k + 1 \in 1 .. n /\ k <= n
      BY <2>1, <2>2
    <3>2. PICK x, y, a : x = f[k] /\ y = g[k] /\ a = ops[k + 1]
      OBVIOUS
    <3>3. x \in Rows /\ a \in Ops /\ y[i] = x[i]
      BY <1>3, <1>7, <3>1, <3>2
    <3>4. PICK u, v : u = Execute(x, a) /\ v = ApplySingle(y, a, filter)
      OBVIOUS
    <3>5. u \in Rows /\ f[k + 1] = u /\ g[k + 1] = v
      BY <1>6, <3>1, <3>2, <3>3, <3>4, ExecuteIsTyped
    <3>6. v[i] = u[i]
      <4>1. CASE i \notin Range(a.ids)
        BY <3>3, <3>4, <4>1, ApplyRow, ExecuteRow
      <4>2. CASE i \in Range(a.ids)
        <5>1. u[i] = RowAfter(x[i], a) /\ u[i] \in {NoRow} \cup LiveRow
          BY <3>4, <3>5, <4>2, ExecuteRow DEF Rows
        <5>2. v[i] = IF Passes(filter, i, u[i]) THEN u[i] ELSE NoRow
          BY <3>3, <3>4, <4>2, <5>1, ApplyRow
        <5>3. u[i] # NoRow => Passes(filter, i, u[i])
          BY <1>2, <5>1, LiveRows DEF Passes
        <5> QED
          BY <5>2, <5>3
      <4> QED
        BY <4>1, <4>2
    <3> QED
      BY <1>7, <2>1, <3>5, <3>6
  <2> QED
    BY <1>7, <2>1, <2>2
<1>10. n \in T
  BY <1>1, <1>7, <1>8, <1>9, E!NatSetInduction
<1>11. g[n][i] = f[n][i]
  BY <1>1, <1>7, <1>10
<1> QED
  BY <1>2, <1>4, <1>5, <1>11, ApplyIsFold DEF Run

\* A read by id shows the row that executing both buffers would leave.
LEMMA ReadByIdRuns ==
  ASSUME NEW i \in Ids, disk \in Rows, inFlight \in Seq(Ops), active \in Seq(Ops)
  PROVE  ReadById(i) = Run(Run(disk, inFlight), active)[i]
<1>1. PICK filter : filter = [ids |-> {i}, statuses |-> Statuses]
  OBVIOUS
<1>2. Filtered(filter)[i] = disk[i]
  <2>1. disk[i] \in {NoRow} \cup LiveRow
    BY DEF Rows
  <2>2. disk[i] # NoRow => Passes(filter, i, disk[i])
    BY <1>1, <2>1, LiveRows DEF Passes
  <2> QED
    BY <2>2 DEF Filtered
<1>3. PICK r : r = Run(disk, inFlight)
  OBVIOUS
<1>4. r \in Rows
  BY <1>3, RunIsTyped
<1>5. PICK t : t = Apply(Filtered(filter), inFlight, filter)
  OBVIOUS
<1>6. t[i] = r[i]
  BY <1>1, <1>2, <1>3, <1>5, ApplyById
<1>7. Apply(t, active, filter)[i] = Run(r, active)[i]
  BY <1>1, <1>4, <1>6, ApplyById
<1> QED
  BY <1>1, <1>3, <1>5, <1>7 DEF ReadById

-----------------------------------------------------------------------------
(* Reads by status *)

WithStatus(st) == [ids |-> Ids, statuses |-> {st}]

\* What the index on status st holds of a buffer.
Index(ops, st) == I!SetFold(<<ops, st>>, <<>>, Ids)

\* A buffer is applied after the operations of its index.
Layer(target, ops, st) ==
  Apply(Apply(target, Index(ops, st), WithStatus(st)), ops, WithStatus(st))

LEMMA ReadByStatusLayers ==
  \A st : ReadByStatus(st) = Layer(Layer(Filtered(WithStatus(st)), inFlight, st), active, st)
BY IndexIsFold DEF ReadByStatus, Layer, Index, WithStatus

\* The operations that set status st.
Setting(ops, st) ==
  {op \in Ops : /\ op.type \in {"update", "upsert"} /\ op.status = st
                /\ \E k \in 1 .. Len(ops) : op = ops[k]}

LEMMA IndexedIsTyped ==
  ASSUME NEW ops \in Seq(Ops), NEW st \in Statuses, NEW i
  PROVE  Indexed(ops, i, st) \in Seq(Setting(ops, st))
<1>1. PICK n \in Nat : n = Len(ops)
  OBVIOUS
<1>2. PICK on : on = {k \in 1 .. n : /\ ops[k].type \in {"update", "upsert"}
                                     /\ ops[k].status # NoStatus /\ i \in Range(ops[k].ids)}
  OBVIOUS
<1>3. CASE on = {}
  <2>1. Indexed(ops, i, st) = <<>>
    BY <1>1, <1>2, <1>3 DEF Indexed
  <2> QED
    BY <2>1
<1>4. CASE on # {}
  <2>1. \E k \in on : \A m \in on : m <= k
    <3>1. on \in SUBSET (1 .. n)
      BY <1>2
    <3> QED
      BY <1>4, <3>1, E!LastPosition
  <2>2. PICK last : last = CHOOSE k \in on : \A m \in on : m <= k
    OBVIOUS
  <2>3. last \in on
    BY <2>1, <2>2
  <2>4. Indexed(ops, i, st) = IF ops[last].status = st THEN <<ops[last]>> ELSE <<>>
    BY <1>1, <1>2, <1>4, <2>2 DEF Indexed
  <2>5. ops[last] \in Ops /\ ops[last].type \in {"update", "upsert"} /\ last \in 1 .. Len(ops)
    BY <1>1, <1>2, <2>3
  <2>6. ops[last].status = st => ops[last] \in Setting(ops, st)
    BY <2>5 DEF Setting
  <2> QED
    BY <2>4, <2>6
<1> QED
  BY <1>3, <1>4

LEMMA IndexIsTyped ==
  ASSUME NEW ops \in Seq(Ops), NEW st \in Statuses
  PROVE  Index(ops, st) \in Seq(Setting(ops, st))
<1>1. PICK V : V = Seq(Setting(ops, st))
  OBVIOUS
<1>2. <<>> \in V
  BY <1>1
<1>3. PICK p : p = <<ops, st>>
  OBVIOUS
<1>4. ASSUME NEW v \in V, NEW x \in Ids
      PROVE  Indexed(p[1], x, p[2]) \o v \in V
  <2>1. Indexed(ops, x, st) \in Seq(Setting(ops, st))
    BY IndexedIsTyped
  <2>2. Indexed(ops, x, st) \o v \in V
    BY <1>1, <2>1
  <2> QED
    BY <1>3, <2>2
<1>5. I!IsFiniteSet(Ids)
  BY TableAssumption DEF IsFiniteSet, I!IsFiniteSet
<1>6. I!SetFold(p, <<>>, Ids) \in V
  BY <1>2, <1>4, <1>5, I!SetFoldIsTyped
<1> QED
  BY <1>1, <1>3, <1>6 DEF Index

LEMMA ApplyIsTyped ==
  \A rows \in Rows, op \in Ops : \A filter : ApplySingle(rows, op, filter) \in Rows
<1> SUFFICES ASSUME NEW rows \in Rows, NEW op \in Ops, NEW filter
             PROVE  ApplySingle(rows, op, filter) \in Rows
  OBVIOUS
<1>1. PICK X : X = {NoRow} \cup LiveRow
  OBVIOUS
<1>2. PICK r : r = ApplySingle(rows, op, filter)
  OBVIOUS
<1>3. ASSUME NEW i \in Ids
      PROVE  r[i] \in X
  <2>1. rows[i] \in X /\ RowAfter(rows[i], op) \in X /\ NoRow \in X
    BY <1>1, RowIsTyped DEF Rows
  <2> QED
    BY <1>2, <2>1, ApplyRow
<1>4. r = [i \in Ids |-> r[i]]
  BY <1>2 DEF ApplySingle
<1> QED
  BY <1>1, <1>2, <1>3, <1>4 DEF Rows

\* What a filter on a status lets through.
LEMMA PassesIs ==
  \A st, row : \A i \in Ids : Passes(WithStatus(st), i, row) <=> row # NoRow /\ row.status = st
BY DEF Passes, WithStatus

\* The operations of the index drop no row and bring back only those they upsert.
LEMMA IndexPhase ==
  ASSUME NEW X \in SUBSET Ops, NEW st \in Statuses, NEW i \in Ids, NEW s \in Seq(X),
         \A op \in X : op.type \in {"update", "upsert"} /\ op.status = st,
         NEW target \in Rows, target[i] # NoRow => target[i].status = st
  PROVE  \E rows \in Rows :
           /\ rows = Apply(target, s, WithStatus(st))
           /\ rows[i] # NoRow => rows[i].status = st
           /\ target[i] # NoRow => rows[i] # NoRow
           /\ rows[i] # NoRow => \/ target[i] # NoRow
                                 \/ \E op \in X : op.type = "upsert" /\ i \in Range(op.ids)
<1>1. PICK upserted : upserted <=> \E op \in X : op.type = "upsert" /\ i \in Range(op.ids)
  OBVIOUS
<1>2. PICK V : V = {rows \in Rows :
                      /\ rows[i] # NoRow => rows[i].status = st
                      /\ target[i] # NoRow => rows[i] # NoRow
                      /\ rows[i] # NoRow => target[i] # NoRow \/ upserted}
  OBVIOUS
<1>3. target \in V
  BY <1>2
<1>4. ASSUME NEW v \in V, NEW op \in X
      PROVE  ApplySingle(v, op, WithStatus(st)) \in V
  <2>1. PICK w \in Rows : w = ApplySingle(v, op, WithStatus(st))
    BY <1>2, ApplyIsTyped
  <2>2. CASE i \notin Range(op.ids)
    <3>1. w[i] = v[i]
      BY <2>1, <2>2, ApplyRow
    <3> QED
      BY <1>2, <2>1, <3>1
  <2>3. CASE i \in Range(op.ids)
    <3>1. PICK y : y = v[i]
      OBVIOUS
    <3>2. PICK z : z = RowAfter(y, op)
      OBVIOUS
    <3>3. w[i] = IF z # NoRow /\ z.status = st THEN z ELSE NoRow
      BY <2>1, <2>3, <3>1, <3>2, ApplyRow, PassesIs
    <3>4. y \in {NoRow} \cup LiveRow /\ op \in Ops
      BY <1>2, <3>1 DEF Rows
    <3>5. CASE op.type = "upsert"
      <4>1. z # NoRow /\ z.status = st /\ upserted
        BY <1>1, <2>3, <3>2, <3>4, <3>5, RowCases
      <4> QED
        BY <1>2, <2>1, <3>3, <4>1
    <3>6. CASE op.type = "update"
      <4>1. y = NoRow <=> z = NoRow
        BY <3>2, <3>4, <3>6, RowCases
      <4>2. y # NoRow => z.status = st
        <5>1. op.status = st /\ st # NoStatus
          BY TableAssumption
        <5> QED
          BY <3>2, <3>4, <3>6, <5>1, RowCases
      <4>3. w[i] = NoRow <=> v[i] = NoRow
        BY <3>1, <3>3, <4>1, <4>2
      <4>4. w[i] # NoRow => w[i].status = st
        BY <3>3
      <4> QED
        BY <1>2, <2>1, <4>3, <4>4
    <3> QED
      BY <3>5, <3>6
  <2> QED
    BY <2>2, <2>3
<1>5. A!Fold(WithStatus(st), target, s) \in V
  BY <1>3, <1>4, A!FoldIsTyped
<1>6. Apply(target, s, WithStatus(st)) \in V
  BY <1>5, ApplyIsFold
<1> QED
  BY <1>1, <1>2, <1>6

\* An insert or upsert from the n-th operation on writes row i.
UpsertLater(ops, i, n) ==
  \E m \in n .. Len(ops) : i \in Range(ops[m].ids) /\ ops[m].type \in {"insert", "upsert"}

LEMMA LaterStep ==
  ASSUME NEW ops \in Seq(Ops), NEW i, NEW n \in Nat
  PROVE  /\ /\ UpsertLater(ops, i, n)
            /\ ~(i \in Range(ops[n].ids) /\ ops[n].type \in {"insert", "upsert"})
            => UpsertLater(ops, i, n + 1)
         /\ /\ StatusLater(ops, i, n)
            /\ ~(/\ i \in Range(ops[n].ids) /\ ops[n].type = "update"
                 /\ ops[n].status # NoStatus)
            => StatusLater(ops, i, n + 1)
<1>1. ASSUME NEW m \in n .. Len(ops), m # n
      PROVE  m \in n + 1 .. Len(ops)
  BY <1>1
<1>2. ASSUME UpsertLater(ops, i, n),
             ~(i \in Range(ops[n].ids) /\ ops[n].type \in {"insert", "upsert"})
      PROVE  UpsertLater(ops, i, n + 1)
  BY <1>1, <1>2 DEF UpsertLater
<1>3. ASSUME StatusLater(ops, i, n),
             ~(/\ i \in Range(ops[n].ids) /\ ops[n].type = "update"
               /\ ops[n].status # NoStatus)
      PROVE  StatusLater(ops, i, n + 1)
  BY <1>1, <1>3 DEF StatusLater
<1> QED
  BY <1>2, <1>3

\* While a buffer is applied to row i: if a query on status st shows it as y, then it has
\* that status after the operations so far, as x, or is to be written again; of an update
\* that took over later values, the later ones are still to come.
Sound(ops, i, n, st, x, y) ==
  y # NoRow => /\ y.status = st
               /\ \/ UpsertLater(ops, i, n)
                  \/ x # NoRow /\ (x.status = st \/ StatusLater(ops, i, n))

LEMMA SoundStep ==
  ASSUME NEW ops \in Seq(Ops), NEW mut, Like(ops, mut), NEW i \in Ids, NEW st \in Statuses,
         NEW n \in Nat, n \in 1 .. Len(ops), i \in Range(ops[n].ids),
         NEW x \in {NoRow} \cup LiveRow, NEW y \in {NoRow} \cup LiveRow,
         NEW z, z = RowAfter(y, mut[n]),
         Sound(ops, i, n, st, x, y)
  PROVE  Sound(ops, i, n + 1, st, RowAfter(x, ops[n]),
               IF z # NoRow /\ z.status = st THEN z ELSE NoRow)
<1>1. PICK a, b \in Ops : a = ops[n] /\ b = mut[n]
  BY DEF Like
<1>2. /\ Same(b, a) /\ a.type \in {"insert", "upsert", "update", "delete"}
  BY <1>1 DEF Like, Ops, Op
<1>3. a.type # "update" => b = a
  BY <1>1 DEF Like
<1>4. PICK w : w = RowAfter(x, a)
  OBVIOUS
<1> SUFFICES ASSUME z # NoRow, z.status = st
             PROVE  \/ UpsertLater(ops, i, n + 1)
                    \/ w # NoRow /\ (w.status = st \/ StatusLater(ops, i, n + 1))
  BY <1>1, <1>4 DEF Sound
<1>5. CASE a.type \in {"insert", "upsert"}
  <2>1. z.status = a.status /\ w # NoRow /\ w.status = a.status
    BY <1>1, <1>3, <1>4, <1>5, RowCases
  <2> QED
    BY <2>1
<1>6. CASE a.type = "delete"
  <2>1. z = NoRow
    BY <1>1, <1>3, <1>6, RowCases
  <2> QED
    BY <2>1
<1>7. CASE a.type = "update"
  <2>1. /\ y = NoRow <=> z = NoRow
        /\ x = NoRow <=> w = NoRow
        /\ y # NoRow => z.status = IF b.status = NoStatus THEN y.status ELSE b.status
        /\ x # NoRow => w.status = IF a.status = NoStatus THEN x.status ELSE a.status
    BY <1>1, <1>2, <1>4, <1>7, RowCases DEF Same
  <2>2. CASE UpsertLater(ops, i, n)
    BY <1>1, <1>7, <2>2, LaterStep
  <2>3. CASE x # NoRow /\ (x.status = st \/ StatusLater(ops, i, n))
    <3>1. w # NoRow
      BY <2>1, <2>3
    <3>2. CASE a.status # b.status
      <4>1. PICK m \in n + 1 .. Len(ops) : Same(ops[m], a) /\ ops[m].status # NoStatus
        BY <1>1, <3>2 DEF Like
      <4>2. StatusLater(ops, i, n + 1)
        BY <1>1, <1>7, <4>1 DEF StatusLater, Same
      <4> QED
        BY <3>1, <4>2
    <3>3. CASE a.status = b.status /\ a.status # NoStatus
      BY <2>1, <2>3, <3>1, <3>3
    <3>4. CASE a.status = NoStatus
      <4>1. CASE x.status = st
        BY <2>1, <2>3, <3>1, <3>4, <4>1
      <4>2. CASE StatusLater(ops, i, n)
        BY <1>1, <3>1, <3>4, <4>2, LaterStep
      <4> QED
        BY <2>3, <4>1, <4>2
    <3> QED
      BY <3>2, <3>3, <3>4
  <2> QED
    BY <2>1, <2>2, <2>3 DEF Sound
<1> QED
  BY <1>2, <1>5, <1>6, <1>7

LEMMA OpsPhaseSound ==
  ASSUME NEW ops \in Seq(Ops), NEW mut, Like(ops, mut), NEW i \in Ids, NEW st \in Statuses,
         NEW rows \in Rows, NEW target \in Rows, Sound(ops, i, 1, st, rows[i], target[i])
  PROVE  \E t \in Rows : /\ t = Apply(target, mut, WithStatus(st))
                         /\ t[i] # NoRow => t[i].status = st /\ Run(rows, ops)[i].status = st
<1>1. PICK n \in Nat : n = Len(ops)
  OBVIOUS
<1>2. PICK filter : filter = WithStatus(st)
  OBVIOUS
<1>3. /\ DOMAIN ops = 1 .. n /\ DOMAIN mut = 1 .. n
      /\ \A k \in 1 .. n : ops[k] \in Ops /\ mut[k] \in Ops /\ mut[k].ids = ops[k].ids
  BY <1>1 DEF Like, Same
<1>4. PICK f : E!Steps({}, f, rows, ops, n) /\ E!Fold({}, rows, ops) = f[n]
  BY <1>3, E!FoldRuns
<1>5. PICK g : A!Steps(filter, g, target, mut, n) /\ A!Fold(filter, target, mut) = g[n]
  BY <1>3, A!FoldRuns
<1>6. /\ f[0] = rows /\ \A k \in 0 .. n - 1 : f[k + 1] = Execute(f[k], ops[k + 1])
      /\ g[0] = target /\ \A k \in 0 .. n - 1 : g[k + 1] = ApplySingle(g[k], mut[k + 1], filter)
  BY <1>4, <1>5 DEF E!Steps, A!Steps
<1>7. PICK T : T = {k \in Nat : k <= n => /\ f[k] \in Rows /\ g[k] \in Rows
                                          /\ Sound(ops, i, k + 1, st, f[k][i], g[k][i])}
  OBVIOUS
<1>8. 0 \in T
  <2>1. 0 + 1 = 1
    OBVIOUS
  <2> QED
    BY <1>6, <1>7, <2>1
<1>9. ASSUME NEW k \in T
      PROVE  k + 1 \in T
  <2>1. k \in Nat /\ k + 1 \in Nat
    BY <1>7
  <2>2. CASE k + 1 <= n
    <3>1. k \in 0 .. n - 1 /\ k + 1 \in 1 .. n /\ k <= n
      BY <2>1, <2>2
    <3>2. PICK x, y, a, b : x = f[k] /\ y = g[k] /\ a = ops[k + 1] /\ b = mut[k + 1]
      OBVIOUS
    <3>3. /\ x \in Rows /\ y \in Rows /\ a \in Ops /\ b \in Ops /\ b.ids = a.ids
          /\ Sound(ops, i, k + 1, st, x[i], y[i])
      BY <1>3, <1>7, <3>1, <3>2
    <3>4. PICK u, v : u = Execute(x, a) /\ v = ApplySingle(y, b, filter)
      OBVIOUS
    <3>5. u \in Rows /\ v \in Rows /\ f[k + 1] = u /\ g[k + 1] = v
      BY <1>6, <3>1, <3>2, <3>3, <3>4, ExecuteIsTyped, ApplyIsTyped
    <3>6. Sound(ops, i, k + 2, st, u[i], v[i])
      <4>1. CASE i \notin Range(a.ids)
        <5>1. u[i] = x[i] /\ v[i] = y[i]
          BY <3>3, <3>4, <4>1, ExecuteRow, ApplyRow
        <5>2. (k + 1) + 1 = k + 2
          BY <2>1
        <5>3. /\ UpsertLater(ops, i, k + 1) => UpsertLater(ops, i, k + 2)
              /\ StatusLater(ops, i, k + 1) => StatusLater(ops, i, k + 2)
          BY <2>1, <3>2, <4>1, <5>2, LaterStep
        <5> QED
          BY <3>3, <5>1, <5>3 DEF Sound
      <4>2. CASE i \in Range(a.ids)
        <5>1. PICK xi \in {NoRow} \cup LiveRow, yi \in {NoRow} \cup LiveRow :
                xi = x[i] /\ yi = y[i]
          BY <3>3 DEF Rows
        <5>2. PICK z : z = RowAfter(yi, b)
          OBVIOUS
        <5>3. /\ u[i] = RowAfter(xi, a)
              /\ v[i] = IF z # NoRow /\ z.status = st THEN z ELSE NoRow
          BY <1>2, <3>3, <3>4, <4>2, <5>1, <5>2, ExecuteRow, ApplyRow, PassesIs
        <5>4. k + 1 \in 1 .. Len(ops) /\ i \in Range(ops[k + 1].ids) /\ z = RowAfter(yi, mut[k + 1])
              /\ Sound(ops, i, k + 1, st, xi, yi)
          BY <1>1, <3>1, <3>2, <3>3, <4>2, <5>1, <5>2
        <5>5. Sound(ops, i, (k + 1) + 1, st, RowAfter(xi, ops[k + 1]),
                    IF z # NoRow /\ z.status = st THEN z ELSE NoRow)
          BY <2>1, <5>4, SoundStep
        <5>6. (k + 1) + 1 = k + 2
          BY <2>1
        <5> QED
          BY <3>2, <5>3, <5>5, <5>6
      <4> QED
        BY <4>1, <4>2
    <3>7. (k + 1) + 1 = k + 2
      BY <2>1
    <3> QED
      BY <1>7, <2>1, <3>5, <3>6, <3>7
  <2> QED
    BY <1>7, <2>1, <2>2
<1>10. n \in T
  BY <1>1, <1>7, <1>8, <1>9, A!NatSetInduction
<1>11. g[n] \in Rows /\ (g[n][i] # NoRow => g[n][i].status = st /\ f[n][i].status = st)
  <2>1. n + 1 .. n = {}
    BY <1>1
  <2>2. ~UpsertLater(ops, i, n + 1) /\ ~StatusLater(ops, i, n + 1)
    BY <1>1, <2>1 DEF UpsertLater, StatusLater
  <2>3. g[n] \in Rows /\ Sound(ops, i, n + 1, st, f[n][i], g[n][i])
    BY <1>1, <1>7, <1>10
  <2> QED
    BY <2>2, <2>3 DEF Sound
<1>12. Apply(target, mut, WithStatus(st)) = g[n] /\ Run(rows, ops) = f[n]
  BY <1>2, <1>4, <1>5, ApplyIsFold DEF Run
<1> QED
  BY <1>11, <1>12

\* A layer shows a row with status st only if it has that status after the buffer.
LEMMA LayerSound ==
  ASSUME NEW ops \in Seq(Ops), NEW mut, Like(ops, mut), NEW i \in Ids, NEW st \in Statuses,
         NEW rows \in Rows, NEW target \in Rows,
         target[i] # NoRow => target[i].status = st /\ rows[i].status = st
  PROVE  \E t \in Rows : /\ t = Layer(target, mut, st)
                         /\ t[i] # NoRow => t[i].status = st /\ Run(rows, ops)[i].status = st
<1>1. PICK idx : idx = Index(mut, st)
  OBVIOUS
<1>2. idx \in Seq(Setting(mut, st)) /\ Setting(mut, st) \in SUBSET Ops
      /\ \A op \in Setting(mut, st) : op.type \in {"update", "upsert"} /\ op.status = st
  BY <1>1, IndexIsTyped DEF Setting, Like
<1>3. PICK r \in Rows :
        /\ r = Apply(target, idx, WithStatus(st))
        /\ r[i] # NoRow => r[i].status = st
        /\ r[i] # NoRow =>
             \/ target[i] # NoRow
             \/ \E op \in Setting(mut, st) : op.type = "upsert" /\ i \in Range(op.ids)
  BY <1>2, IndexPhase
<1>4. Sound(ops, i, 1, st, rows[i], r[i])
  <2>1. CASE r[i] # NoRow /\ target[i] # NoRow
    <3>1. rows[i] \in {NoRow} \cup LiveRow /\ rows[i].status \in Statuses
      BY <2>1 DEF Rows
    <3>2. rows[i] # NoRow
      BY <3>1, LiveRows
    <3> QED
      BY <1>3, <2>1, <3>2 DEF Sound
  <2>2. CASE r[i] # NoRow /\ target[i] = NoRow
    <3>1. PICK op \in Setting(mut, st) : op.type = "upsert" /\ i \in Range(op.ids)
      BY <1>3, <2>2
    <3>2. PICK k \in 1 .. Len(ops) : op = mut[k]
      BY <3>1 DEF Setting, Like
    <3>3. UpsertLater(ops, i, 1)
      BY <3>1, <3>2 DEF UpsertLater, Like, Same
    <3> QED
      BY <1>3, <3>3 DEF Sound
  <2>3. CASE r[i] = NoRow
    BY <2>3 DEF Sound
  <2> QED
    BY <2>1, <2>2, <2>3
<1> QED
  BY <1>1, <1>3, <1>4, OpsPhaseSound DEF Layer

LEMMA FilteredIsTyped ==
  ASSUME disk \in Rows, NEW st
  PROVE  \E t \in Rows :
           /\ t = Filtered(WithStatus(st))
           /\ \A i \in Ids : t[i] = IF disk[i].status = st /\ disk[i] # NoRow THEN disk[i] ELSE NoRow
<1>1. PICK t : t = Filtered(WithStatus(st))
  OBVIOUS
<1>2. t = [i \in Ids |-> IF disk[i].status = st /\ disk[i] # NoRow THEN disk[i] ELSE NoRow]
  BY <1>1 DEF Filtered, Passes, WithStatus
<1>3. t \in Rows
  BY <1>2 DEF Rows
<1> QED
  BY <1>1, <1>2, <1>3

\* A read by status shows a row only if it has that status once both buffers, as they were
\* pushed, are executed.
LEMMA ReadByStatusSound ==
  ASSUME disk \in Rows, active \in Seq(Ops), NEW orig \in Seq(Ops), Like(orig, inFlight),
         NEW st \in Statuses, NEW i \in Ids, ReadByStatus(st)[i] # NoRow
  PROVE  Run(Run(disk, orig), active)[i].status = st
<1>1. PICK t \in Rows : /\ t = Filtered(WithStatus(st))
                        /\ t[i] # NoRow => t[i].status = st /\ disk[i].status = st
  BY FilteredIsTyped
<1>2. PICK u \in Rows : /\ u = Layer(t, inFlight, st)
                        /\ u[i] # NoRow => u[i].status = st /\ Run(disk, orig)[i].status = st
  BY <1>1, LayerSound
<1>3. PICK r \in Rows : r = Run(disk, orig)
  BY RunIsTyped
<1>4. PICK v \in Rows : /\ v = Layer(u, active, st)
                        /\ v[i] # NoRow => v[i].status = st /\ Run(r, active)[i].status = st
  BY <1>2, <1>3, LikeItself, LayerSound
<1> QED
  BY <1>1, <1>2, <1>3, <1>4, ReadByStatusLayers

\* While a buffer is applied to row i: a query on status st shows it if it has had the
\* statuses u so far and u = {st}, and only if that, or if it is to be written again.
Shows(ops, i, n, st, u, y) ==
  /\ y # NoRow => y.status = st /\ (u = {st} \/ UpsertLater(ops, i, n))
  /\ u = {st} => y # NoRow

LEMMA ShowsStep ==
  ASSUME NEW ops \in Seq(Ops), NEW i \in Ids, NEW st \in Statuses,
         NEW n \in Nat, n \in 1 .. Len(ops), i \in Range(ops[n].ids),
         NEW u, NEW y \in {NoRow} \cup LiveRow, NEW z, z = RowAfter(y, ops[n]),
         Shows(ops, i, n, st, u, y)
  PROVE  Shows(ops, i, n + 1, st, Since(i, u, ops[n]),
               IF z # NoRow /\ z.status = st THEN z ELSE NoRow)
<1>1. PICK a \in Ops : a = ops[n]
  OBVIOUS
<1>2. a.type \in {"insert", "upsert", "update", "delete"}
  BY DEF Ops, Op
<1>3. PICK w : w = Since(i, u, a)
  OBVIOUS
<1> SUFFICES /\ z # NoRow /\ z.status = st => w = {st} \/ UpsertLater(ops, i, n + 1)
             /\ w = {st} => z # NoRow /\ z.status = st
  BY <1>1, <1>3 DEF Shows
<1>4. CASE a.type \in {"insert", "upsert"}
  <2>1. z # NoRow /\ z.status = a.status /\ w = {a.status}
    BY <1>1, <1>3, <1>4, RowCases DEF Since
  <2> QED
    BY <2>1
<1>5. CASE a.type = "delete"
  <2>1. z = NoRow /\ w = {}
    BY <1>1, <1>3, <1>5, RowCases DEF Since
  <2> QED
    BY <2>1
<1>6. CASE a.type = "update"
  <2>1. /\ y = NoRow <=> z = NoRow
        /\ y # NoRow => z.status = IF a.status = NoStatus THEN y.status ELSE a.status
    BY <1>1, <1>6, RowCases
  <2>2. w = IF u = {} \/ a.status = NoStatus THEN u ELSE u \cup {a.status}
    BY <1>1, <1>3, <1>6 DEF Since
  <2>3. UpsertLater(ops, i, n) => UpsertLater(ops, i, n + 1)
    BY <1>1, <1>6, LaterStep
  <2>4. ASSUME z # NoRow, z.status = st
        PROVE  w = {st} \/ UpsertLater(ops, i, n + 1)
    <3>1. CASE UpsertLater(ops, i, n)
      BY <2>3, <3>1
    <3>2. CASE u = {st}
      <4>1. a.status = NoStatus \/ a.status = st
        BY <2>1, <2>4
      <4> QED
        BY <2>2, <3>2, <4>1
    <3> QED
      BY <2>1, <2>4, <3>1, <3>2 DEF Shows
  <2>5. ASSUME w = {st}
        PROVE  z # NoRow /\ z.status = st
    <3>1. u = {st} /\ (a.status = NoStatus \/ a.status = st)
      BY <2>2, <2>5
    <3> QED
      BY <2>1, <3>1 DEF Shows
  <2> QED
    BY <2>4, <2>5
<1> QED
  BY <1>2, <1>4, <1>5, <1>6

LEMMA OpsPhaseShows ==
  ASSUME NEW ops \in Seq(Ops), NEW i \in Ids, NEW st \in Statuses,
         NEW u, NEW target \in Rows, Shows(ops, i, 1, st, u, target[i])
  PROVE  Apply(target, ops, WithStatus(st))[i] # NoRow <=> S!Fold(i, u, ops) = {st}
<1>1. PICK n \in Nat : n = Len(ops)
  OBVIOUS
<1>2. PICK filter : filter = WithStatus(st)
  OBVIOUS
<1>3. DOMAIN ops = 1 .. n /\ \A k \in 1 .. n : ops[k] \in Ops
  BY <1>1
<1>4. PICK f : S!Steps(i, f, u, ops, n) /\ S!Fold(i, u, ops) = f[n]
  BY <1>3, S!FoldRuns
<1>5. PICK g : A!Steps(filter, g, target, ops, n) /\ A!Fold(filter, target, ops) = g[n]
  BY <1>3, A!FoldRuns
<1>6. /\ f[0] = u /\ \A k \in 0 .. n - 1 : f[k + 1] = Since(i, f[k], ops[k + 1])
      /\ g[0] = target /\ \A k \in 0 .. n - 1 : g[k + 1] = ApplySingle(g[k], ops[k + 1], filter)
  BY <1>4, <1>5 DEF S!Steps, A!Steps
<1>7. PICK T : T = {k \in Nat : k <= n => /\ g[k] \in Rows
                                          /\ Shows(ops, i, k + 1, st, f[k], g[k][i])}
  OBVIOUS
<1>8. 0 \in T
  <2>1. 0 + 1 = 1
    OBVIOUS
  <2> QED
    BY <1>6, <1>7, <2>1
<1>9. ASSUME NEW k \in T
      PROVE  k + 1 \in T
  <2>1. k \in Nat /\ k + 1 \in Nat
    BY <1>7
  <2>2. CASE k + 1 <= n
    <3>1. k \in 0 .. n - 1 /\ k + 1 \in 1 .. n /\ k <= n
      BY <2>1, <2>2
    <3>2. PICK x, y, a : x = f[k] /\ y = g[k] /\ a = ops[k + 1]
      OBVIOUS
    <3>3. y \in Rows /\ a \in Ops /\ Shows(ops, i, k + 1, st, x, y[i])
      BY <1>3, <1>7, <3>1, <3>2
    <3>4. PICK v : v = ApplySingle(y, a, filter)
      OBVIOUS
    <3>5. v \in Rows /\ f[k + 1] = Since(i, x, a) /\ g[k + 1] = v
      BY <1>6, <3>1, <3>2, <3>3, <3>4, ApplyIsTyped
    <3>6. Shows(ops, i, (k + 1) + 1, st, Since(i, x, a), v[i])
      <4>1. CASE i \notin Range(a.ids)
        <5>1. Since(i, x, a) = x /\ v[i] = y[i]
          BY <3>3, <3>4, <4>1, ApplyRow DEF Since
        <5>2. UpsertLater(ops, i, k + 1) => UpsertLater(ops, i, (k + 1) + 1)
          BY <2>1, <3>2, <4>1, LaterStep
        <5> QED
          BY <3>3, <5>1, <5>2 DEF Shows
      <4>2. CASE i \in Range(a.ids)
        <5>1. PICK yi \in {NoRow} \cup LiveRow : yi = y[i]
          BY <3>3 DEF Rows
        <5>2. PICK z : z = RowAfter(yi, a)
          OBVIOUS
        <5>3. v[i] = IF z # NoRow /\ z.status = st THEN z ELSE NoRow
          BY <1>2, <3>4, <4>2, <5>1, <5>2, ApplyRow, PassesIs
        <5>4. k + 1 \in 1 .. Len(ops) /\ i \in Range(ops[k + 1].ids) /\ z = RowAfter(yi, ops[k + 1])
              /\ Shows(ops, i, k + 1, st, x, yi)
          BY <1>1, <3>1, <3>2, <3>3, <4>2, <5>1, <5>2
        <5>5. Shows(ops, i, (k + 1) + 1, st, Since(i, x, ops[k + 1]),
                    IF z # NoRow /\ z.status = st THEN z ELSE NoRow)
          BY <2>1, <5>4, ShowsStep
        <5> QED
          BY <3>2, <5>3, <5>5
      <4> QED
        BY <4>1, <4>2
    <3> QED
      BY <1>7, <2>1, <3>5, <3>6
  <2> QED
    BY <1>7, <2>1, <2>2
<1>10. n \in T
  BY <1>1, <1>7, <1>8, <1>9, A!NatSetInduction
<1>11. g[n][i] # NoRow <=> f[n] = {st}
  <2>1. n + 1 .. n = {}
    BY <1>1
  <2>2. ~UpsertLater(ops, i, n + 1)
    BY <1>1, <2>1 DEF UpsertLater
  <2>3. Shows(ops, i, n + 1, st, f[n], g[n][i])
    BY <1>1, <1>7, <1>10
  <2> QED
    BY <2>2, <2>3 DEF Shows
<1> QED
  BY <1>2, <1>4, <1>5, <1>11, ApplyIsFold

LEMMA LayerOfNone ==
  ASSUME NEW target \in Rows, NEW st \in Statuses
  PROVE  Layer(target, <<>>, st) = target
<1>1. Index(<<>>, st) = <<>>
  <2>1. <<>> \in Seq(Ops) /\ Setting(<<>>, st) = {}
    BY DEF Setting
  <2>2. Index(<<>>, st) \in Seq({})
    BY <2>1, IndexIsTyped
  <2> QED
    BY <2>2
<1>2. \A filter, rows : Apply(rows, <<>>, filter) = rows
  BY A!FoldOfNone, ApplyIsFold
<1> QED
  BY <1>1, <1>2 DEF Layer

\* Between flushes, a read by status shows a row exactly if it has had no other status
\* since it was on disk or upserted.
LEMMA ReadByStatusShows ==
  ASSUME disk \in Rows, active \in Seq(Ops), inFlight = <<>>, NEW st \in Statuses, NEW i \in Ids
  PROVE  ReadByStatus(st)[i] # NoRow <=> StatusesSince(i) = {st}
<1>1. PICK t \in Rows :
        /\ t = Filtered(WithStatus(st))
        /\ t[i] = IF disk[i].status = st /\ disk[i] # NoRow THEN disk[i] ELSE NoRow
  BY FilteredIsTyped
<1>2. ReadByStatus(st) = Layer(t, active, st)
  BY <1>1, LayerOfNone, ReadByStatusLayers
<1>3. PICK u : u = IF disk[i] = NoRow THEN {} ELSE {disk[i].status}
  OBVIOUS
<1>4. PICK idx : idx = Index(active, st)
  OBVIOUS
<1>5. idx \in Seq(Setting(active, st)) /\ Setting(active, st) \in SUBSET Ops
      /\ \A op \in Setting(active, st) : op.type \in {"update", "upsert"} /\ op.status = st
  BY <1>4, IndexIsTyped DEF Setting
<1>6. t[i] # NoRow => t[i].status = st
  BY <1>1
<1>7. PICK r \in Rows :
        /\ r = Apply(t, idx, WithStatus(st))
        /\ r[i] # NoRow => r[i].status = st
        /\ t[i] # NoRow => r[i] # NoRow
        /\ r[i] # NoRow =>
             \/ t[i] # NoRow
             \/ \E op \in Setting(active, st) : op.type = "upsert" /\ i \in Range(op.ids)
  BY <1>5, <1>6, IndexPhase
<1>8. t[i] # NoRow <=> u = {st}
  BY <1>1, <1>3
<1>9. Shows(active, i, 1, st, u, r[i])
  <2>1. ASSUME NEW op \in Setting(active, st), op.type = "upsert", i \in Range(op.ids)
        PROVE  UpsertLater(active, i, 1)
    <3>1. PICK k \in 1 .. Len(active) : op = active[k]
      BY DEF Setting
    <3> QED
      BY <2>1, <3>1 DEF UpsertLater
  <2> QED
    BY <1>7, <1>8, <2>1 DEF Shows
<1>10. Layer(t, active, st) = Apply(r, active, WithStatus(st))
  BY <1>4, <1>7 DEF Layer
<1>11. Apply(r, active, WithStatus(st))[i] # NoRow <=> S!Fold(i, u, active) = {st}
  BY <1>9, OpsPhaseShows
<1>12. StatusesSince(i) = S!Fold(i, u, active)
  BY <1>3, SinceIsFold
<1> QED
  BY <1>2, <1>10, <1>11, <1>12

-----------------------------------------------------------------------------
(* The inductive invariant *)

\* The transaction has yet to do what it is to do with "rest" of the operations "orig".
Transaction ==
  \E orig \in Seq(Ops) :
    /\ Len(inFlight) = Len(orig) /\ Like(orig, inFlight)
    /\ trx.moved <=> Reorders(orig)
    /\ Run(trx.rows, trx.ops) = Run(disk, Coalesce(orig))
    /\ ~reordered => truth = Run(Run(disk, orig), active)

TableInv ==
  /\ disk \in Rows /\ truth \in Rows
  /\ active \in Seq(Ops) /\ inFlight \in Seq(Ops)
  /\ trx \in [ops : Seq(Ops), rows : Rows, moved : BOOLEAN]
  /\ stage \in {"none", "transaction", "committed"} /\ pushes \in Nat
  /\ Len(trx.ops) <= Len(inFlight) /\ Len(inFlight) + Len(active) <= pushes
  /\ stage = "none" => inFlight = <<>>
  /\ stage = "transaction" => Transaction
  /\ stage # "transaction" => trx.ops = <<>> /\ (~reordered => truth = Run(disk, active))

LEMMA OperationsAreTyped == Operations \subseteq Ops
<1>1. ASSUME NEW i \in Ids, NEW st \in Statuses
      PROVE  Insert(i, st) \in Ops /\ Upsert(i, st) \in Ops
  <2>1. <<i>> \in Seq(Ids)
    OBVIOUS
  <2> QED
    BY <2>1 DEF Insert, Upsert, Ops, Op
<1>2. ASSUME NEW i \in Ids
      PROVE  Delete(i) \in Ops
  <2>1. <<i>> \in Seq(Ids)
    OBVIOUS
  <2> QED
    BY <2>1 DEF Delete, Ops, Op
<1>3. ASSUME NEW s \in Lists, NEW c \in Changes
      PROVE  Update(s, c.status, c.how, c.val) \in Ops
  <2>1. s \in Seq(Ids)
    BY TableAssumption
  <2>2. c.status \in Statuses \cup {NoStatus} /\ c.how \in {"adds", "sets"} /\ c.val \in Nat
    BY DEF Changes
  <2> QED
    BY <2>1, <2>2 DEF Update, Ops, Op
<1> QED
  BY <1>1, <1>2, <1>3 DEF Operations

LEMMA TableInit == Init => TableInv
<1> SUFFICES ASSUME Init
             PROVE  TableInv
  OBVIOUS
<1>1. disk \in Rows
  <2>1. \A st \in Statuses : [status |-> st, count |-> 0] \in LiveRow
    BY DEF LiveRow
  <2> QED
    BY <2>1 DEF Init, Rows
<1>2. <<>> \in Seq(Ops) /\ Len(<<>>) = 0
  OBVIOUS
<1>3. truth = Run(disk, active)
  BY RunOfNone DEF Init
<1> QED
  BY <1>1, <1>2, <1>3 DEF Init, TableInv

LEMMA PushKeeps == TableInv /\ (\E op \in Operations : Push(op)) => TableInv'
<1> SUFFICES ASSUME TableInv, NEW op \in Operations, Push(op)
             PROVE  TableInv'
  OBVIOUS
<1>1. op \in Ops
  BY OperationsAreTyped
<1>2. /\ disk \in Rows /\ active \in Seq(Ops) /\ inFlight \in Seq(Ops) /\ pushes \in Nat
      /\ active' = Append(active, op) /\ truth' = Execute(truth, op) /\ pushes' = pushes + 1
      /\ UNCHANGED <<disk, inFlight, trx, stage, reordered>>
  BY DEF TableInv, Push
<1>3. active' \in Seq(Ops) /\ Len(active') = Len(active) + 1
  BY <1>1, <1>2
<1>4. truth' \in Rows
  BY <1>1, <1>2, ExecuteIsTyped DEF TableInv
<1>5. pushes' \in Nat /\ Len(inFlight) + Len(active') <= pushes'
  <2>1. Len(inFlight) \in Nat /\ Len(active) \in Nat /\ Len(inFlight) + Len(active) <= pushes
    BY <1>2 DEF TableInv
  <2> QED
    BY <1>2, <1>3, <2>1
<1>6. \A rows : Run(rows, active') = Execute(Run(rows, active), op)
  BY <1>1, <1>2, RunOfAppend
<1>7. ASSUME stage = "transaction"
      PROVE  Transaction'
  <2>1. PICK orig \in Seq(Ops) :
          /\ Len(inFlight) = Len(orig) /\ Like(orig, inFlight)
          /\ trx.moved <=> Reorders(orig)
          /\ Run(trx.rows, trx.ops) = Run(disk, Coalesce(orig))
          /\ ~reordered => truth = Run(Run(disk, orig), active)
    BY <1>7 DEF TableInv, Transaction
  <2>2. ~reordered => truth' = Run(Run(disk, orig), active')
    BY <1>2, <1>6, <2>1
  <2> QED
    BY <1>2, <2>1, <2>2 DEF Transaction
<1>8. stage # "transaction" => (~reordered => truth' = Run(disk, active'))
  BY <1>2, <1>6 DEF TableInv
<1> QED
  BY <1>2, <1>3, <1>4, <1>5, <1>7, <1>8 DEF TableInv

LEMMA SwapKeeps == TableInv /\ Swap => TableInv'
<1> SUFFICES ASSUME TableInv, Swap
             PROVE  TableInv'
  OBVIOUS
<1>1. /\ disk \in Rows /\ active \in Seq(Ops) /\ inFlight = <<>> /\ stage' = "transaction"
      /\ trx' = [ops |-> Coalesce(active), rows |-> disk, moved |-> Reorders(active)]
      /\ inFlight' = Mutated(active) /\ active' = <<>>
      /\ UNCHANGED <<disk, truth, reordered, pushes>>
      /\ ~reordered => truth = Run(disk, active)
  BY DEF TableInv, Swap
<1>2. Groups(active, Coalesce(active)) /\ Like(active, Mutated(active))
  BY <1>1, CoalesceGroups, MutatedIsLike
<1>3. trx'.ops \in Seq(Ops) /\ Len(trx'.ops) <= Len(active)
  BY <1>1, <1>2 DEF Groups
<1>4. inFlight' \in Seq(Ops) /\ Len(inFlight') = Len(active) /\ Like(active, inFlight')
  BY <1>1, <1>2 DEF Like
<1>5. active' \in Seq(Ops) /\ Len(inFlight') + Len(active') <= pushes'
  <2>1. Len(inFlight) + Len(active) <= pushes /\ Len(inFlight) = 0 /\ Len(active') = 0
        /\ Len(active) \in Nat
    BY <1>1 DEF TableInv
  <2> QED
    BY <1>1, <1>4, <2>1
<1>6. Transaction'
  <2>1. ~reordered' => truth' = Run(Run(disk', active), active')
    BY <1>1, RunOfNone
  <2>2. trx'.moved = Reorders(active)
        /\ Run(trx'.rows, trx'.ops) = Run(disk', Coalesce(active))
    BY <1>1
  <2> QED
    BY <1>1, <1>4, <2>1, <2>2 DEF Transaction
<1>7. trx' \in [ops : Seq(Ops), rows : Rows, moved : BOOLEAN]
  <2>1. Reorders(active) \in BOOLEAN
    BY DEF Reorders
  <2> QED
    BY <1>1, <1>2, <2>1 DEF Groups
<1>8. Len(trx'.ops) <= Len(inFlight')
  BY <1>3, <1>4
<1> QED
  BY <1>1, <1>4, <1>5, <1>6, <1>7, <1>8 DEF TableInv

LEMMA ExecuteNextKeeps == TableInv /\ ExecuteNext => TableInv'
<1> SUFFICES ASSUME TableInv, ExecuteNext
             PROVE  TableInv'
  OBVIOUS
<1>1. /\ stage = "transaction" /\ trx.ops \in Seq(Ops) /\ trx.ops # <<>> /\ trx.rows \in Rows
      /\ trx.moved \in BOOLEAN
      /\ UNCHANGED <<disk, active, inFlight, stage, truth, reordered, pushes>>
  BY DEF TableInv, ExecuteNext
<1>2. PICK orig \in Seq(Ops) :
        /\ Len(inFlight) = Len(orig) /\ Like(orig, inFlight)
        /\ trx.moved <=> Reorders(orig)
        /\ Run(trx.rows, trx.ops) = Run(disk, Coalesce(orig))
        /\ ~reordered => truth = Run(Run(disk, orig), active)
  BY <1>1 DEF TableInv, Transaction
<1>3. PICK head, tail : head = Head(trx.ops) /\ tail = Tail(trx.ops)
  OBVIOUS
<1>4. head \in Ops /\ tail \in Seq(Ops) /\ Len(tail) <= Len(trx.ops)
  BY <1>1, <1>3, HeadTailProperties
<1>5. PICK rows \in Rows : rows = Execute(trx.rows, head)
  BY <1>1, <1>4, ExecuteIsTyped
<1>6. trx' = [trx EXCEPT !.ops = tail, !.rows = rows]
  BY <1>3, <1>5 DEF ExecuteNext
<1>7. /\ trx' \in [ops : Seq(Ops), rows : Rows, moved : BOOLEAN]
      /\ trx'.ops = tail /\ trx'.rows = rows /\ trx'.moved = trx.moved
  BY <1>4, <1>6 DEF TableInv
<1>8. Run(rows, tail) = Run(disk, Coalesce(orig))
  BY <1>1, <1>2, <1>3, <1>5, RunOfTail
<1>9. Transaction'
  BY <1>1, <1>2, <1>7, <1>8 DEF Transaction
<1>10. Len(trx'.ops) <= Len(inFlight')
  <2>1. Len(trx.ops) <= Len(inFlight) /\ Len(tail) \in Nat /\ Len(trx.ops) \in Nat
        /\ Len(inFlight) \in Nat
    BY <1>1, <1>4 DEF TableInv
  <2> QED
    BY <1>1, <1>4, <1>7, <2>1
<1> QED
  BY <1>1, <1>7, <1>9, <1>10 DEF TableInv

LEMMA CommitKeeps == TableInv /\ Commit => TableInv'
<1> SUFFICES ASSUME TableInv, Commit
             PROVE  TableInv'
  OBVIOUS
<1>1. /\ stage = "transaction" /\ trx.ops = <<>> /\ stage' = "committed"
      /\ disk' = trx.rows /\ reordered' = (reordered \/ trx.moved)
      /\ UNCHANGED <<active, inFlight, trx, truth, pushes>> /\ trx.rows \in Rows
  BY DEF TableInv, Commit
<1>2. PICK orig \in Seq(Ops) :
        /\ trx.moved <=> Reorders(orig)
        /\ Run(trx.rows, trx.ops) = Run(disk, Coalesce(orig))
        /\ ~reordered => truth = Run(Run(disk, orig), active)
  BY <1>1 DEF TableInv, Transaction
<1>3. disk' = Run(disk, Coalesce(orig))
  BY <1>1, <1>2, RunOfNone
<1>4. ASSUME ~reordered'
      PROVE  truth' = Run(disk', active')
  <2>1. ~reordered /\ ~Reorders(orig)
    BY <1>1, <1>2, <1>4
  <2>2. disk' = Run(disk, orig)
    BY <1>3, <2>1, CoalesceGroups DEF Groups, TableInv
  <2> QED
    BY <1>1, <1>2, <2>1, <2>2
<1> QED
  BY <1>1, <1>4 DEF TableInv

LEMMA ClearKeeps == TableInv /\ Clear => TableInv'
<1> SUFFICES ASSUME TableInv, Clear
             PROVE  TableInv'
  OBVIOUS
<1>1. /\ stage = "committed" /\ stage' = "none" /\ inFlight' = <<>>
      /\ trx' = [ops |-> <<>>, rows |-> disk, moved |-> FALSE]
      /\ UNCHANGED <<disk, active, truth, reordered, pushes>>
      /\ ~reordered => truth = Run(disk, active)
  BY DEF TableInv, Clear
<1>2. trx' \in [ops : Seq(Ops), rows : Rows, moved : BOOLEAN] /\ trx'.ops = <<>>
      /\ inFlight' \in Seq(Ops)
  BY <1>1 DEF TableInv
<1>3. Len(trx'.ops) <= Len(inFlight') /\ Len(inFlight') + Len(active') <= pushes'
  <2>1. Len(inFlight) + Len(active) <= pushes /\ Len(inFlight) \in Nat /\ Len(active) \in Nat
        /\ pushes \in Nat /\ Len(inFlight') = 0 /\ Len(trx'.ops) = 0
    BY <1>1, <1>2 DEF TableInv
  <2> QED
    BY <1>1, <2>1
<1> QED
  BY <1>1, <1>2, <1>3 DEF TableInv

\* How far the rows of a transaction have got, from the push of an operation to
\* clearInFlight(): the inductive invariant of the theorems below.
THEOREM TableInvHolds == Spec => []TableInv
<1>1. Init => TableInv
  BY TableInit
<1>2. TableInv /\ [Next]_vars => TableInv'
  <2> SUFFICES ASSUME TableInv, [Next]_vars
               PROVE  TableInv'
    OBVIOUS
  <2>1. CASE \E op \in Operations : Push(op)
    BY <2>1, PushKeeps
  <2>2. CASE Swap
    BY <2>2, SwapKeeps
  <2>3. CASE ExecuteNext
    BY <2>3, ExecuteNextKeeps
  <2>4. CASE Commit
    BY <2>4, CommitKeeps
  <2>5. CASE Clear
    BY <2>5, ClearKeeps
  <2>6. CASE UNCHANGED vars
    BY <2>6 DEF vars, TableInv, Transaction
  <2> QED
    BY <2>1, <2>2, <2>3, <2>4, <2>5, <2>6 DEF Next
<1> QED
  BY <1>1, <1>2, PTL DEF Spec

-----------------------------------------------------------------------------
(* The theorems *)

\* Every buffer, the transaction and the rows hold what their declarations say; grouping
\* never makes more operations of a buffer.
THEOREM TableIsTyped == Spec => []TypeOK
<1>1. TableInv => TypeOK
  <2> SUFFICES ASSUME TableInv
               PROVE  TypeOK
    OBVIOUS
  <2>1. Rows \subseteq [Ids -> Row]
    BY DEF Rows, Row, NoRow, LiveRow
  <2>2. Seq(Ops) \subseteq Seq(Op)
    BY DEF Ops
  <2> QED
    BY <2>1, <2>2 DEF TableInv, TypeOK
<1> QED
  BY <1>1, TableInvHolds, PTL

\* Once everything is flushed, the rows on disk are what the operations make of them in
\* the order they were pushed, however many of them grouping merged, unless it merged an
\* update over another operation on one of its rows.
THEOREM FlushesMatch == Spec => []FlushMatches
<1>1. TableInv => FlushMatches
  BY RunOfNone DEF TableInv, FlushMatches
<1> QED
  BY <1>1, TableInvHolds, PTL

\* A read by id shows the row as all operations leave it; while a transaction is under
\* way, whose updates are merged in place, that holds for existence and status.
THEOREM ReadsByIdMatch == Spec => []ReadByIdMatches
<1>1. TableInv => ReadByIdMatches
  <2> SUFFICES ASSUME TableInv, stage # "committed", ~reordered, NEW i \in Ids
               PROVE  /\ ReadById(i).status = truth[i].status
                      /\ stage = "none" => ReadById(i) = truth[i]
    BY DEF ReadByIdMatches
  <2>1. disk \in Rows /\ active \in Seq(Ops) /\ inFlight \in Seq(Ops)
    BY DEF TableInv
  <2>2. ReadById(i) = Run(Run(disk, inFlight), active)[i]
    BY <2>1, ReadByIdRuns
  <2>3. CASE stage = "none"
    <3>1. inFlight = <<>> /\ truth = Run(disk, active)
      BY <2>3 DEF TableInv
    <3> QED
      BY <2>2, <3>1, RunOfNone
  <2>4. CASE stage = "transaction"
    <3>1. PICK orig \in Seq(Ops) : /\ Like(orig, inFlight)
                                   /\ truth = Run(Run(disk, orig), active)
      BY <2>4 DEF TableInv, Transaction
    <3>2. PICK r1 \in Rows, r2 \in Rows : r1 = Run(disk, orig) /\ r2 = Run(disk, inFlight)
      BY <2>1, RunIsTyped
    <3>3. r1[i].status = r2[i].status
      BY <2>1, <3>1, <3>2, LikeRuns
    <3>4. Run(r1, active)[i].status = Run(r2, active)[i].status
      BY <2>1, <3>3, LikeItself, LikeRuns
    <3> QED
      BY <2>2, <2>4, <3>1, <3>2, <3>4
  <2> QED
    BY <2>3, <2>4 DEF TableInv
<1> QED
  BY <1>1, TableInvHolds, PTL

\* A read by status never shows a row that has another status by now, not even while a
\* transaction is under way; between flushes it shows every row that has had no other
\* status since it was on disk or upserted.
THEOREM StatusReadsMatch == Spec => []StatusReads
<1>1. TableInv => StatusReadSound
  <2> SUFFICES ASSUME TableInv, stage # "committed", ~reordered,
                      NEW st \in Statuses, NEW i \in Ids, ReadByStatus(st)[i] # NoRow
               PROVE  truth[i].status = st
    BY DEF StatusReadSound
  <2>1. disk \in Rows /\ active \in Seq(Ops) /\ inFlight \in Seq(Ops)
    BY DEF TableInv
  <2>2. CASE stage = "none"
    <3>1. inFlight = <<>> /\ truth = Run(disk, active)
      BY <2>2 DEF TableInv
    <3>2. Like(inFlight, inFlight)
      BY <2>1, LikeItself
    <3>3. Run(Run(disk, inFlight), active)[i].status = st
      BY <2>1, <3>2, ReadByStatusSound
    <3> QED
      BY <3>1, <3>3, RunOfNone
  <2>3. CASE stage = "transaction"
    <3>1. PICK orig \in Seq(Ops) : /\ Like(orig, inFlight)
                                   /\ truth = Run(Run(disk, orig), active)
      BY <2>3 DEF TableInv, Transaction
    <3> QED
      BY <2>1, <3>1, ReadByStatusSound
  <2> QED
    BY <2>2, <2>3 DEF TableInv
<1>2. TableInv => ShowsMatches
  BY ReadByStatusShows DEF TableInv, ShowsMatches
<1>3. TableInv => StatusReads
  BY <1>1, <1>2 DEF StatusReads
<1> QED
  BY <1>3, TableInvHolds, PTL
=============================================================================
