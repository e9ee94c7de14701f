---------------------------- MODULE QueueProofs -----------------------------
(***************************************************************************)
(* Theorems about JobQueue and QueueRunner, for any set of jobs and of     *)
(* callers, any size of the ring, any limits and any number of faults; of  *)
(* the loops, any number of them with any Concurrency unless a theorem     *)
(* says that there is one.                                                 *)
(***************************************************************************)
EXTENDS QueueRunner, FiniteSetTheorems, SequenceTheorems, TLAPS

USE QueueAssumption

-----------------------------------------------------------------------------
(* The ring *)

\* How far slot i lies behind slot k.
Offset(i, k) == (i - k + RingSlots) % RingSlots

LEMMA OffsetIs ==
  ASSUME NEW i \in Indices, NEW k \in Indices
  PROVE  /\ Offset(i, k) \in Indices
         /\ Offset(i, k) = IF i >= k THEN i - k ELSE i - k + RingSlots
<1>1. PICK N : N = RingSlots
  OBVIOUS
<1>2. N \in Nat \ {0} /\ i \in Int /\ k \in Int /\ 0 <= i /\ i < N /\ 0 <= k /\ k < N
  BY <1>1 DEF Indices
<1>3. CASE i >= k
  <2>1. PICK x \in Int : x = i - k
    BY <1>2
  <2>2. 0 <= x /\ x < N
    BY <1>2, <1>3, <2>1
  <2>3. (x + N) % N = x
    BY <1>2, <2>2
  <2>4. Offset(i, k) = x
    BY <1>1, <2>1, <2>3 DEF Offset
  <2> QED
    BY <1>1, <1>2, <1>3, <2>1, <2>2, <2>4 DEF Indices
<1>4. CASE i < k
  <2>1. PICK x \in Int : x = i - k + N
    BY <1>2
  <2>2. 0 <= x /\ x < N
    BY <1>2, <1>4, <2>1
  <2>3. x % N = x
    BY <1>2, <2>2
  <2>4. Offset(i, k) = x
    BY <1>1, <2>1, <2>3 DEF Offset
  <2> QED
    BY <1>1, <1>2, <1>4, <2>1, <2>2, <2>4 DEF Indices
<1> QED
  BY <1>2, <1>3, <1>4

LEMMA ModIs ==
  ASSUME NEW x \in Nat, x < 2 * RingSlots
  PROVE  /\ x % RingSlots \in Indices
         /\ x % RingSlots = IF x < RingSlots THEN x ELSE x - RingSlots
<1>1. PICK N : N = RingSlots
  OBVIOUS
<1>2. N \in Nat \ {0} /\ x < 2 * N
  BY <1>1
<1>3. x % N = IF x < N THEN x ELSE x - N
  BY <1>2
<1> QED
  BY <1>1, <1>2, <1>3 DEF Indices

RingOK ==
  /\ slots \in [Indices -> Jobs \cup {NoJob}] /\ head \in Indices /\ tail \in Indices
  /\ RingHoldsSize

LEMMA SizeIs ==
  ASSUME head \in Indices, tail \in Indices
  PROVE  Size = Offset(tail, head) /\ Size \in Indices
BY OffsetIs DEF Size, Offset

\* Some jobs from the front of s have come to slots of their own.
Fills(s) ==
  \E n \in 0 .. Len(s), at \in [Indices -> Nat \ {0}] :
    /\ \A i, k \in Indices : at[i] = at[k] => i = k
    /\ slots' = [i \in Indices |-> IF at[i] <= n THEN s[at[i]] ELSE slots[i]]

\* Pushing jobs keeps the ring in order.
LEMMA PushKeepsRing ==
  ASSUME RingOK, NEW s \in Seq(Jobs), RingPush(s)
  PROVE  RingOK' /\ Fills(s)
<1> USE SizeIs
<1>1. head \in Indices /\ tail \in Indices /\ Size \in Indices
  BY DEF RingOK
<1>2. PICK z \in Indices : z = Size
  BY <1>1
<1>3. PICK N : N = RingSlots
  OBVIOUS
<1>4. N \in Nat \ {0}
  BY <1>3
<1>5. PICK l \in Nat : l = Len(s)
  BY LenProperties
<1>b. /\ head \in Int /\ tail \in Int /\ z \in Int /\ 0 <= z /\ z < N /\ 0 <= head /\ head < N
      /\ 0 <= tail /\ tail < N
  BY <1>1, <1>2, <1>3 DEF Indices
<1>6. PICK n \in Nat : n = MinOf(l, N - 1 - z) /\ n <= l /\ n <= N - 1 - z
  <2>1. MinOf(l, N - 1 - z) \in Nat /\ MinOf(l, N - 1 - z) <= l /\ MinOf(l, N - 1 - z) <= N - 1 - z
    BY <1>4, <1>5, <1>b DEF MinOf
  <2> QED
    BY <2>1
<1>o. ASSUME NEW i \in Indices
      PROVE  /\ i \in Int /\ 0 <= i /\ i < N
             /\ Offset(i, tail) \in Int /\ 0 <= Offset(i, tail)
             /\ Offset(i, tail) = IF i >= tail THEN i - tail ELSE i - tail + N
             /\ Offset(i, head) \in Int /\ 0 <= Offset(i, head)
             /\ Offset(i, head) = IF i >= head THEN i - head ELSE i - head + N
  <2>1. i \in Int /\ 0 <= i /\ i < N
    BY <1>3 DEF Indices
  <2>2. /\ Offset(i, tail) = IF i >= tail THEN i - tail ELSE i - tail + N
        /\ Offset(i, head) = IF i >= head THEN i - head ELSE i - head + N
    BY <1>1, <1>3, OffsetIs
  <2> QED
    BY <2>1, <2>2, <1>4, <1>b
<1>7. n = MinOf(Len(s), RingSlots - 1 - Size)
  BY <1>2, <1>3, <1>5, <1>6
<1>8. /\ slots' = [i \in Indices |-> IF Offset(i, tail) + 1 <= n THEN s[Offset(i, tail) + 1]
                                                              ELSE slots[i]]
      /\ tail' = (tail + n) % RingSlots /\ head' = head
  BY <1>7 DEF RingPush, Offset
<1>9. PICK at : at = [i \in Indices |-> Offset(i, tail) + 1]
  OBVIOUS
<1>10. \A i \in Indices : at[i] = Offset(i, tail) + 1 /\ at[i] \in Nat \ {0}
  BY <1>9, <1>o
<1>11. at \in [Indices -> Nat \ {0}]
  BY <1>9, <1>10
<1>12. \A i, k \in Indices : at[i] = at[k] => i = k
  <2> SUFFICES ASSUME NEW i \in Indices, NEW k \in Indices, at[i] = at[k]
               PROVE  i = k
    OBVIOUS
  <2>1. Offset(i, tail) = Offset(k, tail)
    BY <1>10, <1>o
  <2> QED
    BY SMTT(30), <2>1, <1>o, <1>b, <1>4
<1>13. slots' = [i \in Indices |-> IF at[i] <= n THEN s[at[i]] ELSE slots[i]]
  BY <1>8, <1>10
<1>14. Fills(s)
  <2>1. n \in 0 .. Len(s)
    BY <1>5, <1>6
  <2> QED
    BY <2>1, <1>11, <1>12, <1>13 DEF Fills
<1>15. \A i \in Indices : at[i] <= n => s[at[i]] \in Jobs
  <2> SUFFICES ASSUME NEW i \in Indices, at[i] <= n PROVE s[at[i]] \in Jobs
    OBVIOUS
  <2>1. at[i] \in 1 .. Len(s)
    BY <1>5, <1>6, <1>10
  <2> QED
    BY <2>1, ElementOfSeq
<1>16. slots' \in [Indices -> Jobs \cup {NoJob}]
  BY <1>13, <1>15 DEF RingOK
<1>17. tail + n \in Nat /\ tail + n < 2 * RingSlots
  BY <1>3, <1>4, <1>6, <1>b
<1>18. /\ tail' \in Indices
       /\ tail' = IF tail + n < N THEN tail + n ELSE tail + n - N
  <2>1. PICK x \in Nat : x = tail + n /\ x < 2 * RingSlots
    BY <1>17
  <2>2. x % RingSlots \in Indices /\ x % RingSlots = IF x < RingSlots THEN x ELSE x - RingSlots
    BY <2>1, ModIs
  <2> QED
    BY <1>3, <1>8, <1>b, <1>4, <2>1, <2>2
<1>19. head' = head /\ head' \in Indices
  BY <1>1, <1>8
<1>20. Size' = Offset(tail', head')
  BY DEF Size, Offset
<1>21. /\ z = IF tail >= head THEN tail - head ELSE tail - head + N
       /\ Size' = IF tail' >= head THEN tail' - head ELSE tail' - head + N
  BY <1>1, <1>2, <1>3, <1>18, <1>19, <1>20, OffsetIs
<1>22. Size' = z + n
  <2>0. PICK t : t = tail'
    OBVIOUS
  <2>a. tail + n \in Int /\ tail + n - N \in Int
    BY <1>b, <1>4
  <2>b. t = IF tail + n < N THEN tail + n ELSE tail + n - N
    BY <1>18, <2>0
  <2>1. t \in Int /\ t = tail' /\ t = IF tail + n < N THEN tail + n ELSE tail + n - N
    BY <2>0, <2>a, <2>b
  <2>2. Size' = IF t >= head THEN t - head ELSE t - head + N
    BY <1>21, <2>1
  <2>3. z = IF tail >= head THEN tail - head ELSE tail - head + N
    BY <1>21
  <2>4. n <= N - 1 - z /\ t = IF tail + n < N THEN tail + n ELSE tail + n - N
    BY <1>6, <2>1
  <2>5. CASE tail + n < N
    <3>1. t = tail + n
      BY <2>4, <2>5
    <3> QED
      BY ONLY <1>b, <1>4, <2>2, <2>3, <2>4, <2>5, <3>1, n \in Nat, <2>1
  <2>6. CASE ~(tail + n < N)
    <3>1. t = tail + n - N
      BY <2>4, <2>6
    <3> QED
      BY ONLY <1>b, <1>4, <2>2, <2>3, <2>4, <2>6, <3>1, n \in Nat, <2>1
  <2> QED
    BY <2>5, <2>6
<1>23. RingHoldsSize'
  <2> SUFFICES ASSUME NEW i \in Indices
               PROVE  slots'[i] # NoJob <=> Offset(i, head) < z + n
    BY <1>19, <1>22 DEF RingHoldsSize, Offset
  <2>1. slots[i] # NoJob <=> Offset(i, head) < z
    BY <1>2 DEF RingOK, RingHoldsSize, Offset
  <2>2. slots'[i] = IF at[i] <= n THEN s[at[i]] ELSE slots[i]
    BY <1>13
  <2>3. at[i] <= n => slots'[i] # NoJob
    BY <1>15, <2>2
  <2>4. slots'[i] # NoJob <=> at[i] <= n \/ Offset(i, head) < z
    BY <2>1, <2>2, <2>3
  <2>5. PICK a \in Int, b \in Int : a = Offset(i, tail) /\ b = Offset(i, head)
    BY <1>o
  <2>6. /\ i \in Int /\ 0 <= i /\ i < N
        /\ a = IF i >= tail THEN i - tail ELSE i - tail + N
        /\ b = IF i >= head THEN i - head ELSE i - head + N
        /\ z = IF tail >= head THEN tail - head ELSE tail - head + N
    BY <1>o, <1>21, <2>5
  <2>7. a + 1 <= n \/ b < z <=> b < z + n
    BY <1>b, <1>4, <1>6, <2>6
  <2> QED
    BY <1>10, <2>4, <2>5, <2>7
<1> QED
  BY <1>14, <1>16, <1>18, <1>19, <1>23 DEF RingOK

\* The jobs of s come from slots of their own, which are empty now; no slot has changed
\* otherwise.
Takes(s) ==
  /\ \E at \in [1 .. Len(s) -> Indices] :
       /\ \A k, m \in 1 .. Len(s) : at[k] = at[m] => k = m
       /\ \A k \in 1 .. Len(s) : s[k] = slots[at[k]] /\ slots'[at[k]] = NoJob
  /\ \A i \in Indices : slots'[i] \in {slots[i], NoJob}

\* Popping jobs that are there keeps the ring in order.
LEMMA PopKeepsRing ==
  ASSUME RingOK, NEW n \in Nat, n <= Size, RingPop(n)
  PROVE  /\ RingOK'
         /\ RingFirst(n) \in Seq(Jobs) /\ Len(RingFirst(n)) = n
         /\ Takes(RingFirst(n))
<1>1. head \in Indices /\ tail \in Indices /\ Size \in Indices
  BY SizeIs DEF RingOK
<1>2. PICK z \in Indices : z = Size
  BY <1>1
<1>3. PICK N : N = RingSlots
  OBVIOUS
<1>4. N \in Nat \ {0} /\ n <= z
  BY <1>2, <1>3
<1>b. /\ head \in Int /\ tail \in Int /\ z \in Int /\ 0 <= z /\ z < N /\ 0 <= head /\ head < N
      /\ 0 <= tail /\ tail < N
  BY <1>1, <1>2, <1>3 DEF Indices
<1>5. PICK s : s = RingFirst(n)
  OBVIOUS
<1>6. PICK at : at = [k \in 1 .. n |-> (head + k - 1) % RingSlots]
  OBVIOUS
<1>7. ASSUME NEW k \in 1 .. n
      PROVE  /\ at[k] \in Indices
             /\ at[k] = IF head + k - 1 < N THEN head + k - 1 ELSE head + k - 1 - N
  <2>1. PICK x \in Nat : x = head + k - 1 /\ x < 2 * RingSlots
    <3>1. head + k - 1 \in Nat /\ head + k - 1 < 2 * N
      BY <1>b, <1>4
    <3> QED
      BY <3>1, <1>3
  <2>2. x % RingSlots \in Indices /\ x % RingSlots = IF x < RingSlots THEN x ELSE x - RingSlots
    BY <2>1, ModIs
  <2>3. at[k] = x % RingSlots
    BY <1>6, <2>1
  <2> QED
    BY <1>3, <1>4, <1>b, <2>1, <2>2, <2>3
<1>8. ASSUME NEW k \in 1 .. n
      PROVE  Offset(at[k], head) = k - 1
  <2>1. PICK a \in Int : a = at[k] /\ a \in Indices
    BY <1>7 DEF Indices
  <2>2. Offset(a, head) = IF a >= head THEN a - head ELSE a - head + N
    BY <1>1, <1>3, <2>1, OffsetIs
  <2>3. a = IF head + k - 1 < N THEN head + k - 1 ELSE head + k - 1 - N
    BY <1>7, <2>1
  <2>4. k \in Int /\ 1 <= k /\ k <= n
    OBVIOUS
  <2>5. (IF a >= head THEN a - head ELSE a - head + N) = k - 1
    <3>1. CASE head + k - 1 < N
      <4>1. a = head + k - 1
        BY <2>3, <3>1
      <4> QED
        BY ONLY <1>b, <1>4, <2>4, <4>1, a \in Int, n \in Nat
    <3>2. CASE ~(head + k - 1 < N)
      <4>1. a = head + k - 1 - N
        BY <2>3, <3>2
      <4> QED
        BY ONLY <1>b, <1>4, <2>4, <4>1, <3>2, a \in Int, n \in Nat
    <3> QED
      BY <3>1, <3>2
  <2> QED
    BY <2>1, <2>2, <2>5
<1>9. ASSUME NEW k \in 1 .. n
      PROVE  slots[at[k]] \in Jobs
  <2>1. Offset(at[k], head) < Size
    <3>1. k - 1 < z
      BY <1>4, <1>b
    <3> QED
      BY <3>1, <1>2, <1>8
  <2>2. slots[at[k]] # NoJob
    BY <1>7, <2>1 DEF RingOK, RingHoldsSize, Offset
  <2> QED
    BY <1>7, <2>2 DEF RingOK
<1>10. s = [k \in 1 .. n |-> slots[at[k]]]
  BY <1>5, <1>6 DEF RingFirst
<1>11. s \in Seq(Jobs) /\ Len(s) = n
  <2>1. s \in [1 .. n -> Jobs]
    BY <1>9, <1>10
  <2> QED
    BY <2>1
<1>12. /\ slots' = [i \in Indices |-> IF Offset(i, head) < n THEN NoJob ELSE slots[i]]
       /\ head' = (head + n) % RingSlots /\ tail' = tail
  BY DEF RingPop, Offset
<1>13. Takes(s)
  <2>1. at \in [1 .. Len(s) -> Indices]
    BY <1>6, <1>7, <1>11
  <2>2. \A k, m \in 1 .. n : at[k] = at[m] => k = m
    <3> SUFFICES ASSUME NEW k \in 1 .. n, NEW m \in 1 .. n, at[k] = at[m] PROVE k = m
      OBVIOUS
    <3>1. k - 1 = m - 1
      BY <1>8
    <3> QED
      BY <3>1
  <2>3. ASSUME NEW k \in 1 .. n
        PROVE  s[k] = slots[at[k]] /\ slots'[at[k]] = NoJob
    <3>1. k - 1 < n
      OBVIOUS
    <3>2. Offset(at[k], head) < n
      BY <1>8, <3>1
    <3> QED
      BY <1>7, <1>10, <1>12, <3>2
  <2>4. \A i \in Indices : slots'[i] \in {slots[i], NoJob}
    BY <1>12
  <2> QED
    BY <1>11, <2>1, <2>2, <2>3, <2>4 DEF Takes
<1>14. slots' \in [Indices -> Jobs \cup {NoJob}]
  BY <1>12 DEF RingOK
<1>15. PICK x \in Nat : x = head + n /\ x < 2 * RingSlots
  <2>1. head + n \in Nat /\ head + n < 2 * N
    BY <1>4, <1>b
  <2> QED
    BY <2>1, <1>3
<1>h. PICK h : h = head'
  OBVIOUS
<1>16. h \in Int /\ h = head' /\ h \in Indices /\ h = IF x < N THEN x ELSE x - N
  <2>1. x % RingSlots \in Indices /\ x % RingSlots = IF x < RingSlots THEN x ELSE x - RingSlots
    BY <1>15, ModIs
  <2>2. head' = x % RingSlots
    BY <1>12, <1>15
  <2>3. x % RingSlots \in Int
    BY <2>1 DEF Indices
  <2>4. x % RingSlots = IF x < N THEN x ELSE x - N
    BY <1>3, <2>1
  <2>5. h = x % RingSlots
    BY <1>h, <2>2
  <2>6. h \in Int /\ h \in Indices
    BY <2>1, <2>3, <2>5
  <2>7. h = IF x < N THEN x ELSE x - N
    BY <2>4, <2>5
  <2> QED
    BY <1>h, <2>6, <2>7
<1>17. h = IF head + n < N THEN head + n ELSE head + n - N
  BY <1>15, <1>16, <1>b, <1>4
<1>18. z = IF tail >= head THEN tail - head ELSE tail - head + N
  BY <1>1, <1>2, <1>3, OffsetIs, SizeIs
<1>19. Size' = IF tail >= h THEN tail - h ELSE tail - h + N
  <2>1. Size' = Offset(tail, h)
    BY <1>12, <1>16 DEF Size, Offset
  <2> QED
    BY <1>1, <1>3, <1>16, <2>1, OffsetIs
<1>20. 0 <= h /\ h < N
  BY <1>16, <1>3 DEF Indices
<1>21. Size' = z - n
  <2>1. (IF tail >= h THEN tail - h ELSE tail - h + N) = z - n
    BY ONLY <1>b, <1>4, <1>17, <1>18, <1>20, <1>16, n \in Nat
  <2> QED
    BY <1>19, <2>1
<1>22. RingHoldsSize'
  <2> SUFFICES ASSUME NEW i \in Indices
               PROVE  slots'[i] # NoJob <=> Offset(i, h) < z - n
    BY <1>16, <1>21 DEF RingHoldsSize, Offset
  <2>1. slots[i] # NoJob <=> Offset(i, head) < z
    BY <1>2 DEF RingOK, RingHoldsSize, Offset
  <2>2. slots'[i] = IF Offset(i, head) < n THEN NoJob ELSE slots[i]
    BY <1>12
  <2>3. slots'[i] # NoJob <=> ~(Offset(i, head) < n) /\ Offset(i, head) < z
    BY <2>1, <2>2
  <2>4. i \in Int /\ 0 <= i /\ i < N
    BY <1>3 DEF Indices
  <2>5. /\ Offset(i, head) = IF i >= head THEN i - head ELSE i - head + N
        /\ Offset(i, h) = IF i >= h THEN i - h ELSE i - h + N
    BY <1>1, <1>3, <1>16, OffsetIs
  <2>a. Offset(i, head) \in Int /\ Offset(i, h) \in Int
    <3>1. Offset(i, head) \in Indices /\ Offset(i, h) \in Indices
      BY <1>1, <1>16, OffsetIs
    <3> QED
      BY <3>1 DEF Indices
  <2>6. PICK a \in Int, b \in Int : a = Offset(i, head) /\ b = Offset(i, h)
    BY <2>a
  <2>7. /\ a = IF i >= head THEN i - head ELSE i - head + N
        /\ b = IF i >= h THEN i - h ELSE i - h + N
    BY <2>5, <2>6
  <2>8. ~(a < n) /\ a < z <=> b < z - n
    BY ONLY <1>b, <1>4, <1>17, <1>18, <1>20, <2>4, <2>7, <1>16, n \in Nat, a \in Int, b \in Int
  <2> QED
    BY <2>3, <2>6, <2>8
<1> QED
  BY <1>1, <1>5, <1>11, <1>12, <1>13, <1>14, <1>16, <1>22 DEF RingOK

-----------------------------------------------------------------------------
(* What an operation leaves in the rows, the handlers and the calls *)

RowsOK ==
  /\ live \in [Jobs -> Row] /\ stored \in [Jobs -> Row]
  /\ seen \in [Jobs -> SUBSET (Statuses \cup {"none"})]
  /\ waiting \in SUBSET Jobs /\ late \in SUBSET Jobs

\* A call that has jobs to handle has some, and one that has none keeps none.
CallsFit(p) ==
  /\ pc[p] \in {"idle", "select"} => todo[p] = <<>>
  /\ pc[p] \in {"fill", "claim", "commit", "prune"} => todo[p] # <<>>
  /\ pc[p] \in {"enqueue", "fail"} => Len(todo[p]) = 1

CallsOK ==
  /\ pc \in [Callers -> PCs] /\ todo \in [Callers -> Seq(Jobs)]
  /\ arg \in [Consumers \cup Failers -> Nat]
  /\ \A p \in Callers : CallsFit(p)

HeldOK == held \in [Consumers -> [Jobs -> Nat]] /\ delivered \in [Jobs -> Nat]

CountsOK ==
  /\ known \in SUBSET Jobs
  /\ slow \in Nat /\ timeouts \in Nat /\ crashes \in Nat

Typed == RowsOK /\ RingOK /\ CallsOK /\ HeldOK /\ CountsOK

LEMMA RowsAreRows == NoRow \in Row /\ NewRow \in Row /\ NoRow # NewRow
BY DEF NoRow, NewRow, Row, Statuses

LEMMA InsertTypes ==
  ASSUME RowsOK, NEW j \in Jobs, Insert(j)
  PROVE  /\ live' \in [Jobs -> Row] /\ late' \in SUBSET Jobs
         /\ seen' \in [Jobs -> SUBSET (Statuses \cup {"none"})]
BY RowsAreRows DEF Insert, RowsOK, Statuses

\* What an update does to one row.
Updated(j, hit, status, increment) ==
  IF hit /\ live[j] # NoRow
  THEN /\ live'[j] = [status |-> status, attempts |-> live[j].attempts + increment]
       /\ seen'[j] = seen[j] \cup {status}
       /\ j \notin late'
  ELSE live'[j] = live[j] /\ seen'[j] = seen[j] /\ (j \in late' <=> j \in late)

LEMMA UpdateTypes ==
  ASSUME RowsOK, NEW js, NEW status \in Statuses, NEW increment \in Nat,
         Update(js, status, increment)
  PROVE  /\ live' \in [Jobs -> Row] /\ late' \in SUBSET Jobs
         /\ seen' \in [Jobs -> SUBSET (Statuses \cup {"none"})]
         /\ \A j \in Jobs : Updated(j, j \in js, status, increment)
<1>1. PICK hit : hit = {j \in js : live[j] # NoRow}
  OBVIOUS
<1>2. /\ live' = [j \in Jobs |->
           IF j \in hit THEN [status |-> status, attempts |-> live[j].attempts + increment]
                        ELSE live[j]]
      /\ seen' = [j \in Jobs |-> IF j \in hit THEN seen[j] \cup {status} ELSE seen[j]]
      /\ late' = late \ hit
  BY <1>1 DEF Update
<1>3. ASSUME NEW j \in Jobs
      PROVE  [status |-> status, attempts |-> live[j].attempts + increment] \in Row
  <2>1. live[j] \in Row
    BY DEF RowsOK
  <2>2. live[j].attempts + increment \in Nat
    BY <2>1 DEF Row
  <2> QED
    BY <2>2 DEF Row
<1>4. live' \in [Jobs -> Row]
  BY <1>2, <1>3 DEF RowsOK
<1>5. seen' \in [Jobs -> SUBSET (Statuses \cup {"none"})]
  BY <1>2 DEF RowsOK
<1>6. ASSUME NEW j \in Jobs
      PROVE  Updated(j, j \in js, status, increment)
  <2>1. CASE j \in js /\ live[j] # NoRow
    <3>1. j \in hit
      BY <1>1, <2>1
    <3>2. /\ live'[j] = [status |-> status, attempts |-> live[j].attempts + increment]
          /\ seen'[j] = seen[j] \cup {status} /\ j \notin late'
      BY <1>2, <3>1
    <3> QED
      BY <2>1, <3>2 DEF Updated
  <2>2. CASE ~(j \in js /\ live[j] # NoRow)
    <3>1. j \notin hit
      BY <1>1, <2>2
    <3>2. live'[j] = live[j] /\ seen'[j] = seen[j] /\ (j \in late' <=> j \in late)
      BY <1>2, <3>1
    <3> QED
      BY <2>2, <3>2 DEF Updated
  <2> QED
    BY <2>1, <2>2
<1> QED
  BY <1>2, <1>4, <1>5, <1>6 DEF RowsOK

LEMMA OccurrencesCount ==
  ASSUME NEW s \in Seq(Jobs), NEW j
  PROVE  /\ Occurrences(j, s) \in Nat
         /\ j \notin Range(s) => Occurrences(j, s) = 0
         /\ (\A i, k \in 1 .. Len(s) : s[i] = j /\ s[k] = j => i = k) => Occurrences(j, s) <= 1
<1>1. PICK S : S = {i \in 1 .. Len(s) : s[i] = j}
  OBVIOUS
<1>2. IsFiniteSet(1 .. Len(s))
  BY FS_Interval, LenProperties
<1>3. IsFiniteSet(S) /\ Cardinality(S) \in Nat
  BY <1>1, <1>2, FS_Subset, FS_CardinalityType
<1>4. Occurrences(j, s) = Cardinality(S)
  BY <1>1 DEF Occurrences
<1>5. j \notin Range(s) => Cardinality(S) = 0
  <2> SUFFICES ASSUME j \notin Range(s) PROVE S = {}
    BY FS_EmptySet
  <2> QED
    BY <1>1, LenProperties DEF Range
<1>6. ASSUME \A i, k \in 1 .. Len(s) : s[i] = j /\ s[k] = j => i = k
      PROVE  Cardinality(S) <= 1
  <2>1. CASE S = {}
    BY <2>1, FS_EmptySet
  <2>2. CASE S # {}
    <3>1. PICK i : i \in S
      BY <2>2
    <3>2. S = {i}
      BY <1>1, <1>6, <3>1
    <3>3. Cardinality({i}) = 1
      BY FS_Singleton
    <3> QED
      BY <3>2, <3>3
  <2> QED
    BY <2>1, <2>2
<1> QED
  BY <1>3, <1>4, <1>5, <1>6

\* What a delivery to consumer c does.
Delivered(c, s) ==
  \A j \in Jobs :
    /\ delivered'[j] = IF j \in Range(s) /\ ~Unpushed(j) THEN delivered[j] + 1 ELSE delivered[j]
    /\ held'[c][j] = held[c][j] + Occurrences(j, s)
    /\ \A b \in Consumers : b # c => held'[b][j] = held[b][j]

LEMMA DeliverTypes ==
  ASSUME HeldOK, NEW c \in Consumers, NEW s \in Seq(Jobs), Deliver(c, s)
  PROVE  HeldOK' /\ Delivered(c, s)
<1>1. /\ held' = [held EXCEPT ![c] = [j \in Jobs |-> held[c][j] + Occurrences(j, s)]]
      /\ delivered' = [j \in Jobs |-> IF j \in Range(s) /\ ~Unpushed(j) THEN delivered[j] + 1
                                                                       ELSE delivered[j]]
  BY DEF Deliver
<1>2. PICK f : f = [j \in Jobs |-> held[c][j] + Occurrences(j, s)]
  OBVIOUS
<1>3. f \in [Jobs -> Nat]
  <2>1. \A j \in Jobs : held[c][j] \in Nat /\ Occurrences(j, s) \in Nat
    BY OccurrencesCount DEF HeldOK
  <2> QED
    BY <1>2, <2>1
<1>4. held' = [held EXCEPT ![c] = f]
  BY <1>1, <1>2
<1>5. HeldOK'
  BY <1>1, <1>3, <1>4 DEF HeldOK
<1>6. held'[c] = f /\ \A b \in Consumers : b # c => held'[b] = held[b]
  BY <1>4 DEF HeldOK
<1> QED
  BY <1>1, <1>2, <1>5, <1>6 DEF Delivered

LEMMA FinishTypes ==
  ASSUME HeldOK, NEW c \in Consumers, NEW js, \A j \in js : j \in Jobs /\ held[c][j] > 0,
         Finish(c, js)
  PROVE  /\ held' \in [Consumers -> [Jobs -> Nat]]
         /\ \A j \in Jobs : /\ held'[c][j] = IF j \in js THEN held[c][j] - 1 ELSE held[c][j]
                            /\ \A b \in Consumers : b # c => held'[b][j] = held[b][j]
<1>1. PICK f : f = [j \in Jobs |-> IF j \in js THEN held[c][j] - 1 ELSE held[c][j]]
  OBVIOUS
<1>2. held' = [held EXCEPT ![c] = f]
  BY <1>1 DEF Finish
<1>3. f \in [Jobs -> Nat]
  <2>1. \A j \in Jobs : held[c][j] \in Nat
    BY DEF HeldOK
  <2> QED
    BY <1>1, <2>1
<1>4. held'[c] = f /\ \A b \in Consumers : b # c => held'[b] = held[b]
  BY <1>2 DEF HeldOK
<1> QED
  BY <1>1, <1>2, <1>3, <1>4 DEF HeldOK

Distinct(s) == \A i, k \in 1 .. Len(s) : s[i] = s[k] => i = k

LEMMA ArrangementsAreSequences ==
  ASSUME NEW S \in SUBSET Jobs, NEW n \in Nat, NEW s \in Arrangements(S, n)
  PROVE  s \in Seq(Jobs) /\ Len(s) = n /\ Range(s) \subseteq S /\ Distinct(s)
<1>1. s \in [1 .. n -> S] /\ \A i, k \in 1 .. n : s[i] = s[k] => i = k
  BY DEF Arrangements
<1>2. s \in Seq(Jobs) /\ Len(s) = n
  BY <1>1
<1> QED
  BY <1>1, <1>2 DEF Distinct, Range

LEMMA JobsAreCounted ==
  ASSUME NEW S \in SUBSET Jobs
  PROVE  IsFiniteSet(S) /\ Cardinality(S) \in Nat
BY FS_Subset, FS_CardinalityType

LEMMA BatchesAreSequences ==
  ASSUME NEW s \in Batches
  PROVE  /\ s \in Seq(Jobs) /\ s # <<>> /\ Distinct(s)
         /\ \A due \in Sublists(s) : due \in Seq(Jobs) /\ Range(due) \subseteq Range(s)
<1>1. s \in Seq(Jobs) /\ Len(s) \in {1, 2} /\ Distinct(s)
  <2>1. CASE \E j \in Jobs : s = <<j>>
    BY <2>1 DEF Distinct
  <2>2. CASE s \in Arrangements(Jobs, 2)
    BY <2>2, ArrangementsAreSequences
  <2> QED
    BY <2>1, <2>2 DEF Batches
<1>2. ASSUME NEW due \in Sublists(s)
      PROVE  due \in Seq(Jobs) /\ Range(due) \subseteq Range(s)
  <2>1. PICK n \in 0 .. Len(s) :
          due \in {[i \in 1 .. n |-> s[f[i]]] : f \in Rising(n, Len(s))}
    BY DEF Sublists
  <2>2. PICK f \in Rising(n, Len(s)) : due = [i \in 1 .. n |-> s[f[i]]]
    BY <2>1
  <2>3. \A i \in 1 .. n : f[i] \in 1 .. Len(s)
    BY DEF Rising
  <2>4. \A i \in 1 .. n : s[f[i]] \in Jobs /\ s[f[i]] \in Range(s)
    BY <1>1, <2>3 DEF Range
  <2>5. n \in Nat
    BY <1>1
  <2>6. due \in [1 .. n -> Jobs]
    BY <2>2, <2>4
  <2>7. due \in Seq(Jobs) /\ DOMAIN due = 1 .. n
    BY <2>5, <2>6
  <2> QED
    BY <2>2, <2>4, <2>7 DEF Range
<1> QED
  BY <1>1, <1>2

LEMMA RingStays ==
  ASSUME RingOK, UNCHANGED ring
  PROVE  RingOK'
BY DEF ring, RingOK, RingHoldsSize, Size, Indices

LEMMA CallsStay ==
  ASSUME CallsOK, UNCHANGED calls
  PROVE  CallsOK'
BY DEF calls, CallsOK, CallsFit

\* The call of p goes to a place with the jobs of s left; no other call moves.
Moved(p, place, s) ==
  /\ pc'[p] = place /\ todo'[p] = s
  /\ \A q \in Callers : q # p => pc'[q] = pc[q] /\ todo'[q] = todo[q]

Fits(place, s) ==
  /\ place \in {"idle", "select"} => s = <<>>
  /\ place \in {"fill", "claim", "commit", "prune"} => s # <<>>
  /\ place \in {"enqueue", "fail"} => Len(s) = 1

LEMMA CallMoves ==
  ASSUME CallsOK, NEW p \in Callers, NEW place \in PCs, NEW s \in Seq(Jobs),
         pc' = [pc EXCEPT ![p] = place], todo' = [todo EXCEPT ![p] = s],
         arg' \in [Consumers \cup Failers -> Nat], Fits(place, s)
  PROVE  CallsOK' /\ Moved(p, place, s)
<1>1. pc' \in [Callers -> PCs] /\ todo' \in [Callers -> Seq(Jobs)]
  BY DEF CallsOK
<1>2. Moved(p, place, s)
  BY DEF CallsOK, Moved
<1>3. ASSUME NEW q \in Callers
      PROVE  CallsFit(q)'
  <2>1. CASE q = p
    BY <1>2, <2>1 DEF Moved, CallsFit, Fits
  <2>2. CASE q # p
    BY <1>2, <2>2 DEF Moved, CallsFit, CallsOK
  <2> QED
    BY <2>1, <2>2
<1> QED
  BY <1>1, <1>2, <1>3 DEF CallsOK

LEMMA CallReturns ==
  ASSUME CallsOK, NEW p \in Callers, Return(p)
  PROVE  CallsOK' /\ Moved(p, "idle", <<>>)
<1>1. arg' \in [Consumers \cup Failers -> Nat]
  BY DEF Return, CallsOK
<1>2. Fits("idle", <<>>) /\ "idle" \in PCs /\ <<>> \in Seq(Jobs)
  BY DEF Fits, PCs
<1> QED
  BY <1>1, <1>2, CallMoves DEF Return

LEMMA CallerKinds ==
  /\ \A p \in Producers : p \in Callers
  /\ \A c \in Consumers : c \in Callers
  /\ \A f \in Failers : f \in Callers
  /\ \A m \in Maintainers : m \in Callers
BY DEF Callers

\* The rows of a job after its insert.
Inserted(j) ==
  /\ live'[j] = NewRow /\ seen'[j] = {"pending"} /\ j \notin late'
  /\ \A k \in Jobs : k # j => live'[k] = live[k] /\ seen'[k] = seen[k] /\ (k \in late' <=> k \in late)

RowsStay == \A k \in Jobs : live'[k] = live[k] /\ seen'[k] = seen[k] /\ (k \in late' <=> k \in late)

-----------------------------------------------------------------------------
(* What each action does, one job, one slot and one call at a time *)

LEMMA EnqueueDoes ==
  ASSUME Typed, NEW p \in Producers, NEW j \in Jobs, NEW delayed \in BOOLEAN,
         Enqueue(p, j, delayed)
  PROVE  /\ Typed' /\ New(j) /\ pc[p] = "idle"
         /\ Inserted(j) /\ UNCHANGED <<stored, ring, held, delivered, faults, arg>>
         /\ Moved(p, IF delayed THEN "idle" ELSE "enqueue", IF delayed THEN <<>> ELSE <<j>>)
         /\ known' = known \cup {j}
<1> USE CallerKinds
<1>1. /\ pc[p] = "idle" /\ New(j) /\ Insert(j)
      /\ waiting' = IF delayed THEN waiting \cup {j} ELSE waiting
      /\ UNCHANGED <<stored, ring, held, delivered, faults, arg>>
      /\ known' = known \cup {j}
  BY DEF Enqueue, faults, ring
<1>2. PICK place : place = IF delayed THEN "idle" ELSE "enqueue"
  OBVIOUS
<1>3. PICK s : s = IF delayed THEN <<>> ELSE <<j>>
  OBVIOUS
<1>4. pc' = [pc EXCEPT ![p] = place] /\ todo' = [todo EXCEPT ![p] = s]
  BY <1>2, <1>3 DEF Enqueue
<1>5. place \in PCs /\ s \in Seq(Jobs) /\ Fits(place, s)
  BY <1>2, <1>3 DEF PCs, Fits
<1>6. arg' \in [Consumers \cup Failers -> Nat] /\ CallsOK
  BY <1>1 DEF Typed, CallsOK
<1>7. CallsOK' /\ Moved(p, place, s)
  BY <1>4, <1>5, <1>6, CallMoves
<1>8. RowsOK'
  BY <1>1, InsertTypes DEF Typed, RowsOK
<1>9. Inserted(j)
  BY <1>1 DEF Insert, Inserted, Typed, RowsOK
<1>10. RingOK' /\ HeldOK' /\ CountsOK'
  <2>1. RingOK'
    BY <1>1, RingStays DEF Typed
  <2>2. HeldOK'
    BY <1>1 DEF Typed, HeldOK
  <2>3. CountsOK'
    BY <1>1 DEF Typed, CountsOK, faults
  <2> QED
    BY <2>1, <2>2, <2>3
<1> QED
  BY <1>1, <1>2, <1>3, <1>7, <1>8, <1>9, <1>10 DEF Typed

LEMMA EnqueueBatchDoes ==
  ASSUME Typed, NEW p \in Producers, NEW s \in Batches, NEW due \in Sublists(s),
         EnqueueBatch(p, s, due)
  PROVE  /\ Typed' /\ pc[p] = "idle" /\ \A j \in Range(s) : New(j)
         /\ s \in Seq(Jobs) /\ s # <<>> /\ Distinct(s)
         /\ due \in Seq(Jobs) /\ Range(due) \subseteq Range(s) /\ Fills(due)
         /\ Inserted(s[1]) /\ UNCHANGED <<stored, held, delivered, faults, arg>>
         /\ Moved(p, "enqueueBatch", Tail(s))
         /\ known' = known \cup Range(s)
<1> USE CallerKinds
<1>1. /\ pc[p] = "idle" /\ (\A j \in Range(s) : New(j)) /\ Insert(s[1]) /\ RingPush(due)
      /\ waiting' = waiting \cup (Range(s) \ Range(due))
      /\ UNCHANGED <<stored, held, delivered, faults, arg>>
      /\ known' = known \cup Range(s)
      /\ pc' = [pc EXCEPT ![p] = "enqueueBatch"] /\ todo' = [todo EXCEPT ![p] = Tail(s)]
  BY DEF EnqueueBatch, faults
<1>2. /\ s \in Seq(Jobs) /\ s # <<>> /\ Distinct(s)
      /\ due \in Seq(Jobs) /\ Range(due) \subseteq Range(s)
  BY BatchesAreSequences
<1>3. s[1] \in Jobs /\ Tail(s) \in Seq(Jobs) /\ Range(s) \subseteq Jobs
  BY <1>2 DEF Range
<1>4. "enqueueBatch" \in PCs /\ Fits("enqueueBatch", Tail(s))
  BY DEF PCs, Fits
<1>5. arg' \in [Consumers \cup Failers -> Nat] /\ CallsOK
  BY <1>1 DEF Typed, CallsOK
<1>6. CallsOK' /\ Moved(p, "enqueueBatch", Tail(s))
  BY <1>1, <1>3, <1>4, <1>5, CallMoves
<1>7. RowsOK' /\ Inserted(s[1])
  <2>1. /\ live' \in [Jobs -> Row] /\ late' \in SUBSET Jobs
        /\ seen' \in [Jobs -> SUBSET (Statuses \cup {"none"})]
    BY <1>1, <1>3, InsertTypes DEF Typed
  <2>2. waiting' \in SUBSET Jobs /\ stored' \in [Jobs -> Row]
    BY <1>1, <1>3 DEF Typed, RowsOK
  <2>3. Inserted(s[1])
    BY <1>1, <1>3 DEF Insert, Inserted, Typed, RowsOK
  <2> QED
    BY <2>1, <2>2, <2>3 DEF RowsOK
<1>8. RingOK' /\ Fills(due)
  BY <1>1, <1>2, PushKeepsRing DEF Typed
<1>9. HeldOK'
  BY <1>1 DEF Typed, HeldOK
<1>10. CountsOK'
  BY <1>1, <1>3 DEF Typed, CountsOK, faults
<1> QED
  BY <1>1, <1>2, <1>6, <1>7, <1>8, <1>9, <1>10 DEF Typed

LEMMA EnqueueRingDoes ==
  ASSUME Typed, NEW p \in Producers, EnqueueRing(p)
  PROVE  /\ Typed' /\ pc[p] = "enqueue" /\ Fills(todo[p]) /\ Moved(p, "idle", <<>>)
         /\ UNCHANGED <<rows, held, delivered, known, faults, arg>>
<1> USE CallerKinds
<1>1. /\ pc[p] = "enqueue" /\ RingPush(todo[p])
      /\ pc' = [pc EXCEPT ![p] = "idle"] /\ todo' = [todo EXCEPT ![p] = <<>>]
      /\ UNCHANGED <<rows, arg, held, known, delivered, faults>>
  BY DEF EnqueueRing
<1>2. "idle" \in PCs /\ Fits("idle", <<>>) /\ <<>> \in Seq(Jobs)
  BY DEF PCs, Fits
<1>3. arg' \in [Consumers \cup Failers -> Nat] /\ CallsOK /\ todo[p] \in Seq(Jobs)
  BY <1>1 DEF Typed, CallsOK
<1>4. CallsOK' /\ Moved(p, "idle", <<>>)
  BY <1>1, <1>2, <1>3, CallMoves
<1>5. RingOK' /\ Fills(todo[p])
  BY <1>1, <1>3, PushKeepsRing DEF Typed
<1>6. RowsOK' /\ HeldOK' /\ CountsOK'
  BY <1>1 DEF Typed, RowsOK, HeldOK, CountsOK, faults, rows
<1> QED
  BY <1>1, <1>4, <1>5, <1>6 DEF Typed

LEMMA EnqueueNextDoes ==
  ASSUME Typed, NEW p \in Producers, EnqueueNext(p)
  PROVE  /\ Typed' /\ pc[p] = "enqueueBatch"
         /\ UNCHANGED <<stored, ring, held, delivered, known, faults, arg>>
         /\ \/ todo[p] = <<>> /\ Moved(p, "idle", <<>>) /\ RowsStay
            \/ /\ todo[p] # <<>> /\ Moved(p, "enqueueBatch", Tail(todo[p]))
               /\ Inserted(todo[p][1])
<1> USE CallerKinds
<1>1. /\ pc[p] = "enqueueBatch"
      /\ UNCHANGED <<stored, waiting, ring, arg, held, known, delivered, faults>>
  BY DEF EnqueueNext
<1>2. arg' \in [Consumers \cup Failers -> Nat] /\ CallsOK /\ todo[p] \in Seq(Jobs)
  BY <1>1 DEF Typed, CallsOK
<1>3. RingOK'
  BY <1>1, RingStays DEF Typed
<1>4. HeldOK' /\ CountsOK'
  BY <1>1 DEF Typed, HeldOK, CountsOK, faults
<1>5. CASE todo[p] = <<>>
  <2>1. pc' = [pc EXCEPT ![p] = "idle"] /\ UNCHANGED <<live, seen, late, todo>>
    BY <1>5 DEF EnqueueNext
  <2>2. todo' = [todo EXCEPT ![p] = <<>>]
    BY <1>5, <2>1 DEF Typed, CallsOK
  <2>3. "idle" \in PCs /\ Fits("idle", <<>>) /\ <<>> \in Seq(Jobs)
    BY DEF PCs, Fits
  <2>4. CallsOK' /\ Moved(p, "idle", <<>>)
    BY <1>2, <2>1, <2>2, <2>3, CallMoves
  <2>5. RowsOK' /\ RowsStay
    BY <1>1, <2>1 DEF Typed, RowsOK, RowsStay
  <2> QED
    BY <1>1, <1>3, <1>4, <1>5, <2>4, <2>5 DEF Typed
<1>6. CASE todo[p] # <<>>
  <2>1. Insert(todo[p][1]) /\ todo' = [todo EXCEPT ![p] = Tail(todo[p])] /\ UNCHANGED pc
    BY <1>6 DEF EnqueueNext
  <2>2. pc' = [pc EXCEPT ![p] = "enqueueBatch"]
    BY <1>1, <2>1 DEF Typed, CallsOK
  <2>3. todo[p][1] \in Jobs /\ Tail(todo[p]) \in Seq(Jobs)
    BY <1>2, <1>6
  <2>4. "enqueueBatch" \in PCs /\ Fits("enqueueBatch", Tail(todo[p]))
    BY DEF PCs, Fits
  <2>5. CallsOK' /\ Moved(p, "enqueueBatch", Tail(todo[p]))
    BY <1>2, <2>1, <2>2, <2>3, <2>4, CallMoves
  <2>6. /\ live' \in [Jobs -> Row] /\ late' \in SUBSET Jobs
        /\ seen' \in [Jobs -> SUBSET (Statuses \cup {"none"})]
    BY <2>1, <2>3, InsertTypes DEF Typed
  <2>7. RowsOK'
    BY <1>1, <2>6 DEF Typed, RowsOK
  <2>8. Inserted(todo[p][1])
    BY <2>1, <2>3 DEF Insert, Inserted, Typed, RowsOK
  <2> QED
    BY <1>1, <1>3, <1>4, <1>6, <2>5, <2>7, <2>8 DEF Typed
<1> QED
  BY <1>5, <1>6

LEMMA RingFirstIsAsLong ==
  ASSUME NEW n \in Nat
  PROVE  Len(RingFirst(n)) = n
<1>1. PICK S : S = {slots[(head + i - 1) % RingSlots] : i \in 1 .. n}
  OBVIOUS
<1>2. RingFirst(n) \in [1 .. n -> S]
  BY <1>1 DEF RingFirst
<1> QED
  BY <1>2

LEMMA DequeueRingDoes ==
  ASSUME Typed, NEW c \in Consumers, NEW limit \in Nat, DequeueRing(c, limit)
  PROVE  /\ Typed' /\ pc[c] = "idle" /\ UNCHANGED <<stored, waiting, calls, known, faults>>
         /\ \E s \in Seq(Jobs) :
              /\ Takes(s) /\ Delivered(c, s)
              /\ \A j \in Jobs : Updated(j, j \in Range(s), "processing", 1)
<1>1. PICK n : n = MinOf(limit, Size)
  OBVIOUS
<1>2. Size \in Nat
  BY SizeIs DEF Typed, RingOK, Indices
<1>3. n \in Nat /\ n <= Size
  BY <1>1, <1>2 DEF MinOf
<1>4. PICK s : s = RingFirst(n)
  OBVIOUS
<1>5. Len(s) = n
  BY <1>3, <1>4, RingFirstIsAsLong
<1>6. /\ pc[c] = "idle" /\ RingPop(Len(s)) /\ Update(Range(s), "processing", 1) /\ Deliver(c, s)
      /\ UNCHANGED <<stored, waiting, calls, known, faults>>
  BY <1>1, <1>4 DEF DequeueRing
<1>7. RingPop(n)
  BY <1>5, <1>6
<1>8. RingOK' /\ s \in Seq(Jobs) /\ Takes(s)
  BY <1>3, <1>4, <1>7, PopKeepsRing DEF Typed
<1>9. HeldOK' /\ Delivered(c, s)
  BY <1>6, <1>8, DeliverTypes DEF Typed
<1>10. "processing" \in Statuses /\ 1 \in Nat
  BY DEF Statuses
<1>11. /\ live' \in [Jobs -> Row] /\ late' \in SUBSET Jobs
       /\ seen' \in [Jobs -> SUBSET (Statuses \cup {"none"})]
       /\ \A j \in Jobs : Updated(j, j \in Range(s), "processing", 1)
  BY <1>6, <1>10, UpdateTypes DEF Typed
<1>12. RowsOK' /\ CountsOK'
  BY <1>6, <1>11 DEF Typed, RowsOK, CountsOK, faults
<1>13. CallsOK'
  BY <1>6, CallsStay DEF Typed
<1> QED
  BY <1>6, <1>8, <1>9, <1>11, <1>12, <1>13 DEF Typed

LEMMA DequeueCallDoes ==
  ASSUME Typed, NEW c \in Consumers, NEW limit \in Nat, DequeueCall(c, limit)
  PROVE  /\ Typed' /\ pc[c] = "idle" /\ Size = 0 /\ Moved(c, "select", <<>>)
         /\ UNCHANGED <<rows, ring, held, delivered, known, faults>>
         /\ \A b \in Consumers \cup Failers : b # c => arg'[b] = arg[b]
<1> USE CallerKinds
<1>1. /\ pc[c] = "idle" /\ Size = 0 /\ pc' = [pc EXCEPT ![c] = "select"]
      /\ arg' = [arg EXCEPT ![c] = limit]
      /\ UNCHANGED <<rows, ring, todo, held, known, delivered, faults>>
  BY DEF DequeueCall
<1>2. CallsOK /\ arg' \in [Consumers \cup Failers -> Nat]
  BY <1>1 DEF Typed, CallsOK
<1>3. todo[c] = <<>>
  BY <1>1, <1>2 DEF CallsOK, CallsFit
<1>4. todo' = [todo EXCEPT ![c] = <<>>]
  BY <1>1, <1>2, <1>3 DEF CallsOK
<1>5. "select" \in PCs /\ Fits("select", <<>>) /\ <<>> \in Seq(Jobs)
  BY DEF PCs, Fits
<1>6. CallsOK' /\ Moved(c, "select", <<>>)
  BY <1>1, <1>2, <1>4, <1>5, CallMoves
<1>7. RowsOK' /\ HeldOK' /\ CountsOK'
  BY <1>1 DEF Typed, RowsOK, HeldOK, CountsOK, faults, rows
<1>8. RingOK'
  BY <1>1, RingStays DEF Typed
<1>9. \A b \in Consumers \cup Failers : b # c => arg'[b] = arg[b]
  BY <1>1, <1>2 DEF CallsOK
<1> QED
  BY <1>1, <1>6, <1>7, <1>8, <1>9 DEF Typed

\* What a select of pending rows may find.
Findable(j) ==
  /\ Shows(j, "pending")
  /\ stored[j] = NoRow \/ stored[j].status = "pending"

LEMMA DequeueSelectDoes ==
  ASSUME Typed, NEW c \in Consumers, DequeueSelect(c)
  PROVE  /\ Typed' /\ pc[c] = "select"
         /\ UNCHANGED <<rows, ring, held, delivered, known, faults>>
         /\ \A b \in Consumers \cup Failers : b # c => arg'[b] = arg[b]
         /\ \E s \in Seq(Jobs) :
              /\ Moved(c, IF s = <<>> THEN "idle" ELSE "fill", s)
              /\ Distinct(s) /\ \A j \in Range(s) : Findable(j)
<1> USE CallerKinds
<1>1. PICK onDisk, buffered :
        /\ onDisk = {j \in Jobs : stored[j].status = "pending" /\ j \notin waiting}
        /\ buffered = {j \in Jobs : stored[j] = NoRow /\ Shows(j, "pending") /\ j \notin waiting}
  OBVIOUS
<1>2. /\ pc[c] = "select" /\ UNCHANGED <<rows, ring, held, known, delivered, faults>>
      /\ \E D \in SUBSET onDisk :
          \E s \in Arrangements({j \in D : Shows(j, "pending")} \cup buffered,
                       MinOf(2 * arg[c], Cardinality({j \in D : Shows(j, "pending")} \cup buffered))) :
                  /\ todo' = [todo EXCEPT ![c] = s]
                  /\ pc' = [pc EXCEPT ![c] = IF s = <<>> THEN "idle" ELSE "fill"]
                  /\ arg' = [arg EXCEPT ![c] = IF s = <<>> THEN 0 ELSE arg[c]]
  BY <1>1 DEF DequeueSelect
<1>3. PICK D \in SUBSET onDisk :
        \E s \in Arrangements({j \in D : Shows(j, "pending")} \cup buffered,
                       MinOf(2 * arg[c], Cardinality({j \in D : Shows(j, "pending")} \cup buffered))) :
                  /\ todo' = [todo EXCEPT ![c] = s]
                  /\ pc' = [pc EXCEPT ![c] = IF s = <<>> THEN "idle" ELSE "fill"]
                  /\ arg' = [arg EXCEPT ![c] = IF s = <<>> THEN 0 ELSE arg[c]]
  BY <1>2
<1>4. PICK found : found = {j \in D : Shows(j, "pending")} \cup buffered
  OBVIOUS
<1>5. found \in SUBSET Jobs /\ \A j \in found : Findable(j)
  BY <1>1, <1>4 DEF Findable
<1>6. PICK n : n = MinOf(2 * arg[c], Cardinality(found))
  OBVIOUS
<1>7. n \in Nat
  <2>1. Cardinality(found) \in Nat
    BY <1>5, JobsAreCounted
  <2>2. 2 * arg[c] \in Nat
    BY DEF Typed, CallsOK
  <2> QED
    BY <1>6, <2>1, <2>2 DEF MinOf
<1>8. PICK s \in Arrangements(found, n) :
                  /\ todo' = [todo EXCEPT ![c] = s]
                  /\ pc' = [pc EXCEPT ![c] = IF s = <<>> THEN "idle" ELSE "fill"]
                  /\ arg' = [arg EXCEPT ![c] = IF s = <<>> THEN 0 ELSE arg[c]]
  BY <1>3, <1>4, <1>6
<1>9. s \in Seq(Jobs) /\ Distinct(s) /\ Range(s) \subseteq found
  BY <1>5, <1>7, ArrangementsAreSequences
<1>10. PICK place : place = IF s = <<>> THEN "idle" ELSE "fill"
  OBVIOUS
<1>11. place \in PCs /\ Fits(place, s)
  BY <1>10 DEF PCs, Fits
<1>12. /\ CallsOK /\ arg' \in [Consumers \cup Failers -> Nat]
       /\ \A b \in Consumers \cup Failers : b # c => arg'[b] = arg[b]
  BY <1>8 DEF Typed, CallsOK
<1>13. CallsOK' /\ Moved(c, place, s)
  BY <1>8, <1>9, <1>10, <1>11, <1>12, CallMoves
<1>14. RowsOK' /\ HeldOK' /\ CountsOK'
  BY <1>2 DEF Typed, RowsOK, HeldOK, CountsOK, faults, rows
<1>15. RingOK'
  BY <1>2, RingStays DEF Typed
<1> QED
  BY <1>2, <1>5, <1>9, <1>10, <1>12, <1>13, <1>14, <1>15 DEF Typed

LEMMA DequeueFillDoes ==
  ASSUME Typed, NEW c \in Consumers, DequeueFill(c)
  PROVE  /\ Typed' /\ pc[c] = "fill" /\ Moved(c, "claim", todo[c])
         /\ UNCHANGED <<rows, held, delivered, known, faults, arg>>
         /\ SubSeq(todo[c], arg[c] + 1, Len(todo[c])) \in Seq(Jobs)
         /\ Fills(SubSeq(todo[c], arg[c] + 1, Len(todo[c])))
<1> USE CallerKinds
<1>1. PICK s : s = SubSeq(todo[c], arg[c] + 1, Len(todo[c]))
  OBVIOUS
<1>2. /\ pc[c] = "fill" /\ RingPush(s) /\ pc' = [pc EXCEPT ![c] = "claim"]
      /\ UNCHANGED <<rows, todo, arg, held, known, delivered, faults>>
  BY <1>1 DEF DequeueFill
<1>3. CallsOK /\ todo[c] \in Seq(Jobs) /\ arg[c] \in Nat /\ todo[c] # <<>>
  BY <1>2 DEF Typed, CallsOK, CallsFit
<1>4. s \in Seq(Jobs)
  <2>1. arg[c] + 1 \in Nat /\ arg[c] + 1 >= 1 /\ Len(todo[c]) \in Nat
    BY <1>3
  <2>2. \A i \in arg[c] + 1 .. Len(todo[c]) : todo[c][i] \in Jobs
    BY <1>3
  <2> QED
    BY <1>1, <1>3, <2>1, <2>2, SubSeqProperties
<1>5. RingOK' /\ Fills(s)
  BY <1>2, <1>4, PushKeepsRing DEF Typed
<1>6. todo' = [todo EXCEPT ![c] = todo[c]] /\ arg' \in [Consumers \cup Failers -> Nat]
  BY <1>2, <1>3 DEF CallsOK
<1>7. "claim" \in PCs /\ Fits("claim", todo[c])
  BY <1>3 DEF PCs, Fits
<1>8. CallsOK' /\ Moved(c, "claim", todo[c])
  BY <1>2, <1>3, <1>6, <1>7, CallMoves
<1>9. RowsOK' /\ HeldOK' /\ CountsOK'
  BY <1>2 DEF Typed, RowsOK, HeldOK, CountsOK, faults, rows
<1> QED
  BY <1>1, <1>2, <1>4, <1>5, <1>8, <1>9 DEF Typed

LEMMA DequeueClaimDoes ==
  ASSUME Typed, NEW c \in Consumers, DequeueClaim(c)
  PROVE  /\ Typed' /\ pc[c] = "claim" /\ Moved(c, "idle", <<>>)
         /\ UNCHANGED <<stored, waiting, ring, known, faults>>
         /\ \A b \in Consumers \cup Failers : b # c => arg'[b] = arg[b]
         /\ \A j \in Jobs : Updated(j, j \in Range(todo[c]), "processing", 1)
         /\ \E s \in Seq(Jobs) :
              /\ s = SubSeq(todo[c], 1, MinOf(arg[c], Len(todo[c])))
              /\ Len(s) <= arg[c] /\ Len(s) <= Len(todo[c])
              /\ (\A i \in 1 .. Len(s) : s[i] = todo[c][i])
              /\ Delivered(c, s)
<1> USE CallerKinds
<1>1. PICK n : n = MinOf(arg[c], Len(todo[c]))
  OBVIOUS
<1>2. PICK s : s = SubSeq(todo[c], 1, n)
  OBVIOUS
<1>3. /\ pc[c] = "claim" /\ Update(Range(todo[c]), "processing", 1) /\ Deliver(c, s) /\ Return(c)
      /\ UNCHANGED <<stored, waiting, ring, known, faults>>
  BY <1>1, <1>2 DEF DequeueClaim
<1>4. CallsOK /\ todo[c] \in Seq(Jobs) /\ arg[c] \in Nat
  BY DEF Typed, CallsOK
<1>5. n \in Nat /\ n <= arg[c] /\ n <= Len(todo[c])
  <2>1. Len(todo[c]) \in Nat
    BY <1>4
  <2> QED
    BY <1>1, <1>4, <2>1 DEF MinOf
<1>6. s \in Seq(Jobs) /\ Len(s) = n /\ \A i \in 1 .. n : s[i] = todo[c][i]
  <2>1. \A i \in 1 .. n : todo[c][i] \in Jobs
    BY <1>4, <1>5
  <2>2. s = [i \in 1 .. n |-> todo[c][i]]
    BY <1>2, <1>4, <1>5
  <2>3. s \in [1 .. n -> Jobs]
    BY <2>1, <2>2
  <2> QED
    BY <1>5, <2>2, <2>3
<1>7. HeldOK' /\ Delivered(c, s)
  BY <1>3, <1>6, DeliverTypes DEF Typed
<1>8. "processing" \in Statuses /\ 1 \in Nat
  BY DEF Statuses
<1>9. /\ live' \in [Jobs -> Row] /\ late' \in SUBSET Jobs
      /\ seen' \in [Jobs -> SUBSET (Statuses \cup {"none"})]
      /\ \A j \in Jobs : Updated(j, j \in Range(todo[c]), "processing", 1)
  BY <1>3, <1>8, UpdateTypes DEF Typed
<1>10. RowsOK' /\ CountsOK'
  BY <1>3, <1>9 DEF Typed, RowsOK, CountsOK, faults
<1>11. CallsOK' /\ Moved(c, "idle", <<>>)
  BY <1>3, <1>4, CallReturns
<1>12. RingOK'
  BY <1>3, RingStays DEF Typed
<1>13. \A b \in Consumers \cup Failers : b # c => arg'[b] = arg[b]
  BY <1>3 DEF Return
<1> QED
  BY <1>1, <1>2, <1>3, <1>5, <1>6, <1>7, <1>9, <1>10, <1>11, <1>12, <1>13 DEF Typed

LEMMA CompleteDoes ==
  ASSUME Typed, NEW c \in Consumers, NEW js \in SUBSET Jobs, Complete(c, js)
  PROVE  /\ Typed' /\ \A j \in js : held[c][j] > 0
         /\ UNCHANGED <<stored, waiting, ring, calls, known, delivered, faults>>
         /\ \A j \in Jobs :
              /\ Updated(j, j \in js, "done", 0)
              /\ held'[c][j] = IF j \in js THEN held[c][j] - 1 ELSE held[c][j]
              /\ \A b \in Consumers : b # c => held'[b][j] = held[b][j]
<1>1. /\ \A j \in js : held[c][j] > 0
      /\ Update(js, "done", 0) /\ Finish(c, js)
      /\ UNCHANGED <<stored, waiting, ring, calls, known, delivered, faults>>
  BY DEF Complete
<1>2. "done" \in Statuses /\ 0 \in Nat
  BY DEF Statuses
<1>3. /\ live' \in [Jobs -> Row] /\ late' \in SUBSET Jobs
      /\ seen' \in [Jobs -> SUBSET (Statuses \cup {"none"})]
      /\ \A j \in Jobs : Updated(j, j \in js, "done", 0)
  BY <1>1, <1>2, UpdateTypes DEF Typed
<1>4. \A j \in js : j \in Jobs /\ held[c][j] > 0
  BY <1>1
<1>5. /\ held' \in [Consumers -> [Jobs -> Nat]]
      /\ \A j \in Jobs : /\ held'[c][j] = IF j \in js THEN held[c][j] - 1 ELSE held[c][j]
                         /\ \A b \in Consumers : b # c => held'[b][j] = held[b][j]
  BY <1>1, <1>4, FinishTypes DEF Typed
<1>6. RowsOK' /\ CountsOK' /\ HeldOK'
  BY <1>1, <1>3, <1>5 DEF Typed, RowsOK, CountsOK, HeldOK, faults
<1>7. CallsOK'
  BY <1>1, CallsStay DEF Typed
<1>8. RingOK'
  BY <1>1, RingStays DEF Typed
<1> QED
  BY <1>1, <1>3, <1>5, <1>6, <1>7, <1>8 DEF Typed

LEMMA FailReadDoes ==
  ASSUME Typed, NEW f \in Failers, NEW c \in Consumers, NEW j \in Jobs, FailRead(f, c, j)
  PROVE  /\ Typed' /\ pc[f] = "idle" /\ held[c][j] > 0
         /\ UNCHANGED <<rows, ring, known, delivered, faults>>
         /\ \A k \in Jobs :
              /\ held'[c][k] = IF k = j THEN held[c][k] - 1 ELSE held[c][k]
              /\ \A b \in Consumers : b # c => held'[b][k] = held[b][k]
         /\ \A b \in Consumers \cup Failers : b # f => arg'[b] = arg[b]
         /\ \/ live[j] = NoRow /\ UNCHANGED calls
            \/ live[j] # NoRow /\ Moved(f, "fail", <<j>>) /\ arg'[f] = live[j].attempts
<1> USE CallerKinds
<1>1. /\ pc[f] = "idle" /\ held[c][j] > 0 /\ Finish(c, {j})
      /\ UNCHANGED <<rows, ring, known, delivered, faults>>
  BY DEF FailRead
<1>2. \A k \in {j} : k \in Jobs /\ held[c][k] > 0
  BY <1>1
<1>3. /\ held' \in [Consumers -> [Jobs -> Nat]]
      /\ \A k \in Jobs : /\ held'[c][k] = IF k \in {j} THEN held[c][k] - 1 ELSE held[c][k]
                         /\ \A b \in Consumers : b # c => held'[b][k] = held[b][k]
  BY <1>1, <1>2, FinishTypes DEF Typed
<1>4. RowsOK' /\ CountsOK' /\ HeldOK'
  BY <1>1, <1>3 DEF Typed, RowsOK, CountsOK, HeldOK, faults, rows
<1>5. RingOK'
  BY <1>1, RingStays DEF Typed
<1>6. CASE live[j] = NoRow
  <2>1. UNCHANGED calls
    BY <1>6 DEF FailRead
  <2>2. CallsOK'
    BY <2>1, CallsStay DEF Typed
  <2>3. \A b \in Consumers \cup Failers : b # f => arg'[b] = arg[b]
    BY <2>1 DEF calls
  <2> QED
    BY <1>1, <1>3, <1>4, <1>5, <1>6, <2>1, <2>2, <2>3 DEF Typed
<1>7. CASE live[j] # NoRow
  <2>1. /\ arg' = [arg EXCEPT ![f] = live[j].attempts] /\ todo' = [todo EXCEPT ![f] = <<j>>]
        /\ pc' = [pc EXCEPT ![f] = "fail"]
    BY <1>7 DEF FailRead
  <2>2. live[j].attempts \in Nat
    BY DEF Typed, RowsOK, Row
  <2>3. /\ CallsOK /\ arg' \in [Consumers \cup Failers -> Nat] /\ arg'[f] = live[j].attempts
        /\ \A b \in Consumers \cup Failers : b # f => arg'[b] = arg[b]
    BY <2>1, <2>2 DEF Typed, CallsOK
  <2>4. "fail" \in PCs /\ Fits("fail", <<j>>) /\ <<j>> \in Seq(Jobs)
    BY DEF PCs, Fits
  <2>5. CallsOK' /\ Moved(f, "fail", <<j>>)
    BY <2>1, <2>3, <2>4, CallMoves
  <2> QED
    BY <1>1, <1>3, <1>4, <1>5, <1>7, <2>3, <2>5 DEF Typed
<1> QED
  BY <1>6, <1>7

LEMMA FailPushDoes ==
  ASSUME Typed, NEW f \in Failers, FailPush(f)
  PROVE  /\ Typed' /\ pc[f] = "fail" /\ Moved(f, "idle", <<>>)
         /\ UNCHANGED <<stored, ring, held, delivered, known, faults>>
         /\ \A b \in Consumers \cup Failers : b # f => arg'[b] = arg[b]
         /\ \E j \in Jobs :
              /\ todo[f] = <<j>>
              /\ \/ /\ arg[f] < MaxAttempts
                    /\ \A k \in Jobs : Updated(k, k \in {j}, "pending", 0)
                 \/ /\ arg[f] >= MaxAttempts
                    /\ \A k \in Jobs : Updated(k, k \in {j}, "failed", 0)
<1> USE CallerKinds
<1>1. PICK j : j = todo[f][1]
  OBVIOUS
<1>2. /\ pc[f] = "fail" /\ Return(f) /\ UNCHANGED <<stored, ring, held, known, delivered, faults>>
      /\ IF arg[f] < MaxAttempts
         THEN Update({j}, "pending", 0) /\ waiting' = waiting \cup {j}
         ELSE Update({j}, "failed", 0) /\ UNCHANGED waiting
  BY <1>1 DEF FailPush
<1>3. CallsOK /\ todo[f] \in Seq(Jobs) /\ arg[f] \in Nat /\ Len(todo[f]) = 1
  BY <1>2 DEF Typed, CallsOK, CallsFit
<1>4. j \in Jobs /\ todo[f] = <<j>>
  BY <1>1, <1>3
<1>5. CallsOK' /\ Moved(f, "idle", <<>>)
  BY <1>2, <1>3, CallReturns
<1>6. RingOK'
  BY <1>2, RingStays DEF Typed
<1>7. CountsOK' /\ HeldOK'
  BY <1>2 DEF Typed, CountsOK, HeldOK, faults
<1>8. \A b \in Consumers \cup Failers : b # f => arg'[b] = arg[b]
  BY <1>2 DEF Return
<1>9. "pending" \in Statuses /\ "failed" \in Statuses /\ 0 \in Nat
  BY DEF Statuses
<1>10. CASE arg[f] < MaxAttempts
  <2>1. Update({j}, "pending", 0) /\ waiting' = waiting \cup {j}
    BY <1>2, <1>10
  <2>2. /\ live' \in [Jobs -> Row] /\ late' \in SUBSET Jobs
        /\ seen' \in [Jobs -> SUBSET (Statuses \cup {"none"})]
        /\ \A k \in Jobs : Updated(k, k \in {j}, "pending", 0)
    BY <1>9, <2>1, UpdateTypes DEF Typed
  <2>3. RowsOK'
    BY <1>2, <1>4, <2>1, <2>2 DEF Typed, RowsOK
  <2> QED
    BY <1>2, <1>4, <1>5, <1>6, <1>7, <1>8, <1>10, <2>2, <2>3 DEF Typed
<1>11. CASE ~(arg[f] < MaxAttempts)
  <2>1. Update({j}, "failed", 0) /\ UNCHANGED waiting
    BY <1>2, <1>11
  <2>2. /\ live' \in [Jobs -> Row] /\ late' \in SUBSET Jobs
        /\ seen' \in [Jobs -> SUBSET (Statuses \cup {"none"})]
        /\ \A k \in Jobs : Updated(k, k \in {j}, "failed", 0)
    BY <1>9, <2>1, UpdateTypes DEF Typed
  <2>3. RowsOK'
    BY <1>2, <2>1, <2>2 DEF Typed, RowsOK
  <2>4. arg[f] >= MaxAttempts
    BY <1>3, <1>11
  <2> QED
    BY <1>2, <1>4, <1>5, <1>6, <1>7, <1>8, <2>2, <2>3, <2>4 DEF Typed
<1> QED
  BY <1>10, <1>11

LEMMA ReclaimSelectDoes ==
  ASSUME Typed, NEW m \in Maintainers, ReclaimSelect(m)
  PROVE  /\ Typed' /\ pc[m] = "idle" /\ UNCHANGED <<rows, ring, arg, held, delivered, known, faults>>
         /\ \E s \in Seq(Jobs) :
              /\ Moved(m, "reclaim", s) /\ Distinct(s)
              /\ \A j \in Range(s) : j \in late /\ Shows(j, "processing")
<1> USE CallerKinds
<1>1. PICK S : S = {j \in late : Shows(j, "processing")}
  OBVIOUS
<1>2. /\ pc[m] = "idle" /\ pc' = [pc EXCEPT ![m] = "reclaim"]
      /\ UNCHANGED <<rows, ring, arg, held, known, delivered, faults>>
      /\ \E s \in Arrangements(S, Cardinality(S)) : todo' = [todo EXCEPT ![m] = s]
  BY <1>1 DEF ReclaimSelect
<1>3. S \in SUBSET Jobs
  BY <1>1 DEF Typed, RowsOK
<1>4. Cardinality(S) \in Nat
  BY <1>3, JobsAreCounted
<1>5. PICK s \in Arrangements(S, Cardinality(S)) : todo' = [todo EXCEPT ![m] = s]
  BY <1>2
<1>6. s \in Seq(Jobs) /\ Distinct(s) /\ Range(s) \subseteq S
  BY <1>3, <1>4, ArrangementsAreSequences
<1>7. CallsOK /\ arg' \in [Consumers \cup Failers -> Nat] /\ "reclaim" \in PCs /\ Fits("reclaim", s)
  BY <1>2 DEF Typed, CallsOK, PCs, Fits
<1>8. CallsOK' /\ Moved(m, "reclaim", s)
  BY <1>2, <1>5, <1>6, <1>7, CallMoves
<1>9. RowsOK' /\ HeldOK' /\ CountsOK'
  BY <1>2 DEF Typed, RowsOK, HeldOK, CountsOK, faults, rows
<1>10. RingOK'
  BY <1>2, RingStays DEF Typed
<1> QED
  BY <1>1, <1>2, <1>6, <1>8, <1>9, <1>10 DEF Typed

LEMMA ReclaimDoes ==
  ASSUME Typed, NEW m \in Maintainers, Reclaim(m)
  PROVE  /\ Typed' /\ pc[m] = "reclaim" /\ todo[m] # <<>>
         /\ Moved(m, "reclaim", Tail(todo[m]))
         /\ UNCHANGED <<stored, waiting, ring, arg, held, delivered, known, faults>>
         /\ \A k \in Jobs : Updated(k, k \in {todo[m][1]}, "pending", 0)
<1> USE CallerKinds
<1>1. /\ pc[m] = "reclaim" /\ todo[m] # <<>> /\ Update({todo[m][1]}, "pending", 0)
      /\ todo' = [todo EXCEPT ![m] = Tail(todo[m])]
      /\ UNCHANGED <<stored, waiting, ring, pc, arg, held, known, delivered, faults>>
  BY DEF Reclaim
<1>2. CallsOK /\ arg' \in [Consumers \cup Failers -> Nat] /\ todo[m] \in Seq(Jobs)
  BY <1>1 DEF Typed, CallsOK
<1>3. pc' = [pc EXCEPT ![m] = "reclaim"]
  BY <1>1, <1>2 DEF CallsOK
<1>4. Tail(todo[m]) \in Seq(Jobs) /\ "reclaim" \in PCs /\ Fits("reclaim", Tail(todo[m]))
  BY <1>1, <1>2 DEF PCs, Fits
<1>5. CallsOK' /\ Moved(m, "reclaim", Tail(todo[m]))
  BY <1>1, <1>2, <1>3, <1>4, CallMoves
<1>6. "pending" \in Statuses /\ 0 \in Nat
  BY DEF Statuses
<1>7. /\ live' \in [Jobs -> Row] /\ late' \in SUBSET Jobs
      /\ seen' \in [Jobs -> SUBSET (Statuses \cup {"none"})]
      /\ \A k \in Jobs : Updated(k, k \in {todo[m][1]}, "pending", 0)
  BY <1>1, <1>6, UpdateTypes DEF Typed
<1>8. RowsOK' /\ HeldOK' /\ CountsOK'
  BY <1>1, <1>7 DEF Typed, RowsOK, HeldOK, CountsOK, faults
<1>9. RingOK'
  BY <1>1, RingStays DEF Typed
<1> QED
  BY <1>1, <1>5, <1>7, <1>8, <1>9 DEF Typed

LEMMA PruneSelectDoes ==
  ASSUME Typed, NEW m \in Maintainers, PruneSelect(m)
  PROVE  /\ Typed' /\ pc[m] = "reclaim" /\ todo[m] = <<>>
         /\ UNCHANGED <<rows, ring, arg, held, delivered, known, faults>>
         /\ \E s \in Seq(Jobs) :
              /\ Moved(m, IF s = <<>> THEN "idle" ELSE "commit", s)
              /\ \A j \in Range(s) : j \in late /\ Shows(j, "done")
<1> USE CallerKinds
<1>1. PICK S : S = {j \in late : Shows(j, "done")}
  OBVIOUS
<1>2. /\ pc[m] = "reclaim" /\ todo[m] = <<>>
      /\ UNCHANGED <<rows, ring, arg, held, known, delivered, faults>>
      /\ \E s \in Arrangements(S, Cardinality(S)) :
           /\ todo' = [todo EXCEPT ![m] = s]
           /\ pc' = [pc EXCEPT ![m] = IF s = <<>> THEN "idle" ELSE "commit"]
  BY <1>1 DEF PruneSelect
<1>3. S \in SUBSET Jobs
  BY <1>1 DEF Typed, RowsOK
<1>4. Cardinality(S) \in Nat
  BY <1>3, JobsAreCounted
<1>5. PICK s \in Arrangements(S, Cardinality(S)) :
           /\ todo' = [todo EXCEPT ![m] = s]
           /\ pc' = [pc EXCEPT ![m] = IF s = <<>> THEN "idle" ELSE "commit"]
  BY <1>2
<1>6. s \in Seq(Jobs) /\ Range(s) \subseteq S
  BY <1>3, <1>4, ArrangementsAreSequences
<1>7. PICK place : place = IF s = <<>> THEN "idle" ELSE "commit"
  OBVIOUS
<1>8. CallsOK /\ arg' \in [Consumers \cup Failers -> Nat] /\ place \in PCs /\ Fits(place, s)
  BY <1>2, <1>7 DEF Typed, CallsOK, PCs, Fits
<1>9. CallsOK' /\ Moved(m, place, s)
  BY <1>5, <1>6, <1>7, <1>8, CallMoves
<1>10. RowsOK' /\ HeldOK' /\ CountsOK'
  BY <1>2 DEF Typed, RowsOK, HeldOK, CountsOK, faults, rows
<1>11. RingOK'
  BY <1>2, RingStays DEF Typed
<1> QED
  BY <1>1, <1>2, <1>6, <1>7, <1>9, <1>10, <1>11 DEF Typed

LEMMA PruneDoes ==
  ASSUME Typed, NEW m \in Maintainers, Prune(m)
  PROVE  /\ Typed' /\ pc[m] \in {"commit", "prune"} /\ todo[m] # <<>> /\ todo[m][1] \in Jobs
         /\ UNCHANGED <<stored, waiting, late, ring, arg, held, delivered, known, faults>>
         /\ Moved(m, IF Len(todo[m]) = 1 THEN "idle" ELSE "prune", Tail(todo[m]))
         /\ live'[todo[m][1]] = NoRow /\ seen'[todo[m][1]] = {"none"}
         /\ \A k \in Jobs : k # todo[m][1] => live'[k] = live[k] /\ seen'[k] = seen[k]
<1> USE CallerKinds
<1>1. PICK j : j = todo[m][1]
  OBVIOUS
<1>2. /\ pc[m] \in {"commit", "prune"} /\ live' = [live EXCEPT ![j] = NoRow]
      /\ seen' = [seen EXCEPT ![j] = {"none"}] /\ todo' = [todo EXCEPT ![m] = Tail(todo[m])]
      /\ pc' = [pc EXCEPT ![m] = IF Len(todo[m]) = 1 THEN "idle" ELSE "prune"]
      /\ UNCHANGED <<stored, waiting, late, ring, arg, held, known, delivered, faults>>
  BY <1>1 DEF Prune
<1>3. CallsOK /\ arg' \in [Consumers \cup Failers -> Nat] /\ todo[m] \in Seq(Jobs) /\ todo[m] # <<>>
  BY <1>2 DEF Typed, CallsOK, CallsFit
<1>4. j \in Jobs /\ Tail(todo[m]) \in Seq(Jobs)
  BY <1>1, <1>3
<1>5. PICK place : place = IF Len(todo[m]) = 1 THEN "idle" ELSE "prune"
  OBVIOUS
<1>6. Len(todo[m]) = 1 <=> Tail(todo[m]) = <<>>
  <2>1. PICK l \in Nat : l = Len(todo[m])
    BY <1>3
  <2>2. l # 0
    BY <1>3, <2>1, EmptySeq
  <2>3. Tail(todo[m]) \in Seq(Jobs) /\ Len(Tail(todo[m])) = l - 1
    BY <1>3, <2>1, HeadTailProperties
  <2>4. Tail(todo[m]) = <<>> <=> Len(Tail(todo[m])) = 0
    BY <2>3, EmptySeq
  <2> QED
    BY <2>1, <2>2, <2>3, <2>4
<1>7. place \in PCs /\ Fits(place, Tail(todo[m]))
  BY <1>5, <1>6 DEF PCs, Fits
<1>8. CallsOK' /\ Moved(m, place, Tail(todo[m]))
  BY <1>2, <1>3, <1>4, <1>5, <1>7, CallMoves
<1>9. RowsOK'
  BY <1>2, <1>4, RowsAreRows DEF Typed, RowsOK
<1>10. HeldOK' /\ CountsOK'
  BY <1>2 DEF Typed, HeldOK, CountsOK, faults
<1>11. RingOK'
  BY <1>2, RingStays DEF Typed
<1>12. /\ live'[j] = NoRow /\ seen'[j] = {"none"}
       /\ \A k \in Jobs : k # j => live'[k] = live[k] /\ seen'[k] = seen[k]
  BY <1>2, <1>4 DEF Typed, RowsOK
<1> QED
  BY <1>1, <1>2, <1>3, <1>4, <1>5, <1>8, <1>9, <1>10, <1>11, <1>12 DEF Typed

LEMMA DueDoes ==
  ASSUME Typed, NEW j \in Jobs, Due(j)
  PROVE  Typed' /\ UNCHANGED <<live, stored, seen, late, ring, calls, held, known, delivered, faults>>
<1>1. /\ waiting' = waiting \ {j}
      /\ UNCHANGED <<live, stored, seen, late, ring, calls, held, known, delivered, faults>>
  BY DEF Due
<1>2. RowsOK' /\ HeldOK' /\ CountsOK'
  BY <1>1 DEF Typed, RowsOK, HeldOK, CountsOK, faults
<1>3. RingOK'
  BY <1>1, RingStays DEF Typed
<1>4. CallsOK'
  BY <1>1, CallsStay DEF Typed
<1> QED
  BY <1>1, <1>2, <1>3, <1>4 DEF Typed

LEMMA StaleDoes ==
  ASSUME Typed, NEW j \in Jobs, Stale(j)
  PROVE  /\ Typed' /\ live[j].status = "processing" /\ j \notin late /\ late' = late \cup {j}
         /\ UNCHANGED <<live, stored, seen, ring, calls, held, known, delivered, timeouts, crashes>>
         /\ slow' \in {slow, slow + 1}
         /\ Busy(j) => slow' = slow + 1
<1>1. /\ live[j].status = "processing" /\ j \notin late /\ late' = late \cup {j}
      /\ IF Busy(j) THEN slow < MaxSlow /\ slow' = slow + 1 ELSE UNCHANGED slow
      /\ UNCHANGED <<live, stored, seen, waiting, ring, calls, held, known, delivered, timeouts, crashes>>
  BY DEF Stale
<1>2. slow' \in {slow, slow + 1} /\ (Busy(j) => slow' = slow + 1)
  BY <1>1
<1>3. RowsOK' /\ HeldOK' /\ CountsOK'
  BY <1>1, <1>2 DEF Typed, RowsOK, HeldOK, CountsOK
<1>4. RingOK'
  BY <1>1, RingStays DEF Typed
<1>5. CallsOK'
  BY <1>1, CallsStay DEF Typed
<1> QED
  BY <1>1, <1>2, <1>3, <1>4, <1>5 DEF Typed

LEMMA OldDoes ==
  ASSUME Typed, NEW j \in Jobs, Old(j)
  PROVE  /\ Typed' /\ live[j].status = "done" /\ j \notin late /\ late' = late \cup {j}
         /\ ~Busy(j)
         /\ UNCHANGED <<live, stored, seen, ring, calls, held, known, delivered, faults>>
<1>1. /\ live[j].status = "done" /\ j \notin late /\ late' = late \cup {j} /\ ~Busy(j)
      /\ UNCHANGED <<live, stored, seen, waiting, ring, calls, held, known, delivered, faults>>
  BY DEF Old
<1>2. RowsOK' /\ HeldOK' /\ CountsOK'
  BY <1>1 DEF Typed, RowsOK, HeldOK, CountsOK, faults
<1>3. RingOK'
  BY <1>1, RingStays DEF Typed
<1>4. CallsOK'
  BY <1>1, CallsStay DEF Typed
<1> QED
  BY <1>1, <1>2, <1>3, <1>4 DEF Typed

LEMMA PersistDoes ==
  ASSUME Typed, Persist
  PROVE  /\ Typed' /\ stored' = live
         /\ \A j \in Jobs : seen'[j] = IF live[j] = NoRow THEN {} ELSE {live[j].status}
         /\ UNCHANGED <<live, late, ring, calls, held, known, delivered, faults>>
<1>1. /\ stored' = live
      /\ seen' = [j \in Jobs |-> IF live[j] = NoRow THEN {} ELSE {live[j].status}]
      /\ UNCHANGED <<live, waiting, late, ring, calls, held, known, delivered, faults>>
  BY DEF Persist
<1>2. RowsOK'
  <2>1. \A j \in Jobs : live[j].status \in Statuses \cup {"none"}
    BY DEF Typed, RowsOK, Row
  <2>2. seen' \in [Jobs -> SUBSET (Statuses \cup {"none"})]
    BY <1>1, <2>1
  <2> QED
    BY <1>1, <2>2 DEF Typed, RowsOK
<1>3. HeldOK' /\ CountsOK'
  BY <1>1 DEF Typed, HeldOK, CountsOK, faults
<1>4. RingOK'
  BY <1>1, RingStays DEF Typed
<1>5. CallsOK'
  BY <1>1, CallsStay DEF Typed
<1> QED
  BY <1>1, <1>2, <1>3, <1>4, <1>5 DEF Typed

LEMMA CallTimeoutDoes ==
  ASSUME Typed, NEW p \in Callers, CallTimeout(p)
  PROVE  /\ Typed' /\ Moved(p, "idle", <<>>)
         /\ UNCHANGED <<rows, ring, held, known, delivered, slow, crashes>>
         /\ \A b \in Consumers \cup Failers : b # p => arg'[b] = arg[b]
<1>1. /\ timeouts' = timeouts + 1 /\ Return(p)
      /\ UNCHANGED <<rows, ring, held, known, delivered, slow, crashes>>
  BY DEF CallTimeout
<1>2. RowsOK' /\ HeldOK' /\ CountsOK'
  BY <1>1 DEF Typed, RowsOK, HeldOK, CountsOK, rows
<1>3. RingOK'
  BY <1>1, RingStays DEF Typed
<1>4. CallsOK' /\ Moved(p, "idle", <<>>)
  BY <1>1, CallReturns DEF Typed
<1>5. \A b \in Consumers \cup Failers : b # p => arg'[b] = arg[b]
  BY <1>1 DEF Return
<1> QED
  BY <1>1, <1>2, <1>3, <1>4, <1>5 DEF Typed

LEMMA CrashDoes ==
  ASSUME Typed, Crash
  PROVE  /\ Typed' /\ live' = stored /\ crashes' = crashes + 1
         /\ \A j \in Jobs : seen'[j] = IF stored[j] = NoRow THEN {} ELSE {stored[j].status}
         /\ \A i \in Indices : slots'[i] = NoJob
         /\ \A p \in Callers : pc'[p] = "idle" /\ todo'[p] = <<>>
         /\ \A j \in Jobs : delivered'[j] = 0 /\ \A c \in Consumers : held'[c][j] = 0
         /\ UNCHANGED <<stored, late, known, slow>>
<1>1. /\ crashes' = crashes + 1 /\ live' = stored
      /\ seen' = [j \in Jobs |-> IF stored[j] = NoRow THEN {} ELSE {stored[j].status}]
      /\ slots' = [i \in Indices |-> NoJob] /\ head' = 0 /\ tail' = 0
      /\ pc' = [p \in Callers |-> "idle"]
      /\ todo' = [p \in Callers |-> <<>>] /\ arg' = [c \in Consumers \cup Failers |-> 0]
      /\ held' = [c \in Consumers |-> [j \in Jobs |-> 0]]
      /\ delivered' = [j \in Jobs |-> 0]
      /\ UNCHANGED <<stored, waiting, late, known, slow, timeouts>>
  BY DEF Crash
<1>2. RowsOK'
  <2>1. \A j \in Jobs : stored[j].status \in Statuses \cup {"none"}
    BY DEF Typed, RowsOK, Row
  <2>2. seen' \in [Jobs -> SUBSET (Statuses \cup {"none"})]
    BY <1>1, <2>1
  <2> QED
    BY <1>1, <2>2 DEF Typed, RowsOK
<1>3. HeldOK' /\ CountsOK'
  BY <1>1 DEF Typed, HeldOK, CountsOK
<1>4. RingOK'
  <2>1. 0 \in Indices
    BY DEF Indices
  <2>2. Offset(0, 0) = 0
    BY <2>1, OffsetIs
  <2>3. Size' = 0
    BY <1>1, <2>2 DEF Size, Offset
  <2>4. \A i \in Indices : Offset(i, 0) \in Indices
    BY <2>1, OffsetIs
  <2>5. \A i \in Indices : ~(Offset(i, 0) < 0)
    BY <2>4 DEF Indices
  <2>6. RingHoldsSize'
    BY <1>1, <2>3, <2>5 DEF RingHoldsSize, Offset
  <2> QED
    BY <1>1, <2>1, <2>6 DEF RingOK
<1>5. CallsOK'
  BY <1>1 DEF CallsOK, CallsFit, PCs
<1> QED
  BY <1>1, <1>2, <1>3, <1>4, <1>5 DEF Typed

LEMMA NothingDoes ==
  ASSUME Typed, UNCHANGED vars
  PROVE  Typed'
<1>1. UNCHANGED <<rows, ring, calls, held, known, delivered, faults>>
  BY DEF vars
<1>2. RowsOK' /\ HeldOK' /\ CountsOK'
  BY <1>1 DEF Typed, RowsOK, HeldOK, CountsOK, faults, rows
<1>3. RingOK'
  BY <1>1, RingStays DEF Typed
<1>4. CallsOK'
  BY <1>1, CallsStay DEF Typed
<1> QED
  BY <1>2, <1>3, <1>4 DEF Typed

-----------------------------------------------------------------------------
(* Types *)

LEMMA TypedAtFirst ==
  ASSUME Init
  PROVE  Typed
<1>1. RowsOK
  <2>1. live \in [Jobs -> Row] /\ stored = live
    BY RowsAreRows DEF Init
  <2>2. seen \in [Jobs -> SUBSET (Statuses \cup {"none"})]
    BY DEF Init, Statuses
  <2> QED
    BY <2>1, <2>2 DEF Init, RowsOK
<1>2. RingOK
  <2>1. 0 \in Indices /\ head = 0 /\ tail = 0 /\ slots = [i \in Indices |-> NoJob]
    BY DEF Init, Indices
  <2>2. Size = 0
    BY <2>1, OffsetIs, SizeIs
  <2>3. \A i \in Indices : Offset(i, 0) \in Indices
    BY <2>1, OffsetIs
  <2>4. \A i \in Indices : ~(Offset(i, 0) < 0)
    BY <2>3 DEF Indices
  <2>5. RingHoldsSize
    BY <2>1, <2>2, <2>4 DEF RingHoldsSize, Offset
  <2> QED
    BY <2>1, <2>5 DEF RingOK
<1>3. CallsOK
  BY DEF Init, CallsOK, CallsFit, PCs
<1>4. HeldOK /\ CountsOK
  BY QueueAssumption DEF Init, HeldOK, CountsOK
<1> QED
  BY <1>1, <1>2, <1>3, <1>4 DEF Typed

LEMMA TypedKept ==
  ASSUME Typed, [Next]_vars
  PROVE  Typed'
<1>1. ASSUME NEW p \in Producers, EnqueueSome(p) \/ ProducerStep(p)
      PROVE  Typed'
  BY <1>1, EnqueueDoes, EnqueueBatchDoes, EnqueueRingDoes, EnqueueNextDoes
     DEF EnqueueSome, ProducerStep
<1>2. ASSUME NEW c \in Consumers, Dequeue(c)
      PROVE  Typed'
  <2>1. \A limit \in 1 .. Limit : limit \in Nat
    OBVIOUS
  <2> QED
    BY <1>2, <2>1, DequeueRingDoes, DequeueCallDoes, DequeueSelectDoes, DequeueFillDoes,
       DequeueClaimDoes DEF Dequeue, DequeueStep
<1>3. ASSUME NEW c \in Consumers, FinishStep(c)
      PROVE  Typed'
  BY <1>3, CompleteDoes, FailReadDoes DEF FinishStep
<1>8. ASSUME NEW f \in Failers, FailPush(f)
      PROVE  Typed'
  BY <1>8, FailPushDoes
<1>4. ASSUME NEW m \in Maintainers, MaintainStep(m)
      PROVE  Typed'
  BY <1>4, ReclaimSelectDoes, ReclaimDoes, PruneSelectDoes, PruneDoes DEF MaintainStep
<1>5. ASSUME NEW j \in Jobs, Due(j) \/ Stale(j) \/ Old(j)
      PROVE  Typed'
  BY <1>5, DueDoes, StaleDoes, OldDoes
<1>6. ASSUME NEW p \in Callers, CallTimeout(p)
      PROVE  Typed'
  BY <1>6, CallTimeoutDoes
<1>7. CASE Persist \/ Crash \/ UNCHANGED vars
  BY <1>7, PersistDoes, CrashDoes, NothingDoes
<1> QED
  BY <1>1, <1>2, <1>3, <1>4, <1>5, <1>6, <1>7, <1>8 DEF Next

\* Every variable of the queue holds what it is for: rows are rows, a call knows the
\* jobs it still has to handle, and the ring holds a job exactly between its ends,
\* however large it is and however often its ends have gone around.
THEOREM QueueIsTyped == Spec => []TypeOK
<1>1. Init => Typed
  BY TypedAtFirst
<1>2. Typed /\ [Next]_vars => Typed'
  BY TypedKept
<1>3. Typed => TypeOK
  BY DEF Typed, RowsOK, RingOK, CallsOK, HeldOK, CountsOK, TypeOK
<1> QED
  BY <1>1, <1>2, <1>3, PTL DEF Spec

-----------------------------------------------------------------------------
(* Jobs whose row has yet to come *)

LEMMA FillsFrom ==
  ASSUME NEW s \in Seq(Jobs), Fills(s), NEW i \in Indices
  PROVE  slots'[i] = slots[i] \/ slots'[i] \in Range(s)
<1>1. PICK n \in 0 .. Len(s), at \in [Indices -> Nat \ {0}] :
        slots' = [k \in Indices |-> IF at[k] <= n THEN s[at[k]] ELSE slots[k]]
  BY DEF Fills
<1>2. slots'[i] = IF at[i] <= n THEN s[at[i]] ELSE slots[i]
  BY <1>1
<1>3. CASE at[i] <= n
  <2>1. at[i] \in 1 .. Len(s)
    BY <1>3
  <2>2. s[at[i]] \in Range(s)
    BY <2>1 DEF Range
  <2> QED
    BY <1>2, <1>3, <2>2
<1> QED
  BY <1>2, <1>3

LEMMA TakesFrom ==
  ASSUME NEW s \in Seq(Jobs), Takes(s)
  PROVE  /\ \A j \in Range(s) : \E i \in Indices : slots[i] = j
         /\ \A i \in Indices : slots'[i] \in {slots[i], NoJob}
<1>1. PICK at \in [1 .. Len(s) -> Indices] :
        \A k \in 1 .. Len(s) : s[k] = slots[at[k]] /\ slots'[at[k]] = NoJob
  BY DEF Takes
<1>2. ASSUME NEW j \in Range(s)
      PROVE  \E i \in Indices : slots[i] = j
  <2>1. PICK k \in 1 .. Len(s) : s[k] = j
    BY DEF Range
  <2> QED
    BY <1>1, <2>1
<1> QED
  BY <1>2 DEF Takes

LEMMA TailOf ==
  ASSUME NEW s \in Seq(Jobs), s # <<>>
  PROVE  /\ s[1] \in Jobs /\ s[1] \in Range(s) /\ Tail(s) \in Seq(Jobs)
         /\ Range(Tail(s)) \subseteq Range(s)
         /\ Distinct(s) => Distinct(Tail(s)) /\ s[1] \notin Range(Tail(s))
         /\ \A j \in Range(s) : j = s[1] \/ j \in Range(Tail(s))
<1>1. PICK l \in Nat : l = Len(s)
  BY LenProperties
<1>2. l > 0 /\ 1 \in 1 .. l
  BY <1>1, EmptySeq
<1>3. DOMAIN s = 1 .. l
  BY <1>1
<1>4. Tail(s) \in Seq(Jobs) /\ Len(Tail(s)) = l - 1
  BY <1>1, HeadTailProperties
<1>5. DOMAIN Tail(s) = 1 .. l - 1 /\ \A i \in 1 .. l - 1 : Tail(s)[i] = s[i + 1]
  BY <1>1, <1>2, <1>4
<1>6. s[1] \in Jobs /\ s[1] \in Range(s)
  BY <1>1, <1>2, <1>3 DEF Range
<1>7. \A i \in 1 .. l - 1 : i + 1 \in 1 .. l
  BY <1>1
<1>8. Range(Tail(s)) \subseteq Range(s)
  BY <1>3, <1>5, <1>7 DEF Range
<1>9. ASSUME Distinct(s)
      PROVE  Distinct(Tail(s)) /\ s[1] \notin Range(Tail(s))
  <2>1. \A i, k \in 1 .. l : s[i] = s[k] => i = k
    BY <1>1, <1>9 DEF Distinct
  <2>2. \A i, k \in 1 .. l - 1 : Tail(s)[i] = Tail(s)[k] => i + 1 = k + 1
    BY <1>5, <1>7, <2>1
  <2>3. Distinct(Tail(s))
    BY <1>4, <2>2 DEF Distinct
  <2>4. \A i \in 1 .. l - 1 : s[i + 1] = s[1] => i + 1 = 1
    BY <1>2, <1>7, <2>1
  <2>5. \A i \in 1 .. l - 1 : Tail(s)[i] # s[1]
    BY <1>5, <2>4
  <2> QED
    BY <1>5, <2>3, <2>5 DEF Range
<1>10. \A j \in Range(s) : j = s[1] \/ j \in Range(Tail(s))
  <2> SUFFICES ASSUME NEW i \in 1 .. l, i # 1 PROVE s[i] \in Range(Tail(s))
    BY <1>3 DEF Range
  <2>1. i - 1 \in 1 .. l - 1
    BY <1>1
  <2>2. Tail(s)[i - 1] = s[i]
    BY <1>5, <2>1
  <2> QED
    BY <1>5, <2>1, <2>2 DEF Range
<1> QED
  BY <1>4, <1>6, <1>8, <1>9, <1>10

LEMMA SubSeqFrom ==
  ASSUME NEW s \in Seq(Jobs), NEW m \in Nat, m >= 1
  PROVE  Range(SubSeq(s, m, Len(s))) \subseteq Range(s)
<1>1. PICK l \in Nat : l = Len(s)
  BY LenProperties
<1>2. \A i \in m .. l : s[i] \in Jobs
  BY <1>1
<1>3. PICK t : t = SubSeq(s, m, l)
  OBVIOUS
<1>4. t \in Seq(Jobs) /\ Len(t) = IF m <= l THEN l - m + 1 ELSE 0
  BY <1>1, <1>2, <1>3, SubSeqProperties
<1>5. \A i \in 1 .. l - m + 1 : t[i] = s[m + i - 1]
  BY <1>1, <1>2, <1>3, SubSeqProperties
<1>6. ASSUME NEW i \in 1 .. Len(t)
      PROVE  t[i] \in Range(s)
  <2>1. i \in 1 .. l - m + 1
    BY <1>4, <1>6
  <2>2. t[i] = s[m + i - 1]
    BY <1>5, <2>1
  <2>3. m + i - 1 \in 1 .. l
    BY <1>1, <2>1
  <2> QED
    BY <1>1, <2>2, <2>3 DEF Range
<1>7. DOMAIN t = 1 .. Len(t)
  BY <1>4
<1> QED
  BY <1>1, <1>3, <1>6, <1>7 DEF Range

Unseen(j) == live[j] = NoRow /\ stored[j] = NoRow /\ seen[j] = {}

InRing(j) == \E i \in Indices : slots[i] = j

Listed(j) == \E q \in Callers : j \in Range(todo[q])

\* A job that nobody has enqueued is nowhere.
Fresh ==
  \A j \in Jobs : New(j) => Unseen(j) /\ delivered[j] = 0 /\ ~InRing(j) /\ ~Listed(j)

\* A job whose insert enqueueBatch() has yet to push has no row, and no other call knows it.
BatchesWait ==
  \A p \in Callers : pc[p] = "enqueueBatch" =>
    /\ Distinct(todo[p])
    /\ \A j \in Range(todo[p]) :
         /\ Unseen(j) /\ delivered[j] = 0
         /\ \A q \in Callers : j \in Range(todo[q]) => q = p

Arrivals == Fresh /\ BatchesWait

\* What most steps have in common: they enqueue nothing.
Calm ==
  /\ known' = known
  /\ \A k \in Jobs : Unseen(k) =>
       Unseen(k)' \/ \E q \in Callers : pc[q] \in {"commit", "prune"} /\ k \in Range(todo[q])
  /\ \A q \in Callers : \A k \in Range(todo'[q]) : k \in Range(todo[q]) \/ ~Unseen(k)
  /\ \A q \in Callers : pc'[q] \in {"enqueue", "enqueueBatch"} => pc'[q] = pc[q] /\ todo'[q] = todo[q]
  /\ \A i \in Indices : slots'[i] \in {NoJob, slots[i]} \/ Listed(slots'[i])
  /\ \A k \in Jobs :
       delivered'[k] \in {0, delivered[k]} \/ ((InRing(k) \/ Listed(k)) /\ ~Unpushed(k))

LEMMA CalmKeepsArrivals ==
  ASSUME Typed, Typed', Arrivals, Calm
  PROVE  Arrivals'
<1>0. \A q \in Callers : Range(todo[q]) \subseteq Jobs /\ Range(todo'[q]) \subseteq Jobs
  <2>1. \A q \in Callers : todo[q] \in Seq(Jobs) /\ todo'[q] \in Seq(Jobs)
    BY DEF Typed, CallsOK
  <2> QED
    BY <2>1 DEF Range
<1>1. ASSUME NEW j \in Jobs, New(j)'
      PROVE  Unseen(j)' /\ delivered'[j] = 0 /\ ~InRing(j)' /\ ~Listed(j)'
  <2>1. New(j)
    BY <1>1 DEF Calm, New
  <2>2. Unseen(j) /\ delivered[j] = 0 /\ ~InRing(j) /\ ~Listed(j)
    BY <2>1 DEF Arrivals, Fresh
  <2>3. Unseen(j)'
    BY <2>2 DEF Calm, Listed
  <2>4. delivered'[j] = 0
    BY <2>2 DEF Calm
  <2>5. ~InRing(j)'
    <3> SUFFICES ASSUME NEW i \in Indices, slots'[i] = j PROVE FALSE
      BY DEF InRing, Indices
    <3>1. slots'[i] \in {NoJob, slots[i]} \/ Listed(slots'[i])
      BY DEF Calm
    <3> QED
      BY <2>2, <3>1 DEF InRing
  <2>6. ~Listed(j)'
    BY <2>2 DEF Calm, Listed, Callers
  <2> QED
    BY <2>3, <2>4, <2>5, <2>6
<1>2. ASSUME NEW p \in Callers, pc'[p] = "enqueueBatch"
      PROVE  /\ Distinct(todo'[p])
             /\ \A j \in Range(todo'[p]) :
                  /\ Unseen(j)' /\ delivered'[j] = 0
                  /\ \A q \in Callers : j \in Range(todo'[q]) => q = p
  <2>1. pc[p] = "enqueueBatch" /\ todo'[p] = todo[p]
    BY <1>2 DEF Calm
  <2>2. /\ Distinct(todo[p])
        /\ \A j \in Range(todo[p]) :
             /\ Unseen(j) /\ delivered[j] = 0
             /\ \A q \in Callers : j \in Range(todo[q]) => q = p
    BY <2>1 DEF Arrivals, BatchesWait
  <2>3. ASSUME NEW j \in Range(todo[p])
        PROVE  Unseen(j)'
    <3>1. j \in Jobs
      BY <1>0
    <3>2. ~ \E q \in Callers : pc[q] \in {"commit", "prune"} /\ j \in Range(todo[q])
      BY <2>1, <2>2
    <3> QED
      BY <2>2, <3>1, <3>2 DEF Calm
  <2>4. ASSUME NEW j \in Range(todo[p]), NEW q \in Callers, j \in Range(todo'[q])
        PROVE  q = p
    BY <2>2, <2>4 DEF Calm
  <2>5. ASSUME NEW j \in Range(todo[p])
        PROVE  delivered'[j] = 0
    <3>1. Unpushed(j) /\ j \in Jobs
      BY <1>0, <2>1 DEF Unpushed
    <3> QED
      BY <2>2, <3>1 DEF Calm
  <2> QED
    BY <2>1, <2>2, <2>3, <2>4, <2>5
<1>4. Fresh'
  BY <1>1 DEF Fresh
<1>5. BatchesWait'
  BY <1>2 DEF BatchesWait, Distinct, Range
<1> QED
  BY <1>4, <1>5 DEF Arrivals

LEMMA CalmRows ==
  ASSUME Typed, NEW k \in Jobs, stored'[k] \in {stored[k], live[k]},
         \/ live'[k] = live[k] /\ seen'[k] \in {seen[k], {}}
         \/ \E hit, status, increment : Updated(k, hit, status, increment)
         \/ live' = stored /\ (stored[k] = NoRow => seen'[k] = {})
  PROVE  Unseen(k) => Unseen(k)'
BY DEF Unseen, Updated

\* A call that moves on to a place where nothing waits to be enqueued.
LEMMA CalmCalls ==
  ASSUME Typed, NEW p \in Callers, NEW place, NEW s, Moved(p, place, s),
         place \notin {"enqueue", "enqueueBatch"},
         \A k \in Range(s) : k \in Range(todo[p]) \/ ~Unseen(k)
  PROVE  /\ \A q \in Callers : \A k \in Range(todo'[q]) : k \in Range(todo[q]) \/ ~Unseen(k)
         /\ \A q \in Callers :
              pc'[q] \in {"enqueue", "enqueueBatch"} => pc'[q] = pc[q] /\ todo'[q] = todo[q]
BY DEF Moved

LEMMA CalmRing ==
  ASSUME UNCHANGED ring
  PROVE  \A i \in Indices : slots'[i] \in {NoJob, slots[i]} \/ Listed(slots'[i])
BY DEF ring

LEMMA EmptyIsCalm == \A p \in Callers : \A k \in Range(<<>>) : k \in Range(todo[p]) \/ ~Unseen(k)
BY DEF Range

LEMMA EnqueueRingIsCalm ==
  ASSUME Typed, NEW p \in Producers, EnqueueRing(p)
  PROVE  Calm
<1>1. /\ Fills(todo[p]) /\ Moved(p, "idle", <<>>)
      /\ UNCHANGED <<rows, held, delivered, known, faults, arg>> /\ p \in Callers
  BY EnqueueRingDoes, CallerKinds
<1>2. todo[p] \in Seq(Jobs)
  BY <1>1 DEF Typed, CallsOK
<1>3. \A i \in Indices : slots'[i] \in {NoJob, slots[i]} \/ Listed(slots'[i])
  BY <1>1, <1>2, FillsFrom DEF Listed
<1>4. \A k \in Jobs : Unseen(k) => Unseen(k)'
  BY <1>1 DEF Unseen, rows
<1>5. /\ \A q \in Callers : \A k \in Range(todo'[q]) : k \in Range(todo[q]) \/ ~Unseen(k)
      /\ \A q \in Callers :
              pc'[q] \in {"enqueue", "enqueueBatch"} => pc'[q] = pc[q] /\ todo'[q] = todo[q]
  BY <1>1, CalmCalls, EmptyIsCalm
<1> QED
  BY <1>1, <1>3, <1>4, <1>5 DEF Calm

LEMMA DequeueIsCalm ==
  ASSUME Typed, NEW c \in Consumers, Dequeue(c)
  PROVE  Calm
<1>0. c \in Callers
  BY CallerKinds
<1>1. ASSUME NEW limit \in 1 .. Limit, DequeueRing(c, limit)
      PROVE  Calm
  <2>1. PICK s \in Seq(Jobs) : /\ Takes(s) /\ Delivered(c, s)
                               /\ \A j \in Jobs : Updated(j, j \in Range(s), "processing", 1)
    BY <1>1, DequeueRingDoes
  <2>2. UNCHANGED <<stored, waiting, calls, known, faults>>
    BY <1>1, DequeueRingDoes
  <2>3. \A k \in Jobs : Unseen(k) => Unseen(k)'
    BY <2>1, <2>2, CalmRows
  <2>4. \A i \in Indices : slots'[i] \in {NoJob, slots[i]}
    BY <2>1, TakesFrom
  <2>5. \A k \in Jobs : delivered'[k] = delivered[k] \/ (InRing(k) /\ ~Unpushed(k))
    BY <2>1, TakesFrom DEF Delivered, InRing
  <2> QED
    BY <2>2, <2>3, <2>4, <2>5 DEF Calm, calls
<1>2. ASSUME NEW limit \in 1 .. Limit, DequeueCall(c, limit)
      PROVE  Calm
  <2>1. Moved(c, "select", <<>>) /\ UNCHANGED <<rows, ring, held, delivered, known, faults>>
    BY <1>2, DequeueCallDoes
  <2>2. \A k \in Jobs : Unseen(k) => Unseen(k)'
    BY <2>1 DEF Unseen, rows
  <2>3. /\ \A q \in Callers : \A k \in Range(todo'[q]) : k \in Range(todo[q]) \/ ~Unseen(k)
        /\ \A q \in Callers :
              pc'[q] \in {"enqueue", "enqueueBatch"} => pc'[q] = pc[q] /\ todo'[q] = todo[q]
    BY <1>0, <2>1, CalmCalls, EmptyIsCalm
  <2> QED
    BY <2>1, <2>2, <2>3, CalmRing DEF Calm
<1>3. CASE DequeueSelect(c)
  <2>1. PICK s \in Seq(Jobs) : /\ Moved(c, IF s = <<>> THEN "idle" ELSE "fill", s)
                               /\ \A j \in Range(s) : Findable(j)
    BY <1>3, DequeueSelectDoes
  <2>2. UNCHANGED <<rows, ring, held, delivered, known, faults>>
    BY <1>3, DequeueSelectDoes
  <2>3. \A k \in Range(s) : ~Unseen(k)
    BY <2>1 DEF Findable, Shows, Unseen
  <2>4. \A k \in Jobs : Unseen(k) => Unseen(k)'
    BY <2>2 DEF Unseen, rows
  <2>5. PICK place : place = IF s = <<>> THEN "idle" ELSE "fill"
    OBVIOUS
  <2>6. Moved(c, place, s) /\ place \notin {"enqueue", "enqueueBatch"}
    BY <2>1, <2>5
  <2>7. /\ \A q \in Callers : \A k \in Range(todo'[q]) : k \in Range(todo[q]) \/ ~Unseen(k)
        /\ \A q \in Callers :
              pc'[q] \in {"enqueue", "enqueueBatch"} => pc'[q] = pc[q] /\ todo'[q] = todo[q]
    BY <1>0, <2>3, <2>6, CalmCalls
  <2> QED
    BY <2>2, <2>4, <2>7, CalmRing DEF Calm
<1>4. CASE DequeueFill(c)
  <2>1. PICK s : s = SubSeq(todo[c], arg[c] + 1, Len(todo[c]))
    OBVIOUS
  <2>2. /\ Moved(c, "claim", todo[c]) /\ UNCHANGED <<rows, held, delivered, known, faults, arg>>
        /\ s \in Seq(Jobs) /\ Fills(s)
    BY <1>4, <2>1, DequeueFillDoes
  <2>3. Range(s) \subseteq Range(todo[c])
    <3>1. todo[c] \in Seq(Jobs) /\ arg[c] + 1 \in Nat /\ arg[c] + 1 >= 1
      BY <1>0 DEF Typed, CallsOK
    <3> QED
      BY <2>1, <3>1, SubSeqFrom
  <2>4. \A i \in Indices : slots'[i] \in {NoJob, slots[i]} \/ Listed(slots'[i])
    BY <1>0, <2>2, <2>3, FillsFrom DEF Listed
  <2>5. \A k \in Jobs : Unseen(k) => Unseen(k)'
    BY <2>2 DEF Unseen, rows
  <2>6. /\ \A q \in Callers : \A k \in Range(todo'[q]) : k \in Range(todo[q]) \/ ~Unseen(k)
        /\ \A q \in Callers :
              pc'[q] \in {"enqueue", "enqueueBatch"} => pc'[q] = pc[q] /\ todo'[q] = todo[q]
    BY <1>0, <2>2, CalmCalls
  <2> QED
    BY <2>2, <2>4, <2>5, <2>6 DEF Calm
<1>5. CASE DequeueClaim(c)
  <2>1. PICK s \in Seq(Jobs) :
          /\ Len(s) <= Len(todo[c]) /\ (\A i \in 1 .. Len(s) : s[i] = todo[c][i])
          /\ Delivered(c, s)
    BY <1>5, DequeueClaimDoes
  <2>2. /\ Moved(c, "idle", <<>>) /\ UNCHANGED <<stored, waiting, ring, known, faults>>
        /\ \A j \in Jobs : Updated(j, j \in Range(todo[c]), "processing", 1)
    BY <1>5, DequeueClaimDoes
  <2>3. Range(s) \subseteq Range(todo[c])
    <3>1. todo[c] \in Seq(Jobs)
      BY <1>0 DEF Typed, CallsOK
    <3>2. \A i \in 1 .. Len(s) : i \in 1 .. Len(todo[c])
      BY <2>1, <3>1
    <3> QED
      BY <2>1, <3>1, <3>2 DEF Range
  <2>4. \A k \in Jobs : delivered'[k] = delivered[k] \/ (Listed(k) /\ ~Unpushed(k))
    BY <1>0, <2>1, <2>3 DEF Delivered, Listed
  <2>5. \A k \in Jobs : Unseen(k) => Unseen(k)'
    BY <2>2, CalmRows
  <2>6. /\ \A q \in Callers : \A k \in Range(todo'[q]) : k \in Range(todo[q]) \/ ~Unseen(k)
        /\ \A q \in Callers :
              pc'[q] \in {"enqueue", "enqueueBatch"} => pc'[q] = pc[q] /\ todo'[q] = todo[q]
    BY <1>0, <2>2, CalmCalls, EmptyIsCalm
  <2> QED
    BY <2>2, <2>4, <2>5, <2>6, CalmRing DEF Calm
<1> QED
  BY <1>1, <1>2, <1>3, <1>4, <1>5 DEF Dequeue, DequeueStep

LEMMA FinishIsCalm ==
  ASSUME Typed, NEW c \in Consumers, FinishStep(c)
  PROVE  Calm
<1>0. c \in Callers
  BY CallerKinds
<1>1. ASSUME NEW js \in SUBSET Jobs, Complete(c, js)
      PROVE  Calm
  <2>1. /\ UNCHANGED <<stored, waiting, ring, calls, known, delivered, faults>>
        /\ \A j \in Jobs : Updated(j, j \in js, "done", 0)
    BY <1>1, CompleteDoes
  <2>2. \A k \in Jobs : Unseen(k) => Unseen(k)'
    BY <2>1, CalmRows
  <2> QED
    BY <2>1, <2>2, CalmRing DEF Calm, calls
<1>2. ASSUME NEW f \in Failers, NEW j \in Jobs, FailRead(f, c, j)
      PROVE  Calm
  <2>0. f \in Callers
    BY CallerKinds
  <2>1. /\ UNCHANGED <<rows, ring, known, delivered, faults>>
        /\ \/ live[j] = NoRow /\ UNCHANGED calls
           \/ live[j] # NoRow /\ Moved(f, "fail", <<j>>)
    BY <1>2, FailReadDoes
  <2>2. \A k \in Jobs : Unseen(k) => Unseen(k)'
    BY <2>1 DEF Unseen, rows
  <2>3. CASE UNCHANGED calls
    BY <2>1, <2>2, <2>3, CalmRing DEF Calm, calls
  <2>4. CASE live[j] # NoRow /\ Moved(f, "fail", <<j>>)
    <3>1. \A k \in Range(<<j>>) : ~Unseen(k)
      BY <2>4 DEF Range, Unseen
    <3>2. /\ \A q \in Callers : \A k \in Range(todo'[q]) : k \in Range(todo[q]) \/ ~Unseen(k)
          /\ \A q \in Callers :
              pc'[q] \in {"enqueue", "enqueueBatch"} => pc'[q] = pc[q] /\ todo'[q] = todo[q]
      BY <2>0, <2>4, <3>1, CalmCalls
    <3> QED
      BY <2>1, <2>2, <3>2, CalmRing DEF Calm
  <2> QED
    BY <2>1, <2>3, <2>4
<1> QED
  BY <1>1, <1>2 DEF FinishStep

LEMMA FailPushIsCalm ==
  ASSUME Typed, NEW f \in Failers, FailPush(f)
  PROVE  Calm
<1>0. f \in Callers
  BY CallerKinds
<1>1. Moved(f, "idle", <<>>) /\ UNCHANGED <<stored, ring, held, delivered, known, faults>>
  BY FailPushDoes
<1>2. \E j \in Jobs : \/ \A k \in Jobs : Updated(k, k \in {j}, "pending", 0)
                      \/ \A k \in Jobs : Updated(k, k \in {j}, "failed", 0)
  BY FailPushDoes
<1>3. \A k \in Jobs : Unseen(k) => Unseen(k)'
  BY <1>1, <1>2, CalmRows
<1>4. /\ \A q \in Callers : \A k \in Range(todo'[q]) : k \in Range(todo[q]) \/ ~Unseen(k)
      /\ \A q \in Callers :
            pc'[q] \in {"enqueue", "enqueueBatch"} => pc'[q] = pc[q] /\ todo'[q] = todo[q]
  BY <1>0, <1>1, CalmCalls, EmptyIsCalm
<1> QED
  BY <1>1, <1>3, <1>4, CalmRing DEF Calm

LEMMA MaintainIsCalm ==
  ASSUME Typed, NEW m \in Maintainers, MaintainStep(m)
  PROVE  Calm
<1>0. m \in Callers
  BY CallerKinds
<1>1. CASE ReclaimSelect(m)
  <2>1. PICK s \in Seq(Jobs) : Moved(m, "reclaim", s) /\ \A j \in Range(s) : Shows(j, "processing")
    BY <1>1, ReclaimSelectDoes
  <2>2. UNCHANGED <<rows, ring, arg, held, delivered, known, faults>>
    BY <1>1, ReclaimSelectDoes
  <2>3. \A k \in Range(s) : ~Unseen(k)
    BY <2>1 DEF Shows, Unseen
  <2>4. \A k \in Jobs : Unseen(k) => Unseen(k)'
    BY <2>2 DEF Unseen, rows
  <2>5. /\ \A q \in Callers : \A k \in Range(todo'[q]) : k \in Range(todo[q]) \/ ~Unseen(k)
        /\ \A q \in Callers :
              pc'[q] \in {"enqueue", "enqueueBatch"} => pc'[q] = pc[q] /\ todo'[q] = todo[q]
    BY <1>0, <2>1, <2>3, CalmCalls
  <2> QED
    BY <2>2, <2>4, <2>5, CalmRing DEF Calm
<1>2. CASE Reclaim(m)
  <2>1. /\ Moved(m, "reclaim", Tail(todo[m])) /\ todo[m] # <<>>
        /\ UNCHANGED <<stored, waiting, ring, arg, held, delivered, known, faults>>
        /\ \A k \in Jobs : Updated(k, k \in {todo[m][1]}, "pending", 0)
    BY <1>2, ReclaimDoes
  <2>2. \A k \in Range(Tail(todo[m])) : k \in Range(todo[m])
    BY <1>0, <2>1, TailOf DEF Typed, CallsOK
  <2>3. \A k \in Jobs : Unseen(k) => Unseen(k)'
    BY <2>1, CalmRows
  <2>4. /\ \A q \in Callers : \A k \in Range(todo'[q]) : k \in Range(todo[q]) \/ ~Unseen(k)
        /\ \A q \in Callers :
              pc'[q] \in {"enqueue", "enqueueBatch"} => pc'[q] = pc[q] /\ todo'[q] = todo[q]
    BY <1>0, <2>1, <2>2, CalmCalls
  <2> QED
    BY <2>1, <2>3, <2>4, CalmRing DEF Calm
<1>3. CASE PruneSelect(m)
  <2>1. PICK s \in Seq(Jobs) : /\ Moved(m, IF s = <<>> THEN "idle" ELSE "commit", s)
                               /\ \A j \in Range(s) : Shows(j, "done")
    BY <1>3, PruneSelectDoes
  <2>2. UNCHANGED <<rows, ring, arg, held, delivered, known, faults>>
    BY <1>3, PruneSelectDoes
  <2>3. \A k \in Range(s) : ~Unseen(k)
    BY <2>1 DEF Shows, Unseen
  <2>4. \A k \in Jobs : Unseen(k) => Unseen(k)'
    BY <2>2 DEF Unseen, rows
  <2>5. PICK place : place = IF s = <<>> THEN "idle" ELSE "commit"
    OBVIOUS
  <2>6. Moved(m, place, s) /\ place \notin {"enqueue", "enqueueBatch"}
    BY <2>1, <2>5
  <2>7. /\ \A q \in Callers : \A k \in Range(todo'[q]) : k \in Range(todo[q]) \/ ~Unseen(k)
        /\ \A q \in Callers :
              pc'[q] \in {"enqueue", "enqueueBatch"} => pc'[q] = pc[q] /\ todo'[q] = todo[q]
    BY <1>0, <2>3, <2>6, CalmCalls
  <2> QED
    BY <2>2, <2>4, <2>7, CalmRing DEF Calm
<1>4. CASE Prune(m)
  <2>1. PICK place : place = IF Len(todo[m]) = 1 THEN "idle" ELSE "prune"
    OBVIOUS
  <2>2. /\ pc[m] \in {"commit", "prune"} /\ todo[m] # <<>> /\ Moved(m, place, Tail(todo[m]))
        /\ UNCHANGED <<stored, waiting, late, ring, arg, held, delivered, known, faults>>
        /\ \A k \in Jobs : k # todo[m][1] => live'[k] = live[k] /\ seen'[k] = seen[k]
        /\ place \notin {"enqueue", "enqueueBatch"}
    BY <1>4, <2>1, PruneDoes
  <2>3. /\ todo[m][1] \in Range(todo[m])
        /\ \A k \in Range(Tail(todo[m])) : k \in Range(todo[m])
    BY <1>0, <2>2, TailOf DEF Typed, CallsOK
  <2>4. \A k \in Jobs : Unseen(k) /\ k # todo[m][1] => Unseen(k)'
    BY <2>2 DEF Unseen
  <2>5. \A k \in Jobs : Unseen(k) =>
          Unseen(k)' \/ \E q \in Callers : pc[q] \in {"commit", "prune"} /\ k \in Range(todo[q])
    BY <1>0, <2>2, <2>3, <2>4
  <2>6. /\ \A q \in Callers : \A k \in Range(todo'[q]) : k \in Range(todo[q]) \/ ~Unseen(k)
        /\ \A q \in Callers :
              pc'[q] \in {"enqueue", "enqueueBatch"} => pc'[q] = pc[q] /\ todo'[q] = todo[q]
    BY <1>0, <2>2, <2>3, CalmCalls
  <2> QED
    BY <2>2, <2>5, <2>6, CalmRing DEF Calm
<1> QED
  BY <1>1, <1>2, <1>3, <1>4 DEF MaintainStep

LEMMA WorldIsCalm ==
  ASSUME Typed,
         \/ \E j \in Jobs : Due(j) \/ Stale(j) \/ Old(j)
         \/ \E p \in Callers : CallTimeout(p)
         \/ Persist \/ Crash \/ UNCHANGED vars
  PROVE  Calm
<1>1. CASE \/ \E j \in Jobs : Due(j) \/ Stale(j) \/ Old(j)
           \/ UNCHANGED vars
  <2>1. UNCHANGED <<live, stored, seen, ring, calls, known, delivered>>
    BY <1>1, DueDoes, StaleDoes, OldDoes DEF vars, rows
  <2>2. \A k \in Jobs : Unseen(k) => Unseen(k)'
    BY <2>1 DEF Unseen
  <2> QED
    BY <2>1, <2>2, CalmRing DEF Calm, calls
<1>2. ASSUME NEW p \in Callers, CallTimeout(p)
      PROVE  Calm
  <2>1. Moved(p, "idle", <<>>) /\ UNCHANGED <<rows, ring, held, known, delivered, slow, crashes>>
    BY <1>2, CallTimeoutDoes
  <2>2. \A k \in Jobs : Unseen(k) => Unseen(k)'
    BY <2>1 DEF Unseen, rows
  <2>3. /\ \A q \in Callers : \A k \in Range(todo'[q]) : k \in Range(todo[q]) \/ ~Unseen(k)
        /\ \A q \in Callers :
              pc'[q] \in {"enqueue", "enqueueBatch"} => pc'[q] = pc[q] /\ todo'[q] = todo[q]
    BY <2>1, CalmCalls, EmptyIsCalm
  <2> QED
    BY <2>1, <2>2, <2>3, CalmRing DEF Calm
<1>3. CASE Persist
  <2>1. /\ stored' = live
        /\ \A j \in Jobs : seen'[j] = IF live[j] = NoRow THEN {} ELSE {live[j].status}
        /\ UNCHANGED <<live, late, ring, calls, held, known, delivered, faults>>
    BY <1>3, PersistDoes
  <2>2. \A k \in Jobs : Unseen(k) => Unseen(k)'
    BY <2>1 DEF Unseen
  <2> QED
    BY <2>1, <2>2, CalmRing DEF Calm, calls
<1>4. CASE Crash
  <2>1. /\ live' = stored
        /\ \A j \in Jobs : seen'[j] = IF stored[j] = NoRow THEN {} ELSE {stored[j].status}
        /\ \A i \in Indices : slots'[i] = NoJob
        /\ \A p \in Callers : pc'[p] = "idle" /\ todo'[p] = <<>>
        /\ \A j \in Jobs : delivered'[j] = 0
        /\ UNCHANGED <<stored, late, known, slow>>
    BY <1>4, CrashDoes
  <2>2. \A k \in Jobs : Unseen(k) => Unseen(k)'
    BY <2>1 DEF Unseen
  <2>3. \A q \in Callers : \A k \in Range(todo'[q]) : k \in Range(todo[q]) \/ ~Unseen(k)
    BY <2>1, EmptyIsCalm
  <2> QED
    BY <2>1, <2>2, <2>3 DEF Calm
<1> QED
  BY <1>1, <1>2, <1>3, <1>4

LEMMA UnseenOfOthers ==
  ASSUME NEW j \in Jobs, Inserted(j), UNCHANGED stored, NEW k \in Jobs, k # j, Unseen(k)
  PROVE  Unseen(k)'
BY DEF Inserted, Unseen

LEMMA TodoIsJobs ==
  ASSUME Typed, NEW q \in Callers
  PROVE  todo[q] \in Seq(Jobs) /\ Range(todo[q]) \subseteq Jobs
<1>1. todo[q] \in Seq(Jobs)
  BY DEF Typed, CallsOK
<1> QED
  BY <1>1 DEF Range

LEMMA EnqueueKeepsArrivals ==
  ASSUME Typed, Typed', Arrivals, NEW p \in Producers, NEW j \in Jobs, NEW delayed \in BOOLEAN,
         Enqueue(p, j, delayed)
  PROVE  Arrivals'
<1>0. p \in Callers
  BY CallerKinds
<1>1. PICK place : place = IF delayed THEN "idle" ELSE "enqueue"
  OBVIOUS
<1>2. PICK s : s = IF delayed THEN <<>> ELSE <<j>>
  OBVIOUS
<1>3. /\ New(j) /\ Inserted(j) /\ UNCHANGED <<stored, ring, held, delivered, faults, arg>>
      /\ Moved(p, place, s) /\ known' = known \cup {j}
  BY <1>1, <1>2, EnqueueDoes
<1>4. Range(s) \subseteq {j} /\ place # "enqueueBatch"
  BY <1>1, <1>2 DEF Range
<1>5. ~Listed(j)
  BY <1>3 DEF Arrivals, Fresh
<1>6. j \in known' /\ \A k \in Jobs : k # j => (k \in known' <=> k \in known)
  BY <1>3
<1>7. ASSUME NEW k \in Jobs, New(k)'
      PROVE  Unseen(k)' /\ delivered'[k] = 0 /\ ~InRing(k)' /\ ~Listed(k)'
  <2>1. k # j /\ New(k)
    BY <1>6, <1>7 DEF New
  <2>2. Unseen(k) /\ delivered[k] = 0 /\ ~InRing(k) /\ ~Listed(k)
    BY <2>1 DEF Arrivals, Fresh
  <2>3. Unseen(k)'
    BY <1>3, <2>1, <2>2, UnseenOfOthers
  <2>4. ~InRing(k)'
    BY <1>3, <2>2 DEF InRing, ring, Indices
  <2>5. ~Listed(k)'
    <3> SUFFICES ASSUME NEW q \in Callers, k \in Range(todo'[q]) PROVE FALSE
      BY DEF Listed, Callers, Range
    <3>1. q # p
      BY <1>3, <1>4, <2>1 DEF Moved
    <3> QED
      BY <1>3, <2>2, <3>1 DEF Moved, Listed
  <2> QED
    BY <1>3, <2>2, <2>3, <2>4, <2>5
<1>8. ASSUME NEW q \in Callers, pc'[q] = "enqueueBatch"
      PROVE  /\ Distinct(todo'[q])
             /\ \A k \in Range(todo'[q]) :
                  /\ Unseen(k)' /\ delivered'[k] = 0
                  /\ \A r \in Callers : k \in Range(todo'[r]) => r = q
  <2>1. q # p /\ pc[q] = "enqueueBatch" /\ todo'[q] = todo[q]
    BY <1>3, <1>4, <1>8 DEF Moved
  <2>2. /\ Distinct(todo[q])
        /\ \A k \in Range(todo[q]) :
             /\ Unseen(k) /\ delivered[k] = 0
             /\ \A r \in Callers : k \in Range(todo[r]) => r = q
    BY <2>1 DEF Arrivals, BatchesWait
  <2>3. \A k \in Range(todo[q]) : k # j /\ k \in Jobs
    BY <1>5, TodoIsJobs DEF Listed
  <2>4. \A k \in Range(todo[q]) : Unseen(k)' /\ delivered'[k] = 0
    BY <1>3, <1>6, <2>2, <2>3, UnseenOfOthers
  <2>5. ASSUME NEW k \in Range(todo[q]), NEW r \in Callers, k \in Range(todo'[r])
        PROVE  r = q
    <3>1. r # p
      BY <1>3, <1>4, <2>3, <2>5 DEF Moved
    <3> QED
      BY <1>3, <2>2, <2>5, <3>1 DEF Moved
  <2> QED
    BY <2>1, <2>2, <2>4, <2>5
<1>10. Fresh'
  BY <1>7 DEF Fresh
<1>11. BatchesWait'
  BY <1>8 DEF BatchesWait, Distinct, Range
<1> QED
  BY <1>10, <1>11 DEF Arrivals

LEMMA EnqueueBatchKeepsArrivals ==
  ASSUME Typed, Typed', Arrivals, NEW p \in Producers, NEW s \in Batches, NEW due \in Sublists(s),
         EnqueueBatch(p, s, due)
  PROVE  Arrivals'
<1>0. p \in Callers
  BY CallerKinds
<1>1. /\ \A j \in Range(s) : New(j)
      /\ s \in Seq(Jobs) /\ s # <<>> /\ Distinct(s)
      /\ due \in Seq(Jobs) /\ Range(due) \subseteq Range(s) /\ Fills(due)
      /\ Inserted(s[1]) /\ UNCHANGED <<stored, held, delivered, faults, arg>>
      /\ Moved(p, "enqueueBatch", Tail(s))
      /\ known' = known \cup Range(s)
  BY EnqueueBatchDoes
<1>2. /\ s[1] \in Jobs /\ s[1] \in Range(s) /\ Range(Tail(s)) \subseteq Range(s)
      /\ Distinct(Tail(s)) /\ s[1] \notin Range(Tail(s))
  BY <1>1, TailOf
<1>3. Range(s) \subseteq Jobs
  BY <1>1 DEF Range
<1>4. \A j \in Range(s) : ~Listed(j) /\ Unseen(j) /\ delivered[j] = 0
  BY <1>1, <1>3 DEF Arrivals, Fresh
<1>5. ASSUME NEW k \in Jobs, New(k)'
      PROVE  Unseen(k)' /\ delivered'[k] = 0 /\ ~InRing(k)' /\ ~Listed(k)'
  <2>1. k \notin Range(s) /\ New(k)
    BY <1>1, <1>5 DEF New
  <2>2. Unseen(k) /\ delivered[k] = 0 /\ ~InRing(k) /\ ~Listed(k)
    BY <2>1 DEF Arrivals, Fresh
  <2>3. Unseen(k)'
    BY <1>1, <1>2, <2>1, <2>2, UnseenOfOthers
  <2>4. ~InRing(k)'
    <3> SUFFICES ASSUME NEW i \in Indices, slots'[i] = k PROVE FALSE
      BY DEF InRing, Indices
    <3> QED
      BY <1>1, <2>1, <2>2, FillsFrom DEF InRing
  <2>5. ~Listed(k)'
    <3> SUFFICES ASSUME NEW q \in Callers, k \in Range(todo'[q]) PROVE FALSE
      BY DEF Listed, Callers, Range
    <3>1. q # p
      BY <1>1, <1>2, <2>1 DEF Moved
    <3> QED
      BY <1>1, <2>2, <3>1 DEF Moved, Listed
  <2> QED
    BY <1>1, <2>2, <2>3, <2>4, <2>5
<1>6. ASSUME NEW q \in Callers, pc'[q] = "enqueueBatch"
      PROVE  /\ Distinct(todo'[q])
             /\ \A k \in Range(todo'[q]) :
                  /\ Unseen(k)' /\ delivered'[k] = 0
                  /\ \A r \in Callers : k \in Range(todo'[r]) => r = q
  <2>1. CASE q = p
    <3>1. todo'[p] = Tail(s)
      BY <1>1 DEF Moved
    <3>2. ASSUME NEW k \in Range(Tail(s))
          PROVE  /\ Unseen(k)' /\ delivered'[k] = 0
                 /\ \A r \in Callers : k \in Range(todo'[r]) => r = p
      <4>1. k \in Range(s) /\ k # s[1] /\ k \in Jobs
        BY <1>2, <1>3
      <4>2. Unseen(k)'
        BY <1>1, <1>2, <1>4, <4>1, UnseenOfOthers
      <4>3. \A r \in Callers : r # p => k \notin Range(todo'[r])
        BY <1>1, <1>4, <4>1 DEF Moved, Listed
      <4> QED
        BY <1>1, <1>4, <4>1, <4>2, <4>3
    <3> QED
      BY <1>2, <2>1, <3>1, <3>2
  <2>2. CASE q # p
    <3>1. pc[q] = "enqueueBatch" /\ todo'[q] = todo[q]
      BY <1>1, <1>6, <2>2 DEF Moved
    <3>2. /\ Distinct(todo[q])
          /\ \A k \in Range(todo[q]) :
               /\ Unseen(k) /\ delivered[k] = 0
               /\ \A r \in Callers : k \in Range(todo[r]) => r = q
      BY <3>1 DEF Arrivals, BatchesWait
    <3>3. \A k \in Range(todo[q]) : k \notin Range(s) /\ k \in Jobs
      BY <1>4, TodoIsJobs DEF Listed
    <3>4. \A k \in Range(todo[q]) : Unseen(k)' /\ delivered'[k] = 0
      BY <1>1, <1>2, <3>2, <3>3, UnseenOfOthers
    <3>5. ASSUME NEW k \in Range(todo[q]), NEW r \in Callers, k \in Range(todo'[r])
          PROVE  r = q
      <4>1. r # p
        BY <1>1, <1>2, <3>3, <3>5 DEF Moved
      <4> QED
        BY <1>1, <3>2, <3>5, <4>1 DEF Moved
    <3> QED
      BY <3>1, <3>2, <3>4, <3>5
  <2> QED
    BY <2>1, <2>2
<1>8. Fresh'
  BY <1>5 DEF Fresh
<1>9. BatchesWait'
  BY <1>6 DEF BatchesWait, Distinct, Range
<1> QED
  BY <1>8, <1>9 DEF Arrivals

LEMMA EnqueueNextKeepsArrivals ==
  ASSUME Typed, Typed', Arrivals, NEW p \in Producers, EnqueueNext(p)
  PROVE  Arrivals'
<1>0. p \in Callers
  BY CallerKinds
<1>1. /\ pc[p] = "enqueueBatch"
      /\ UNCHANGED <<stored, ring, held, delivered, known, faults, arg>>
  BY EnqueueNextDoes
<1>2. CASE todo[p] = <<>>
  <2>1. Moved(p, "idle", <<>>) /\ RowsStay
    BY <1>2, EnqueueNextDoes
  <2>2. \A k \in Jobs : Unseen(k) => Unseen(k)'
    BY <1>1, <2>1 DEF Unseen, RowsStay
  <2>3. /\ \A q \in Callers : \A k \in Range(todo'[q]) : k \in Range(todo[q]) \/ ~Unseen(k)
        /\ \A q \in Callers :
              pc'[q] \in {"enqueue", "enqueueBatch"} => pc'[q] = pc[q] /\ todo'[q] = todo[q]
    BY <1>0, <2>1, CalmCalls, EmptyIsCalm
  <2>4. Calm
    BY <1>1, <2>2, <2>3, CalmRing DEF Calm
  <2> QED
    BY <2>4, CalmKeepsArrivals
<1>3. CASE todo[p] # <<>>
  <2>1. Moved(p, "enqueueBatch", Tail(todo[p])) /\ Inserted(todo[p][1])
    BY <1>3, EnqueueNextDoes
  <2>2. PICK j : j = todo[p][1]
    OBVIOUS
  <2>3. /\ j \in Jobs /\ j \in Range(todo[p]) /\ Range(Tail(todo[p])) \subseteq Range(todo[p])
        /\ Distinct(todo[p]) => Distinct(Tail(todo[p])) /\ j \notin Range(Tail(todo[p]))
    BY <1>0, <1>3, <2>2, TodoIsJobs, TailOf
  <2>4. /\ Distinct(todo[p])
        /\ \A k \in Range(todo[p]) :
             /\ Unseen(k) /\ delivered[k] = 0
             /\ \A r \in Callers : k \in Range(todo[r]) => r = p
    BY <1>0, <1>1 DEF Arrivals, BatchesWait
  <2>5. Inserted(j) /\ ~New(j)
    BY <1>0, <2>1, <2>2, <2>3 DEF Arrivals, Fresh, Listed
  <2>6. ASSUME NEW q \in Callers, NEW k \in Range(todo'[q])
        PROVE  k \in Range(todo[q]) /\ k # j /\ k \in Jobs
    <3>1. CASE q = p
      <4>1. k \in Range(Tail(todo[p]))
        BY <2>1, <2>6, <3>1 DEF Moved
      <4> QED
        BY <1>0, <2>3, <2>4, <3>1, <4>1, TodoIsJobs
    <3>2. CASE q # p
      <4>1. k \in Range(todo[q])
        BY <2>1, <2>6, <3>2 DEF Moved
      <4> QED
        BY <2>3, <2>4, <3>2, <4>1, TodoIsJobs
    <3> QED
      BY <3>1, <3>2
  <2>7. ASSUME NEW k \in Jobs, New(k)'
        PROVE  Unseen(k)' /\ delivered'[k] = 0 /\ ~InRing(k)' /\ ~Listed(k)'
    <3>1. k # j /\ New(k)
      BY <1>1, <2>5, <2>7 DEF New
    <3>2. Unseen(k) /\ delivered[k] = 0 /\ ~InRing(k) /\ ~Listed(k)
      BY <3>1 DEF Arrivals, Fresh
    <3>3. Unseen(k)'
      BY <1>1, <2>3, <2>5, <3>1, <3>2, UnseenOfOthers
    <3>4. ~InRing(k)'
      BY <1>1, <3>2 DEF InRing, ring, Indices
    <3>5. ~Listed(k)'
      <4> SUFFICES ASSUME NEW q \in Callers, k \in Range(todo'[q]) PROVE FALSE
        BY DEF Listed, Callers, Range
      <4> QED
        BY <2>6, <3>2 DEF Listed
    <3> QED
      BY <1>1, <3>2, <3>3, <3>4, <3>5
  <2>8. ASSUME NEW q \in Callers, pc'[q] = "enqueueBatch"
        PROVE  /\ Distinct(todo'[q])
               /\ \A k \in Range(todo'[q]) :
                    /\ Unseen(k)' /\ delivered'[k] = 0
                    /\ \A r \in Callers : k \in Range(todo'[r]) => r = q
    <3>1. pc[q] = "enqueueBatch"
      BY <1>1, <2>1, <2>8 DEF Moved
    <3>2. Distinct(todo'[q])
      <4>1. CASE q = p
        BY <2>1, <2>3, <2>4, <4>1 DEF Moved
      <4>2. CASE q # p
        <5>1. todo'[q] = todo[q]
          BY <2>1, <4>2 DEF Moved
        <5> QED
          BY <3>1, <5>1 DEF Arrivals, BatchesWait
      <4> QED
        BY <4>1, <4>2
    <3>3. ASSUME NEW k \in Range(todo'[q])
          PROVE  /\ Unseen(k)' /\ delivered'[k] = 0
                 /\ \A r \in Callers : k \in Range(todo'[r]) => r = q
      <4>1. k \in Range(todo[q]) /\ k # j /\ k \in Jobs
        BY <2>6
      <4>2. /\ Unseen(k) /\ delivered[k] = 0
            /\ \A r \in Callers : k \in Range(todo[r]) => r = q
        BY <3>1, <4>1 DEF Arrivals, BatchesWait
      <4>3. Unseen(k)'
        BY <1>1, <2>3, <2>5, <4>1, <4>2, UnseenOfOthers
      <4> QED
        BY <1>1, <2>6, <4>2, <4>3
    <3> QED
      BY <3>2, <3>3
  <2>10. Fresh'
    BY <2>7 DEF Fresh
  <2>11. BatchesWait'
    BY <2>8 DEF BatchesWait, Distinct, Range
  <2> QED
    BY <2>10, <2>11 DEF Arrivals
<1> QED
  BY <1>2, <1>3

LEMMA ArrivalsAtFirst ==
  ASSUME Init
  PROVE  Arrivals
<1>1. ASSUME NEW j \in Jobs, New(j)
      PROVE  Unseen(j) /\ delivered[j] = 0 /\ ~InRing(j) /\ ~Listed(j)
  <2>1. j \notin Backlog
    BY <1>1 DEF Init, New
  <2>2. Unseen(j) /\ delivered[j] = 0
    BY <2>1 DEF Init, Unseen
  <2>3. ~InRing(j)
    BY DEF Init, InRing
  <2>4. ~Listed(j)
    BY DEF Init, Listed, Range
  <2> QED
    BY <2>2, <2>3, <2>4
<1>2. \A p \in Callers : pc[p] = "idle"
  BY DEF Init
<1> QED
  BY <1>1, <1>2 DEF Arrivals, Fresh, BatchesWait

LEMMA ArrivalsKept ==
  ASSUME Typed, Typed', Arrivals, [Next]_vars
  PROVE  Arrivals'
<1>1. ASSUME NEW p \in Producers, EnqueueSome(p) \/ ProducerStep(p)
      PROVE  Arrivals'
  BY <1>1, EnqueueKeepsArrivals, EnqueueBatchKeepsArrivals, EnqueueNextKeepsArrivals,
     EnqueueRingIsCalm, CalmKeepsArrivals DEF EnqueueSome, ProducerStep
<1>2. ASSUME NEW c \in Consumers, Dequeue(c) \/ FinishStep(c)
      PROVE  Arrivals'
  BY <1>2, DequeueIsCalm, FinishIsCalm, CalmKeepsArrivals
<1>5. ASSUME NEW f \in Failers, FailPush(f)
      PROVE  Arrivals'
  BY <1>5, FailPushIsCalm, CalmKeepsArrivals
<1>3. ASSUME NEW m \in Maintainers, MaintainStep(m)
      PROVE  Arrivals'
  BY <1>3, MaintainIsCalm, CalmKeepsArrivals
<1>4. CASE \/ \E j \in Jobs : Due(j) \/ Stale(j) \/ Old(j)
           \/ \E p \in Callers : CallTimeout(p)
           \/ Persist \/ Crash \/ UNCHANGED vars
  BY <1>4, WorldIsCalm, CalmKeepsArrivals
<1> QED
  BY <1>1, <1>2, <1>3, <1>4, <1>5 DEF Next

-----------------------------------------------------------------------------
(* Deliveries and attempts *)

Counted(j) == live[j] # NoRow => delivered[j] <= live[j].attempts

\* A step that leaves no delivery of a job without an attempt.
Balanced(j) ==
  \/ delivered'[j] = 0
  \/ /\ delivered'[j] = delivered[j]
     /\ \/ live'[j] = live[j] \/ live'[j] = NoRow
        \/ live[j] # NoRow /\ live'[j].attempts = live[j].attempts
  \/ /\ delivered'[j] \in {delivered[j], delivered[j] + 1}
     /\ IF live[j] = NoRow THEN live'[j] = NoRow ELSE live'[j].attempts = live[j].attempts + 1

LEMMA BalanceKeepsCount ==
  ASSUME Typed, Typed', NEW j \in Jobs, Counted(j), Balanced(j)
  PROVE  Counted(j)'
<1>1. delivered[j] \in Nat /\ delivered'[j] \in Nat
  BY DEF Typed, HeldOK
<1>2. live[j] \in Row /\ live'[j] \in Row
  BY DEF Typed, RowsOK
<1>3. live[j].attempts \in Nat /\ live'[j].attempts \in Nat
  BY <1>2 DEF Row
<1> QED
  BY <1>1, <1>3 DEF Counted, Balanced

LEMMA UpdateIsBalanced ==
  ASSUME Typed, NEW j \in Jobs, NEW hit, NEW status, Updated(j, hit, status, 0),
         delivered'[j] = delivered[j]
  PROVE  Balanced(j)
<1>1. live[j].attempts \in Nat
  BY DEF Typed, RowsOK, Row
<1> QED
  BY <1>1 DEF Updated, Balanced

LEMMA CountedKept ==
  ASSUME Typed, Typed', Arrivals, \A j \in Jobs : Counted(j), [Next]_vars
  PROVE  \A j \in Jobs : Counted(j)'
<1>1. ASSUME NEW p \in Producers, EnqueueSome(p) \/ ProducerStep(p), NEW k \in Jobs
      PROVE  Counted(k)'
  <2>0. p \in Callers
    BY CallerKinds
  <2>1. ASSUME NEW j \in Jobs, NEW delayed \in BOOLEAN, Enqueue(p, j, delayed)
        PROVE  Counted(k)'
    <3>1. /\ New(j) /\ Inserted(j) /\ delivered' = delivered
          /\ known' = known \cup {j}
      BY <2>1, EnqueueDoes
    <3>2. CASE k = j
      <4>1. delivered'[k] = 0
        BY <3>1, <3>2 DEF Arrivals, Fresh
      <4>2. live'[k].attempts = 0
        BY <3>1, <3>2 DEF Inserted, NewRow
      <4> QED
        BY <4>1, <4>2 DEF Counted
    <3>3. CASE k # j
      BY <3>1, <3>3, BalanceKeepsCount DEF Inserted, Balanced, Typed, CountsOK
    <3> QED
      BY <3>2, <3>3
  <2>2. ASSUME NEW s \in Batches, NEW due \in Sublists(s), EnqueueBatch(p, s, due)
        PROVE  Counted(k)'
    <3>1. /\ s \in Seq(Jobs) /\ s # <<>> /\ Inserted(s[1]) /\ delivered' = delivered
          /\ known' = known \cup Range(s)
      BY <2>2, EnqueueBatchDoes
    <3>2. New(s[1])
      BY <2>2, <3>1, EnqueueBatchDoes, TailOf
    <3>3. CASE k = s[1]
      <4>1. delivered'[k] = 0
        BY <3>1, <3>2, <3>3 DEF Arrivals, Fresh
      <4>2. live'[k].attempts = 0
        BY <3>1, <3>3 DEF Inserted, NewRow
      <4> QED
        BY <4>1, <4>2 DEF Counted
    <3>4. CASE k # s[1]
      BY <3>1, <3>4, BalanceKeepsCount DEF Inserted, Balanced
    <3> QED
      BY <3>3, <3>4
  <2>3. CASE EnqueueRing(p)
    BY <2>3, EnqueueRingDoes, BalanceKeepsCount DEF Balanced, rows
  <2>4. CASE EnqueueNext(p)
    <3>1. pc[p] = "enqueueBatch" /\ delivered' = delivered /\ known' = known
      BY <2>4, EnqueueNextDoes
    <3>2. RowsStay \/ (todo[p] # <<>> /\ Inserted(todo[p][1]))
      BY <2>4, EnqueueNextDoes
    <3>3. CASE RowsStay
      BY <3>1, <3>3, BalanceKeepsCount DEF RowsStay, Balanced
    <3>4. CASE todo[p] # <<>> /\ Inserted(todo[p][1])
      <4>1. todo[p][1] \in Range(todo[p])
        BY <2>0, <3>4, TailOf, TodoIsJobs
      <4>2. delivered[todo[p][1]] = 0
        BY <2>0, <3>1, <4>1 DEF Arrivals, BatchesWait
      <4>3. CASE k = todo[p][1]
        <5>1. live'[k].attempts = 0
          BY <3>4, <4>3 DEF Inserted, NewRow
        <5> QED
          BY <3>1, <4>2, <4>3, <5>1 DEF Counted
      <4>4. CASE k # todo[p][1]
        BY <3>1, <3>4, <4>4, BalanceKeepsCount DEF Inserted, Balanced
      <4> QED
        BY <4>3, <4>4
    <3> QED
      BY <3>2, <3>3, <3>4
  <2> QED
    BY <1>1, <2>1, <2>2, <2>3, <2>4 DEF EnqueueSome, ProducerStep
<1>2. ASSUME NEW c \in Consumers, Dequeue(c), NEW k \in Jobs
      PROVE  Counted(k)'
  <2>0. c \in Callers
    BY CallerKinds
  <2>1. ASSUME NEW limit \in 1 .. Limit, DequeueRing(c, limit)
        PROVE  Counted(k)'
    <3>1. PICK s \in Seq(Jobs) : /\ Delivered(c, s)
                                 /\ \A j \in Jobs : Updated(j, j \in Range(s), "processing", 1)
      BY <2>1, DequeueRingDoes
    <3>2. Balanced(k)
      <4>1. (k \in Range(s)) \in BOOLEAN /\ Updated(k, k \in Range(s), "processing", 1)
        BY <3>1
      <4>2. delivered'[k] \in {delivered[k], IF k \in Range(s) THEN delivered[k] + 1 ELSE delivered[k]}
        BY <3>1 DEF Delivered
      <4> QED
        BY <4>1, <4>2 DEF Updated, Balanced
    <3>3. known' = known
      BY <2>1, DequeueRingDoes
    <3> QED
      BY <3>2, <3>3, BalanceKeepsCount
  <2>2. CASE (\E limit \in 1 .. Limit : DequeueCall(c, limit)) \/ DequeueSelect(c) \/ DequeueFill(c)
    <3>1. UNCHANGED <<rows, delivered, known>>
      BY <2>2, DequeueCallDoes, DequeueSelectDoes, DequeueFillDoes
    <3> QED
      BY <3>1, BalanceKeepsCount DEF Balanced, rows
  <2>3. CASE DequeueClaim(c)
    <3>1. PICK s \in Seq(Jobs) :
            /\ Len(s) <= Len(todo[c]) /\ (\A i \in 1 .. Len(s) : s[i] = todo[c][i])
            /\ Delivered(c, s)
      BY <2>3, DequeueClaimDoes
    <3>2. Updated(k, k \in Range(todo[c]), "processing", 1) /\ known' = known
      BY <2>3, DequeueClaimDoes
    <3>3. Range(s) \subseteq Range(todo[c])
      <4>1. todo[c] \in Seq(Jobs)
        BY <2>0, TodoIsJobs
      <4>2. \A i \in 1 .. Len(s) : i \in 1 .. Len(todo[c])
        BY <3>1, <4>1
      <4> QED
        BY <3>1, <4>1, <4>2 DEF Range
    <3>4. Balanced(k)
      <4>1. delivered'[k] \in {delivered[k], IF k \in Range(s) THEN delivered[k] + 1 ELSE delivered[k]}
        BY <3>1 DEF Delivered
      <4>2. k \in Range(s) => k \in Range(todo[c])
        BY <3>3
      <4> QED
        BY <3>2, <4>1, <4>2 DEF Updated, Balanced
    <3> QED
      BY <3>2, <3>4, BalanceKeepsCount
  <2> QED
    BY <1>2, <2>1, <2>2, <2>3 DEF Dequeue, DequeueStep
<1>3. ASSUME NEW c \in Consumers, FinishStep(c), NEW k \in Jobs
      PROVE  Counted(k)'
  <2>1. CASE \E js \in SUBSET Jobs : Complete(c, js)
    <3>1. PICK js \in SUBSET Jobs : Complete(c, js)
      BY <2>1
    <3>2. Updated(k, k \in js, "done", 0) /\ UNCHANGED <<known, delivered>>
      BY <3>1, CompleteDoes
    <3> QED
      BY <3>2, UpdateIsBalanced, BalanceKeepsCount
  <2>2. CASE \E f \in Failers, j \in Jobs : FailRead(f, c, j)
    <3>1. UNCHANGED <<rows, delivered, known>>
      BY <2>2, FailReadDoes
    <3> QED
      BY <3>1, BalanceKeepsCount DEF Balanced, rows
  <2> QED
    BY <1>3, <2>1, <2>2 DEF FinishStep
<1>7. ASSUME NEW f \in Failers, FailPush(f), NEW k \in Jobs
      PROVE  Counted(k)'
  <2>1. \E hit, status : Updated(k, hit, status, 0)
    BY <1>7, FailPushDoes
  <2>2. UNCHANGED <<delivered, known>>
    BY <1>7, FailPushDoes
  <2> QED
    BY <2>1, <2>2, UpdateIsBalanced, BalanceKeepsCount
<1>4. ASSUME NEW m \in Maintainers, MaintainStep(m), NEW k \in Jobs
      PROVE  Counted(k)'
  <2>1. CASE ReclaimSelect(m) \/ PruneSelect(m)
    <3>1. UNCHANGED <<rows, delivered, known>>
      BY <2>1, ReclaimSelectDoes, PruneSelectDoes
    <3> QED
      BY <3>1, BalanceKeepsCount DEF Balanced, rows
  <2>2. CASE Reclaim(m)
    <3>1. Updated(k, k \in {todo[m][1]}, "pending", 0) /\ UNCHANGED <<delivered, known>>
      BY <2>2, ReclaimDoes
    <3> QED
      BY <3>1, UpdateIsBalanced, BalanceKeepsCount
  <2>3. CASE Prune(m)
    <3>1. /\ live'[k] = live[k] \/ live'[k] = NoRow
          /\ UNCHANGED <<delivered, known>>
      BY <2>3, PruneDoes
    <3> QED
      BY <3>1, BalanceKeepsCount DEF Balanced
  <2> QED
    BY <1>4, <2>1, <2>2, <2>3 DEF MaintainStep
<1>5. ASSUME \/ \E j \in Jobs : Due(j) \/ Stale(j) \/ Old(j)
             \/ \E p \in Callers : CallTimeout(p)
             \/ Persist \/ UNCHANGED vars,
             NEW k \in Jobs
      PROVE  Counted(k)'
  <2>1. UNCHANGED <<live, delivered, known>>
    BY <1>5, DueDoes, StaleDoes, OldDoes, CallTimeoutDoes, PersistDoes DEF vars, rows
  <2> QED
    BY <2>1, BalanceKeepsCount DEF Balanced
<1>6. ASSUME Crash, NEW k \in Jobs
      PROVE  Counted(k)'
  BY <1>6, CrashDoes, BalanceKeepsCount DEF Balanced
<1> QED
  BY <1>1, <1>2, <1>3, <1>4, <1>5, <1>6, <1>7 DEF Next

\* Every dequeue that hands out a job has counted an attempt on its row, from the ring,
\* from the rows or from both, whatever fails, times out or crashes, in any number of
\* consumers.  Only what enqueueBatch() has put into the ring is exempt, and only until it
\* has pushed the insert.
THEOREM DeliveriesAreAttempts == Spec => []DeliveriesCount
<1> DEFINE Inv == Typed /\ Arrivals /\ \A j \in Jobs : Counted(j)
<1>1. Init => Inv
  <2> SUFFICES ASSUME Init PROVE Inv
    OBVIOUS
  <2>1. \A j \in Jobs : delivered[j] = 0 /\ live[j] \in {NewRow, NoRow}
    BY DEF Init
  <2>2. \A j \in Jobs : Counted(j)
    BY <2>1 DEF Counted, NewRow, NoRow
  <2> QED
    BY <2>2, TypedAtFirst, ArrivalsAtFirst
<1>2. Inv /\ [Next]_vars => Inv'
  <2> SUFFICES ASSUME Inv, [Next]_vars PROVE Inv'
    OBVIOUS
  <2>1. Typed'
    BY TypedKept
  <2>2. Arrivals'
    BY <2>1, ArrivalsKept
  <2>3. \A j \in Jobs : Counted(j)'
    BY <2>1, CountedKept
  <2> QED
    BY <2>1, <2>2, <2>3
<1>3. Inv => DeliveriesCount
  BY DEF DeliveriesCount, Counted
<1> QED
  BY <1>1, <1>2, <1>3, PTL DEF Spec

-----------------------------------------------------------------------------
(* What a select can tell from the statuses it has seen *)

SeenFits(j) ==
  /\ live[j] # NoRow => live[j].status \in seen[j] /\ live[j].status # "none"
  /\ live[j] = NoRow => seen[j] \subseteq {"none"}
  /\ stored[j] # NoRow => stored[j].status # "none"

\* A row that shows up under a status has it.
LEMMA ShowsTheRow ==
  ASSUME NEW j \in Jobs, SeenFits(j), NEW status \in Statuses, Shows(j, status)
  PROVE  live[j] # NoRow /\ live[j].status = status
BY DEF SeenFits, Shows, Statuses

LEMMA InsertFits ==
  ASSUME NEW j \in Jobs, Inserted(j), stored' = stored, NEW k \in Jobs, SeenFits(k)
  PROVE  SeenFits(k)'
BY DEF Inserted, SeenFits, NewRow, NoRow

LEMMA UpdateFits ==
  ASSUME NEW k \in Jobs, SeenFits(k), stored' = stored, NEW hit, NEW status \in Statuses,
         NEW increment, Updated(k, hit, status, increment)
  PROVE  SeenFits(k)'
BY DEF Updated, SeenFits, NoRow, Statuses

LEMMA SameFits ==
  ASSUME NEW k \in Jobs, SeenFits(k), stored'[k] = stored[k],
         \/ live'[k] = live[k] /\ seen'[k] = seen[k]
         \/ live'[k] = NoRow /\ seen'[k] = {"none"}
  PROVE  SeenFits(k)'
BY DEF SeenFits

LEMMA SeenFitsKept ==
  ASSUME Typed, [Next]_vars, NEW k \in Jobs, SeenFits(k)
  PROVE  SeenFits(k)'
<1>s. {"pending", "processing", "done", "failed"} \subseteq Statuses
  BY DEF Statuses
<1>1. ASSUME NEW p \in Producers, EnqueueSome(p) \/ ProducerStep(p)
      PROVE  SeenFits(k)'
  <2>1. ASSUME NEW j \in Jobs, NEW delayed \in BOOLEAN, Enqueue(p, j, delayed)
        PROVE  SeenFits(k)'
    BY <2>1, EnqueueDoes, InsertFits
  <2>2. ASSUME NEW s \in Batches, NEW due \in Sublists(s), EnqueueBatch(p, s, due)
        PROVE  SeenFits(k)'
    BY <2>2, EnqueueBatchDoes, TailOf, InsertFits
  <2>3. CASE EnqueueRing(p)
    BY <2>3, EnqueueRingDoes, SameFits DEF rows
  <2>4. CASE EnqueueNext(p)
    <3>1. stored' = stored /\ (RowsStay \/ (todo[p] # <<>> /\ Inserted(todo[p][1])))
      BY <2>4, EnqueueNextDoes
    <3>2. todo[p] \in Seq(Jobs)
      BY TodoIsJobs, CallerKinds
    <3>3. CASE RowsStay
      BY <3>1, <3>3, SameFits DEF RowsStay
    <3>4. CASE todo[p] # <<>> /\ Inserted(todo[p][1])
      BY <3>1, <3>2, <3>4, TailOf, InsertFits
    <3> QED
      BY <3>1, <3>3, <3>4
  <2> QED
    BY <1>1, <2>1, <2>2, <2>3, <2>4 DEF EnqueueSome, ProducerStep
<1>2. ASSUME NEW c \in Consumers, Dequeue(c)
      PROVE  SeenFits(k)'
  <2>1. ASSUME NEW limit \in 1 .. Limit, DequeueRing(c, limit)
        PROVE  SeenFits(k)'
    <3>1. stored' = stored /\ \E hit : Updated(k, hit, "processing", 1)
      BY <2>1, DequeueRingDoes
    <3> QED
      BY <1>s, <3>1, UpdateFits
  <2>2. CASE (\E limit \in 1 .. Limit : DequeueCall(c, limit)) \/ DequeueSelect(c) \/ DequeueFill(c)
    <3>1. UNCHANGED rows
      BY <2>2, DequeueCallDoes, DequeueSelectDoes, DequeueFillDoes
    <3> QED
      BY <3>1, SameFits DEF rows
  <2>3. CASE DequeueClaim(c)
    <3>1. stored' = stored /\ \E hit : Updated(k, hit, "processing", 1)
      BY <2>3, DequeueClaimDoes
    <3> QED
      BY <1>s, <3>1, UpdateFits
  <2> QED
    BY <1>2, <2>1, <2>2, <2>3 DEF Dequeue, DequeueStep
<1>3. ASSUME NEW c \in Consumers, FinishStep(c)
      PROVE  SeenFits(k)'
  <2>1. CASE \E js \in SUBSET Jobs : Complete(c, js)
    <3>1. stored' = stored /\ \E hit : Updated(k, hit, "done", 0)
      BY <2>1, CompleteDoes
    <3> QED
      BY <1>s, <3>1, UpdateFits
  <2>2. CASE \E f \in Failers, j \in Jobs : FailRead(f, c, j)
    <3>1. UNCHANGED rows
      BY <2>2, FailReadDoes
    <3> QED
      BY <3>1, SameFits DEF rows
  <2> QED
    BY <1>3, <2>1, <2>2 DEF FinishStep
<1>f. ASSUME NEW f \in Failers, FailPush(f)
      PROVE  SeenFits(k)'
  <2>1. \E hit : Updated(k, hit, "pending", 0) \/ Updated(k, hit, "failed", 0)
    BY <1>f, FailPushDoes
  <2>2. stored' = stored
    BY <1>f, FailPushDoes
  <2> QED
    BY <1>s, <2>1, <2>2, UpdateFits
<1>4. ASSUME NEW m \in Maintainers, MaintainStep(m)
      PROVE  SeenFits(k)'
  <2>1. CASE ReclaimSelect(m) \/ PruneSelect(m)
    <3>1. UNCHANGED rows
      BY <2>1, ReclaimSelectDoes, PruneSelectDoes
    <3> QED
      BY <3>1, SameFits DEF rows
  <2>2. CASE Reclaim(m)
    <3>1. stored' = stored /\ Updated(k, k \in {todo[m][1]}, "pending", 0)
      BY <2>2, ReclaimDoes
    <3> QED
      BY <1>s, <3>1, UpdateFits
  <2>3. CASE Prune(m)
    <3>1. stored' = stored
      BY <2>3, PruneDoes
    <3>2. \/ live'[k] = live[k] /\ seen'[k] = seen[k]
          \/ live'[k] = NoRow /\ seen'[k] = {"none"}
      BY <2>3, PruneDoes
    <3> QED
      BY <3>1, <3>2, SameFits
  <2> QED
    BY <1>4, <2>1, <2>2, <2>3 DEF MaintainStep
<1>5. CASE \/ \E j \in Jobs : Due(j) \/ Stale(j) \/ Old(j)
           \/ \E p \in Callers : CallTimeout(p)
           \/ UNCHANGED vars
  <2>1. UNCHANGED <<live, stored, seen>>
    BY <1>5, DueDoes, StaleDoes, OldDoes, CallTimeoutDoes DEF vars, rows
  <2> QED
    BY <2>1, SameFits
<1>6. CASE Persist
  BY <1>6, PersistDoes DEF SeenFits
<1>7. CASE Crash
  BY <1>7, CrashDoes DEF SeenFits
<1> QED
  BY <1>1, <1>2, <1>3, <1>4, <1>5, <1>6, <1>7, <1>f DEF Next

-----------------------------------------------------------------------------
(* Jobs that are about to be pruned *)

Unheld(j) == \A c \in Consumers : held[c][j] = 0

Unlisted(j) == \A p \in Callers : j \in Range(todo[p]) => pc[p] \in {"commit", "prune"}

\* Nobody works on the job.
Quiet(j) == Unheld(j) /\ ~InRing(j) /\ Unlisted(j)

\* The job has been done for a day, or a maintainer is about to delete its row.
Aged(j) == live[j].status = "done" /\ j \in late

Dying(j) == \E p \in Callers : pc[p] \in {"commit", "prune"} /\ j \in Range(todo[p])

Over(j) == live[j] = NoRow \/ live[j].status = "done"

\* A job that is about to be pruned is over and quiet: nothing will touch its row
\* between the select of the maintainer and the deletion.
Settled(j) == Aged(j) \/ Dying(j) => Quiet(j) /\ Over(j)

\* A step keeps a job settled if only settled jobs grow old or die, and a quiet job
\* stays as it is.
LEMMA SettledStays ==
  ASSUME NEW k \in Jobs, Settled(k), Dying(k)' => Aged(k) \/ Dying(k),
         Aged(k)' => Aged(k) \/ Dying(k),
         Quiet(k) /\ Over(k) => Quiet(k)' /\ Over(k)'
  PROVE  Settled(k)'
BY DEF Settled

LEMMA MovedAway ==
  ASSUME NEW p \in Callers, NEW place, NEW s, Moved(p, place, s), NEW k
  PROVE  /\ place \notin {"commit", "prune"} \/ k \notin Range(s) => (Dying(k)' => Dying(k))
         /\ Unlisted(k) /\ (k \in Range(s) => place \in {"commit", "prune"}) => Unlisted(k)'
<1>1. /\ pc'[p] = place /\ todo'[p] = s
      /\ \A q \in Callers : q # p => pc'[q] = pc[q] /\ todo'[q] = todo[q]
  BY DEF Moved
<1>2. ASSUME place \notin {"commit", "prune"} \/ k \notin Range(s), Dying(k)'
      PROVE  Dying(k)
  <2>1. PICK q \in Callers : pc'[q] \in {"commit", "prune"} /\ k \in Range(todo'[q])
    BY <1>2 DEF Dying, Callers, Range
  <2>2. q # p
    BY <1>1, <1>2, <2>1
  <2> QED
    BY <1>1, <2>1, <2>2 DEF Dying
<1>3. ASSUME Unlisted(k), k \in Range(s) => place \in {"commit", "prune"}
      PROVE  Unlisted(k)'
  <2>1. ASSUME NEW q \in Callers, k \in Range(todo'[q])
        PROVE  pc'[q] \in {"commit", "prune"}
    <3>1. CASE q = p
      BY <1>1, <1>3, <2>1, <3>1
    <3>2. CASE q # p
      BY <1>1, <1>3, <2>1, <3>2 DEF Unlisted
    <3> QED
      BY <3>1, <3>2
  <2> QED
    BY <2>1 DEF Unlisted, Callers, Range
<1> QED
  BY <1>2, <1>3

\* The call of p leaves the job alone.
LEMMA MovesOn ==
  ASSUME NEW p \in Callers, NEW place, NEW s, Moved(p, place, s), NEW k,
         place \notin {"commit", "prune"},
         k \in Range(s) => k \in Range(todo[p]) /\ pc[p] \notin {"commit", "prune"}
  PROVE  /\ Dying(k)' => Dying(k)
         /\ Unlisted(k) => Unlisted(k)'
BY MovedAway DEF Unlisted

LEMMA CallsKeepPlaces ==
  ASSUME UNCHANGED calls, NEW k
  PROVE  (Dying(k)' <=> Dying(k)) /\ (Unlisted(k)' <=> Unlisted(k))
BY DEF calls, Dying, Unlisted, Callers, Range

LEMMA RingKeepsPlaces ==
  ASSUME UNCHANGED ring, NEW k
  PROVE  InRing(k)' <=> InRing(k)
BY DEF ring, InRing, Indices

LEMMA FillsElsewhere ==
  ASSUME NEW s \in Seq(Jobs), Fills(s), NEW k, k \notin Range(s), ~InRing(k)
  PROVE  ~InRing(k)'
BY FillsFrom DEF InRing, Indices

LEMMA TakesElsewhere ==
  ASSUME NEW s \in Seq(Jobs), Takes(s), NEW k \in Jobs, ~InRing(k)
  PROVE  ~InRing(k)' /\ k \notin Range(s)
<1>1. \A i \in Indices : slots'[i] \in {slots[i], NoJob}
  BY TakesFrom
<1>2. k # NoJob
  OBVIOUS
<1>3. ~InRing(k)'
  BY <1>1, <1>2 DEF InRing, Indices
<1>4. k \notin Range(s)
  BY TakesFrom DEF InRing
<1> QED
  BY <1>3, <1>4

LEMMA DeliveredElsewhere ==
  ASSUME Typed, NEW c \in Consumers, NEW s \in Seq(Jobs), Delivered(c, s), NEW k \in Jobs, k \notin Range(s)
  PROVE  \A b \in Consumers : held'[b][k] = held[b][k]
<1>1. Occurrences(k, s) = 0
  BY OccurrencesCount
<1>2. held[c][k] \in Nat
  BY DEF Typed, HeldOK
<1> QED
  BY <1>1, <1>2 DEF Delivered

LEMMA HeldStays ==
  ASSUME NEW k \in Jobs, \A b \in Consumers : held'[b][k] = held[b][k]
  PROVE  Unheld(k)' <=> Unheld(k)
BY DEF Unheld

LEMMA NewIsUntouched ==
  ASSUME Arrivals, NEW k \in Jobs, New(k)
  PROVE  ~Dying(k) /\ ~Aged(k)
<1>1. live[k] = NoRow /\ ~Listed(k)
  BY DEF Arrivals, Fresh, Unseen
<1>2. ~Aged(k)
  BY <1>1 DEF Aged, NoRow
<1>3. ~Dying(k)
  BY <1>1 DEF Dying, Listed
<1> QED
  BY <1>2, <1>3

LEMMA InsertedRow ==
  ASSUME NEW j \in Jobs, Inserted(j), NEW k \in Jobs
  PROVE  /\ Aged(k)' => Aged(k)
         /\ k # j /\ Over(k) => Over(k)'
BY DEF Inserted, Aged, Over

LEMMA RowsKeepAge ==
  ASSUME NEW k \in Jobs, live'[k] = live[k], k \in late' <=> k \in late
  PROVE  (Aged(k)' <=> Aged(k)) /\ (Over(k)' <=> Over(k))
BY DEF Aged, Over

LEMMA EnqueueSettles ==
  ASSUME Typed, Arrivals, NEW p \in Producers, EnqueueSome(p) \/ ProducerStep(p),
         NEW k \in Jobs, Settled(k)
  PROVE  Settled(k)'
<1>0. p \in Callers
  BY CallerKinds
<1>1. ASSUME NEW j \in Jobs, NEW delayed \in BOOLEAN, Enqueue(p, j, delayed)
      PROVE  Settled(k)'
  <2>1. PICK place : place = IF delayed THEN "idle" ELSE "enqueue"
    OBVIOUS
  <2>2. PICK s : s = IF delayed THEN <<>> ELSE <<j>>
    OBVIOUS
  <2>3. New(j) /\ Inserted(j) /\ UNCHANGED <<ring, held>> /\ Moved(p, place, s)
    BY <1>1, <2>1, <2>2, EnqueueDoes
  <2>4. Range(s) \subseteq {j} /\ place \notin {"commit", "prune"}
    BY <2>1, <2>2 DEF Range
  <2>5. Dying(k)' => Dying(k)
    BY <1>0, <2>3, <2>4, MovedAway
  <2>6. Aged(k)' => Aged(k)
    BY <2>3, InsertedRow
  <2>7. CASE k = j
    <3>1. New(k)
      BY <2>3, <2>7 DEF New
    <3>2. ~Dying(k) /\ ~Aged(k)
      BY <3>1, NewIsUntouched
    <3> QED
      BY <2>5, <2>6, <3>2 DEF Settled
  <2>8. CASE k # j
    <3>1. Unlisted(k) => Unlisted(k)'
      BY <1>0, <2>3, <2>4, <2>8, MovedAway
    <3>2. Over(k) => Over(k)'
      BY <2>3, <2>8, InsertedRow
    <3>3. (InRing(k)' <=> InRing(k)) /\ (Unheld(k)' <=> Unheld(k))
      BY <2>3, RingKeepsPlaces, HeldStays
    <3> QED
      BY <2>5, <2>6, <3>1, <3>2, <3>3, SettledStays DEF Quiet
  <2> QED
    BY <2>7, <2>8
<1>2. ASSUME NEW s \in Batches, NEW due \in Sublists(s), EnqueueBatch(p, s, due)
      PROVE  Settled(k)'
  <2>1. /\ \A j \in Range(s) : New(j)
        /\ s \in Seq(Jobs) /\ s # <<>>
        /\ due \in Seq(Jobs) /\ Range(due) \subseteq Range(s) /\ Fills(due)
        /\ Inserted(s[1]) /\ UNCHANGED held /\ Moved(p, "enqueueBatch", Tail(s))
    BY <1>2, EnqueueBatchDoes
  <2>2. s[1] \in Jobs /\ s[1] \in Range(s) /\ Range(Tail(s)) \subseteq Range(s)
    BY <2>1, TailOf
  <2>3. Dying(k)' => Dying(k)
    BY <1>0, <2>1, MovedAway
  <2>4. Aged(k)' => Aged(k)
    BY <2>1, <2>2, InsertedRow
  <2>5. CASE k \in Range(s)
    <3>1. New(k)
      BY <2>1, <2>5 DEF New
    <3>2. ~Dying(k) /\ ~Aged(k)
      BY <3>1, NewIsUntouched
    <3> QED
      BY <2>3, <2>4, <3>2 DEF Settled
  <2>6. CASE k \notin Range(s)
    <3>1. Unlisted(k) => Unlisted(k)'
      BY <1>0, <2>1, <2>2, <2>6, MovedAway
    <3>2. Over(k) => Over(k)'
      BY <2>1, <2>2, <2>6, InsertedRow
    <3>3. ~InRing(k) => ~InRing(k)'
      BY <2>1, <2>6, FillsElsewhere
    <3>4. Unheld(k)' <=> Unheld(k)
      BY <2>1, HeldStays
    <3> QED
      BY <2>3, <2>4, <3>1, <3>2, <3>3, <3>4, SettledStays DEF Quiet
  <2> QED
    BY <2>5, <2>6
<1>3. CASE EnqueueRing(p)
  <2>1. /\ pc[p] = "enqueue" /\ Fills(todo[p]) /\ Moved(p, "idle", <<>>)
        /\ UNCHANGED <<rows, held>>
    BY <1>3, EnqueueRingDoes
  <2>2. todo[p] \in Seq(Jobs) /\ k \notin Range(<<>>)
    BY <1>0, TodoIsJobs DEF Range
  <2>3. (Dying(k)' => Dying(k)) /\ (Unlisted(k) => Unlisted(k)')
    BY <1>0, <2>1, <2>2, MovesOn
  <2>4. (Aged(k)' <=> Aged(k)) /\ (Over(k)' <=> Over(k))
    BY <2>1, RowsKeepAge DEF rows
  <2>5. Unlisted(k) => k \notin Range(todo[p])
    BY <1>0, <2>1 DEF Unlisted
  <2>6. Unlisted(k) /\ ~InRing(k) => ~InRing(k)'
    BY <2>1, <2>2, <2>5, FillsElsewhere
  <2>7. Unheld(k)' <=> Unheld(k)
    BY <2>1, HeldStays
  <2> QED
    BY <2>3, <2>4, <2>6, <2>7, SettledStays DEF Quiet
<1>4. CASE EnqueueNext(p)
  <2>1. pc[p] = "enqueueBatch" /\ UNCHANGED <<ring, held>>
    BY <1>4, EnqueueNextDoes
  <2>2. (InRing(k)' <=> InRing(k)) /\ (Unheld(k)' <=> Unheld(k))
    BY <2>1, RingKeepsPlaces, HeldStays
  <2>3. CASE Moved(p, "idle", <<>>) /\ RowsStay
    <3>1. k \notin Range(<<>>)
      BY DEF Range
    <3>2. (Dying(k)' => Dying(k)) /\ (Unlisted(k) => Unlisted(k)')
      BY <1>0, <2>3, <3>1, MovesOn
    <3>3. (Aged(k)' <=> Aged(k)) /\ (Over(k)' <=> Over(k))
      BY <2>3, RowsKeepAge DEF RowsStay
    <3> QED
      BY <2>2, <3>2, <3>3, SettledStays DEF Quiet
  <2>4. CASE /\ todo[p] # <<>> /\ Moved(p, "enqueueBatch", Tail(todo[p]))
             /\ Inserted(todo[p][1])
    <3>1. todo[p] \in Seq(Jobs)
      BY <1>0, TodoIsJobs
    <3>2. PICK j \in Jobs : j = todo[p][1] /\ j \in Range(todo[p])
      BY <2>4, <3>1, TailOf
    <3>3. Range(Tail(todo[p])) \subseteq Range(todo[p]) /\ Inserted(j)
      BY <2>4, <3>1, <3>2, TailOf
    <3>4. (Dying(k)' => Dying(k)) /\ (Unlisted(k) => Unlisted(k)')
      BY <1>0, <2>1, <2>4, <3>3, MovesOn
    <3>5. Aged(k)' => Aged(k)
      BY <3>3, InsertedRow
    <3>6. Unlisted(k) => k # j
      BY <1>0, <2>1, <3>2 DEF Unlisted
    <3>7. k # j /\ Over(k) => Over(k)'
      BY <3>3, InsertedRow
    <3> QED
      BY <2>2, <3>4, <3>5, <3>6, <3>7, SettledStays DEF Quiet
  <2> QED
    BY <1>4, <2>3, <2>4, EnqueueNextDoes
<1> QED
  BY <1>1, <1>2, <1>3, <1>4 DEF EnqueueSome, ProducerStep

LEMMA DequeueSettles ==
  ASSUME Typed, NEW c \in Consumers, Dequeue(c), NEW k \in Jobs, SeenFits(k), Settled(k)
  PROVE  Settled(k)'
<1>0. c \in Callers /\ k \notin Range(<<>>)
  BY CallerKinds DEF Range
<1>s. {"pending", "processing", "done", "failed"} \subseteq Statuses
  BY DEF Statuses
<1>1. ASSUME NEW limit \in 1 .. Limit, DequeueRing(c, limit)
      PROVE  Settled(k)'
  <2>1. UNCHANGED calls /\ \E s \in Seq(Jobs) :
          /\ Takes(s) /\ Delivered(c, s)
          /\ \A j \in Jobs : Updated(j, j \in Range(s), "processing", 1)
    BY <1>1, DequeueRingDoes
  <2>2. PICK s \in Seq(Jobs) :
          /\ Takes(s) /\ Delivered(c, s)
          /\ \A j \in Jobs : Updated(j, j \in Range(s), "processing", 1)
    BY <2>1
  <2>3. (Dying(k)' <=> Dying(k)) /\ (Unlisted(k)' <=> Unlisted(k))
    BY <2>1, CallsKeepPlaces
  <2>4. Updated(k, k \in Range(s), "processing", 1)
    BY <2>2
  <2>5. (Aged(k)' => Aged(k)) /\ (k \notin Range(s) /\ Over(k) => Over(k)')
    BY <2>4 DEF Updated, Aged, Over
  <2>6. ~InRing(k) => ~InRing(k)' /\ k \notin Range(s)
    BY <2>2, TakesElsewhere
  <2>7. k \notin Range(s) => (Unheld(k)' <=> Unheld(k))
    BY <2>2, DeliveredElsewhere, HeldStays
  <2> QED
    BY <2>3, <2>5, <2>6, <2>7, SettledStays DEF Quiet
<1>2. ASSUME NEW limit \in 1 .. Limit, DequeueCall(c, limit)
      PROVE  Settled(k)'
  <2>1. Moved(c, "select", <<>>) /\ UNCHANGED <<rows, ring, held>>
    BY <1>2, DequeueCallDoes
  <2>2. (Dying(k)' => Dying(k)) /\ (Unlisted(k) => Unlisted(k)')
    BY <1>0, <2>1, MovesOn
  <2>3. (Aged(k)' <=> Aged(k)) /\ (Over(k)' <=> Over(k))
    BY <2>1, RowsKeepAge DEF rows
  <2>4. (InRing(k)' <=> InRing(k)) /\ (Unheld(k)' <=> Unheld(k))
    BY <2>1, RingKeepsPlaces, HeldStays
  <2> QED
    BY <2>2, <2>3, <2>4, SettledStays DEF Quiet
<1>3. CASE DequeueSelect(c)
  <2>1. UNCHANGED <<rows, ring, held>> /\ \E s \in Seq(Jobs) :
              /\ Moved(c, IF s = <<>> THEN "idle" ELSE "fill", s)
              /\ \A j \in Range(s) : Findable(j)
    BY <1>3, DequeueSelectDoes
  <2>2. PICK s \in Seq(Jobs) : /\ Moved(c, IF s = <<>> THEN "idle" ELSE "fill", s)
                               /\ \A j \in Range(s) : Findable(j)
    BY <2>1
  <2>3. PICK place : place = IF s = <<>> THEN "idle" ELSE "fill"
    OBVIOUS
  <2>4. Moved(c, place, s) /\ place \notin {"commit", "prune"}
    BY <2>2, <2>3
  <2>5. Over(k) => k \notin Range(s)
    <3>1. k \in Range(s) => Shows(k, "pending")
      BY <2>2 DEF Findable
    <3> QED
      BY <1>s, <3>1, ShowsTheRow DEF Over
  <2>6. (Dying(k)' => Dying(k)) /\ (Unlisted(k) /\ Over(k) => Unlisted(k)')
    BY <1>0, <2>4, <2>5, MovedAway
  <2>7. (Aged(k)' <=> Aged(k)) /\ (Over(k)' <=> Over(k))
    BY <2>1, RowsKeepAge DEF rows
  <2>8. (InRing(k)' <=> InRing(k)) /\ (Unheld(k)' <=> Unheld(k))
    BY <2>1, RingKeepsPlaces, HeldStays
  <2> QED
    BY <2>6, <2>7, <2>8, SettledStays DEF Quiet
<1>4. CASE DequeueFill(c)
  <2>1. PICK s : s = SubSeq(todo[c], arg[c] + 1, Len(todo[c]))
    OBVIOUS
  <2>2. /\ pc[c] = "fill" /\ Moved(c, "claim", todo[c]) /\ UNCHANGED <<rows, held>>
        /\ s \in Seq(Jobs) /\ Fills(s)
    BY <1>4, <2>1, DequeueFillDoes
  <2>3. Range(s) \subseteq Range(todo[c])
    <3>1. todo[c] \in Seq(Jobs) /\ arg[c] + 1 \in Nat /\ arg[c] + 1 >= 1
      BY DEF Typed, CallsOK, Callers
    <3> QED
      BY <2>1, <3>1, SubSeqFrom
  <2>4. (Dying(k)' => Dying(k)) /\ (Unlisted(k) => Unlisted(k)')
    BY <1>0, <2>2, MovesOn
  <2>5. (Aged(k)' <=> Aged(k)) /\ (Over(k)' <=> Over(k))
    BY <2>2, RowsKeepAge DEF rows
  <2>6. Unlisted(k) => k \notin Range(s)
    BY <1>0, <2>2, <2>3 DEF Unlisted
  <2>7. Unlisted(k) /\ ~InRing(k) => ~InRing(k)'
    BY <2>2, <2>6, FillsElsewhere
  <2>8. Unheld(k)' <=> Unheld(k)
    BY <2>2, HeldStays
  <2> QED
    BY <2>4, <2>5, <2>7, <2>8, SettledStays DEF Quiet
<1>5. CASE DequeueClaim(c)
  <2>1. /\ pc[c] = "claim" /\ Moved(c, "idle", <<>>) /\ UNCHANGED ring
        /\ \A j \in Jobs : Updated(j, j \in Range(todo[c]), "processing", 1)
        /\ \E s \in Seq(Jobs) :
             /\ Len(s) <= Len(todo[c]) /\ (\A i \in 1 .. Len(s) : s[i] = todo[c][i])
             /\ Delivered(c, s)
    BY <1>5, DequeueClaimDoes
  <2>2. PICK s \in Seq(Jobs) :
             /\ Len(s) <= Len(todo[c]) /\ (\A i \in 1 .. Len(s) : s[i] = todo[c][i])
             /\ Delivered(c, s)
    BY <2>1
  <2>3. Range(s) \subseteq Range(todo[c])
    <3>1. todo[c] \in Seq(Jobs)
      BY <1>0, TodoIsJobs
    <3> QED
      BY <2>2, <3>1 DEF Range
  <2>4. Updated(k, k \in Range(todo[c]), "processing", 1)
    BY <2>1
  <2>5. (Aged(k)' => Aged(k)) /\ (k \notin Range(todo[c]) /\ Over(k) => Over(k)')
    BY <2>4 DEF Updated, Aged, Over
  <2>6. (Dying(k)' => Dying(k)) /\ (Unlisted(k) => Unlisted(k)')
    BY <1>0, <2>1, MovesOn
  <2>7. Unlisted(k) => k \notin Range(todo[c])
    BY <1>0, <2>1 DEF Unlisted
  <2>8. k \notin Range(todo[c]) => (Unheld(k)' <=> Unheld(k))
    BY <2>2, <2>3, DeliveredElsewhere, HeldStays
  <2>9. InRing(k)' <=> InRing(k)
    BY <2>1, RingKeepsPlaces
  <2> QED
    BY <2>5, <2>6, <2>7, <2>8, <2>9, SettledStays DEF Quiet
<1> QED
  BY <1>1, <1>2, <1>3, <1>4, <1>5 DEF Dequeue, DequeueStep

LEMMA FinishSettles ==
  ASSUME Typed, NEW c \in Consumers, FinishStep(c), NEW k \in Jobs, SeenFits(k), Settled(k)
  PROVE  Settled(k)'
<1>0. c \in Callers /\ k \notin Range(<<>>)
  BY CallerKinds DEF Range
<1>1. ASSUME NEW js \in SUBSET Jobs, Complete(c, js)
      PROVE  Settled(k)'
  <2>1. /\ (\A j \in js : held[c][j] > 0) /\ UNCHANGED <<ring, calls>>
        /\ \A j \in Jobs :
              /\ Updated(j, j \in js, "done", 0)
              /\ held'[c][j] = IF j \in js THEN held[c][j] - 1 ELSE held[c][j]
              /\ \A b \in Consumers : b # c => held'[b][j] = held[b][j]
    BY <1>1, CompleteDoes
  <2>2. Updated(k, k \in js, "done", 0)
    BY <2>1
  <2>3. (Aged(k)' => Aged(k)) /\ (k \notin js /\ Over(k) => Over(k)')
    BY <2>2 DEF Updated, Aged, Over
  <2>4. (Dying(k)' <=> Dying(k)) /\ (Unlisted(k)' <=> Unlisted(k)) /\ (InRing(k)' <=> InRing(k))
    BY <2>1, CallsKeepPlaces, RingKeepsPlaces
  <2>5. Unheld(k) => k \notin js
    BY <2>1 DEF Unheld
  <2>6. k \notin js => (Unheld(k)' <=> Unheld(k))
    BY <2>1, HeldStays
  <2> QED
    BY <2>3, <2>4, <2>5, <2>6, SettledStays DEF Quiet
<1>2. ASSUME NEW f \in Failers, NEW j \in Jobs, FailRead(f, c, j)
      PROVE  Settled(k)'
  <2>0. f \in Callers
    BY CallerKinds
  <2>1. /\ held[c][j] > 0 /\ UNCHANGED <<rows, ring>>
        /\ \A i \in Jobs :
              /\ held'[c][i] = IF i = j THEN held[c][i] - 1 ELSE held[c][i]
              /\ \A b \in Consumers : b # c => held'[b][i] = held[b][i]
        /\ UNCHANGED calls \/ Moved(f, "fail", <<j>>)
    BY <1>2, FailReadDoes
  <2>2. (Aged(k)' <=> Aged(k)) /\ (Over(k)' <=> Over(k)) /\ (InRing(k)' <=> InRing(k))
    BY <2>1, RowsKeepAge, RingKeepsPlaces DEF rows
  <2>3. Unheld(k) => k # j
    BY <2>1 DEF Unheld
  <2>4. k # j => (Unheld(k)' <=> Unheld(k))
    BY <2>1, HeldStays
  <2>5. (Dying(k)' => Dying(k)) /\ (k # j /\ Unlisted(k) => Unlisted(k)')
    <3>1. CASE UNCHANGED calls
      BY <3>1, CallsKeepPlaces
    <3>2. CASE Moved(f, "fail", <<j>>)
      <4>1. Range(<<j>>) = {j}
        BY DEF Range
      <4> QED
        BY <2>0, <3>2, <4>1, MovedAway
    <3> QED
      BY <2>1, <3>1, <3>2
  <2> QED
    BY <2>2, <2>3, <2>4, <2>5, SettledStays DEF Quiet
<1> QED
  BY <1>1, <1>2 DEF FinishStep

LEMMA FailPushSettles ==
  ASSUME Typed, NEW f \in Failers, FailPush(f), NEW k \in Jobs, SeenFits(k), Settled(k)
  PROVE  Settled(k)'
<1>0. f \in Callers /\ k \notin Range(<<>>)
  BY CallerKinds DEF Range
<1>1. /\ pc[f] = "fail" /\ Moved(f, "idle", <<>>) /\ UNCHANGED <<ring, held>>
      /\ \E j \in Jobs : todo[f] = <<j>> /\ \E status \in {"pending", "failed"} :
           \A i \in Jobs : Updated(i, i \in {j}, status, 0)
  BY FailPushDoes
<1>2. PICK j \in Jobs : todo[f] = <<j>> /\ \E status \in {"pending", "failed"} :
           \A i \in Jobs : Updated(i, i \in {j}, status, 0)
  BY <1>1
<1>3. (Aged(k)' => Aged(k)) /\ (k # j /\ Over(k) => Over(k)')
  BY <1>2 DEF Updated, Aged, Over
<1>4. (Dying(k)' => Dying(k)) /\ (Unlisted(k) => Unlisted(k)')
  BY <1>0, <1>1, MovesOn
<1>5. j \in Range(todo[f])
  BY <1>2 DEF Range
<1>6. Unlisted(k) => k # j
  BY <1>0, <1>1, <1>5 DEF Unlisted
<1>7. (InRing(k)' <=> InRing(k)) /\ (Unheld(k)' <=> Unheld(k))
  BY <1>1, RingKeepsPlaces, HeldStays
<1> QED
  BY <1>3, <1>4, <1>6, <1>7, SettledStays DEF Quiet

LEMMA MaintainSettles ==
  ASSUME Typed, NEW m \in Maintainers, MaintainStep(m), NEW k \in Jobs, SeenFits(k), Settled(k)
  PROVE  Settled(k)'
<1>0. m \in Callers /\ k \notin Range(<<>>)
  BY CallerKinds DEF Range
<1>s. {"pending", "processing", "done", "failed"} \subseteq Statuses
  BY DEF Statuses
<1>1. CASE ReclaimSelect(m)
  <2>1. UNCHANGED <<rows, ring, held>> /\ \E s \in Seq(Jobs) :
              /\ Moved(m, "reclaim", s) /\ \A j \in Range(s) : Shows(j, "processing")
    BY <1>1, ReclaimSelectDoes
  <2>2. PICK s \in Seq(Jobs) : Moved(m, "reclaim", s) /\ \A j \in Range(s) : Shows(j, "processing")
    BY <2>1
  <2>3. Over(k) => k \notin Range(s)
    BY <1>s, <2>2, ShowsTheRow DEF Over
  <2>4. (Dying(k)' => Dying(k)) /\ (Unlisted(k) /\ Over(k) => Unlisted(k)')
    BY <1>0, <2>2, <2>3, MovedAway
  <2>5. (Aged(k)' <=> Aged(k)) /\ (Over(k)' <=> Over(k))
    BY <2>1, RowsKeepAge DEF rows
  <2>6. (InRing(k)' <=> InRing(k)) /\ (Unheld(k)' <=> Unheld(k))
    BY <2>1, RingKeepsPlaces, HeldStays
  <2> QED
    BY <2>4, <2>5, <2>6, SettledStays DEF Quiet
<1>2. CASE Reclaim(m)
  <2>1. /\ pc[m] = "reclaim" /\ todo[m] # <<>> /\ Moved(m, "reclaim", Tail(todo[m]))
        /\ UNCHANGED <<ring, held>> /\ Updated(k, k \in {todo[m][1]}, "pending", 0)
    BY <1>2, ReclaimDoes
  <2>2. todo[m][1] \in Range(todo[m]) /\ Range(Tail(todo[m])) \subseteq Range(todo[m])
    BY <1>0, <2>1, TailOf, TodoIsJobs
  <2>3. (Aged(k)' => Aged(k)) /\ (k # todo[m][1] /\ Over(k) => Over(k)')
    BY <2>1 DEF Updated, Aged, Over
  <2>4. (Dying(k)' => Dying(k)) /\ (Unlisted(k) => Unlisted(k)')
    BY <1>0, <2>1, <2>2, MovesOn
  <2>5. Unlisted(k) => k # todo[m][1]
    BY <1>0, <2>1, <2>2 DEF Unlisted
  <2>6. (InRing(k)' <=> InRing(k)) /\ (Unheld(k)' <=> Unheld(k))
    BY <2>1, RingKeepsPlaces, HeldStays
  <2> QED
    BY <2>3, <2>4, <2>5, <2>6, SettledStays DEF Quiet
<1>3. CASE PruneSelect(m)
  <2>1. UNCHANGED <<rows, ring, held>> /\ \E s \in Seq(Jobs) :
              /\ Moved(m, IF s = <<>> THEN "idle" ELSE "commit", s)
              /\ \A j \in Range(s) : j \in late /\ Shows(j, "done")
    BY <1>3, PruneSelectDoes
  <2>2. PICK s \in Seq(Jobs) : /\ Moved(m, IF s = <<>> THEN "idle" ELSE "commit", s)
                               /\ \A j \in Range(s) : j \in late /\ Shows(j, "done")
    BY <2>1
  <2>3. PICK place : place = IF s = <<>> THEN "idle" ELSE "commit"
    OBVIOUS
  <2>4. Moved(m, place, s) /\ (k \in Range(s) => place = "commit")
    BY <1>0, <2>2, <2>3
  <2>5. k \in Range(s) => Aged(k)
    BY <1>s, <2>2, ShowsTheRow DEF Aged
  <2>6. (Dying(k)' => Aged(k) \/ Dying(k)) /\ (Unlisted(k) => Unlisted(k)')
    BY <1>0, <2>4, <2>5, MovedAway
  <2>7. (Aged(k)' <=> Aged(k)) /\ (Over(k)' <=> Over(k))
    BY <2>1, RowsKeepAge DEF rows
  <2>8. (InRing(k)' <=> InRing(k)) /\ (Unheld(k)' <=> Unheld(k))
    BY <2>1, RingKeepsPlaces, HeldStays
  <2> QED
    BY <2>6, <2>7, <2>8, SettledStays DEF Quiet
<1>4. CASE Prune(m)
  <2>1. /\ pc[m] \in {"commit", "prune"} /\ todo[m] # <<>> /\ UNCHANGED <<ring, held, late>>
        /\ Moved(m, IF Len(todo[m]) = 1 THEN "idle" ELSE "prune", Tail(todo[m]))
        /\ live'[k] \in {NoRow, live[k]}
    BY <1>4, PruneDoes
  <2>2. PICK place : place = IF Len(todo[m]) = 1 THEN "idle" ELSE "prune"
    OBVIOUS
  <2>3. PICK s : s = Tail(todo[m])
    OBVIOUS
  <2>4. todo[m] \in Seq(Jobs) /\ Range(s) \subseteq Range(todo[m])
    BY <1>0, <2>1, <2>3, TailOf, TodoIsJobs
  <2>5. k \in Range(s) => place = "prune"
    <3>1. CASE Len(todo[m]) = 1
      <4>1. s = <<>>
        BY <2>3, <2>4, <3>1
      <4> QED
        BY <1>0, <4>1
    <3> QED
      BY <2>2, <3>1
  <2>6. Moved(m, place, s)
    BY <2>1, <2>2, <2>3
  <2>7. k \in Range(s) => Dying(k)
    BY <1>0, <2>1, <2>4 DEF Dying
  <2>8. (Dying(k)' => Dying(k)) /\ (Unlisted(k) => Unlisted(k)')
    BY <1>0, <2>5, <2>6, <2>7, MovedAway
  <2>9. (Aged(k)' => Aged(k)) /\ (Over(k) => Over(k)')
    BY <2>1 DEF Aged, Over, NoRow
  <2>10. (InRing(k)' <=> InRing(k)) /\ (Unheld(k)' <=> Unheld(k))
    BY <2>1, RingKeepsPlaces, HeldStays
  <2> QED
    BY <2>8, <2>9, <2>10, SettledStays DEF Quiet
<1> QED
  BY <1>1, <1>2, <1>3, <1>4 DEF MaintainStep

LEMMA WorldSettles ==
  ASSUME Typed, NEW k \in Jobs, Settled(k),
         \/ \E j \in Jobs : Due(j) \/ Stale(j) \/ Old(j)
         \/ \E p \in Callers : CallTimeout(p)
         \/ Persist \/ Crash \/ UNCHANGED vars
  PROVE  Settled(k)'
<1>1. CASE \E j \in Jobs : Old(j)
  <2>1. PICK j \in Jobs : Old(j)
    BY <1>1
  <2>2. /\ live[j].status = "done" /\ late' = late \cup {j} /\ ~Busy(j)
        /\ UNCHANGED <<live, ring, calls, held>>
    BY <2>1, OldDoes
  <2>3. (Dying(k)' <=> Dying(k)) /\ (Unlisted(k)' <=> Unlisted(k)) /\ (InRing(k)' <=> InRing(k))
        /\ (Unheld(k)' <=> Unheld(k)) /\ (Over(k)' <=> Over(k))
    BY <2>2, CallsKeepPlaces, RingKeepsPlaces, HeldStays DEF Over
  <2>4. CASE k = j
    <3>1. Unheld(k) /\ ~InRing(k) /\ Unlisted(k)
      <4>1. \A c \in Consumers : held[c][k] \in Nat
        BY DEF Typed, HeldOK
      <4>2. Unheld(k)
        BY <2>2, <2>4, <4>1 DEF Busy, Unheld
      <4> QED
        BY <2>2, <2>4, <4>2 DEF Busy, InRing, Unlisted
    <3>2. Over(k)
      BY <2>2, <2>4 DEF Over
    <3> QED
      BY <2>3, <3>1, <3>2 DEF Settled, Quiet
  <2>5. CASE k # j
    <3>1. Aged(k)' => Aged(k)
      BY <2>2, <2>5 DEF Aged
    <3> QED
      BY <2>3, <3>1, SettledStays DEF Quiet
  <2> QED
    BY <2>4, <2>5
<1>2. CASE \/ \E j \in Jobs : Due(j) \/ Stale(j)
           \/ Persist \/ UNCHANGED vars
  <2>1. UNCHANGED <<live, ring, calls, held>>
    BY <1>2, DueDoes, StaleDoes, PersistDoes DEF vars, rows
  <2>2. late' = late \/ \E j \in Jobs : live[j].status = "processing" /\ late' = late \cup {j}
    BY <1>2, DueDoes, StaleDoes, PersistDoes DEF vars, rows
  <2>3. Aged(k)' => Aged(k)
    BY <2>1, <2>2 DEF Aged
  <2>4. (Dying(k)' <=> Dying(k)) /\ (Unlisted(k)' <=> Unlisted(k)) /\ (InRing(k)' <=> InRing(k))
        /\ (Unheld(k)' <=> Unheld(k)) /\ (Over(k)' <=> Over(k))
    BY <2>1, CallsKeepPlaces, RingKeepsPlaces, HeldStays DEF Over
  <2> QED
    BY <2>3, <2>4, SettledStays DEF Quiet
<1>3. CASE \E p \in Callers : CallTimeout(p)
  <2>1. PICK p \in Callers : CallTimeout(p)
    BY <1>3
  <2>2. Moved(p, "idle", <<>>) /\ UNCHANGED <<rows, ring, held>>
    BY <2>1, CallTimeoutDoes
  <2>3. k \notin Range(<<>>)
    BY DEF Range
  <2>4. (Dying(k)' => Dying(k)) /\ (Unlisted(k) => Unlisted(k)')
    BY <2>2, <2>3, MovesOn
  <2>5. (Aged(k)' <=> Aged(k)) /\ (Over(k)' <=> Over(k))
    BY <2>2, RowsKeepAge DEF rows
  <2>6. (InRing(k)' <=> InRing(k)) /\ (Unheld(k)' <=> Unheld(k))
    BY <2>2, RingKeepsPlaces, HeldStays
  <2> QED
    BY <2>4, <2>5, <2>6, SettledStays DEF Quiet
<1>4. CASE Crash
  <2>1. /\ \A i \in Indices : slots'[i] = NoJob
        /\ \A p \in Callers : todo'[p] = <<>>
        /\ \A c \in Consumers : held'[c][k] = 0
    BY <1>4, CrashDoes
  <2>2. k # NoJob /\ k \notin Range(<<>>)
    BY DEF Range
  <2>3. ~InRing(k)'
    BY <2>1, <2>2 DEF InRing, Indices
  <2>4. Unlisted(k)' /\ ~Dying(k)'
    BY <2>1, <2>2 DEF Unlisted, Dying, Callers, Range
  <2>5. Unheld(k)'
    BY <2>1 DEF Unheld
  <2>6. Aged(k)' => Over(k)'
    BY DEF Aged, Over
  <2> QED
    BY <2>3, <2>4, <2>5, <2>6 DEF Settled, Quiet
<1> QED
  BY <1>1, <1>2, <1>3, <1>4

LEMMA SettledKept ==
  ASSUME Typed, Arrivals, [Next]_vars, NEW k \in Jobs, SeenFits(k), Settled(k)
  PROVE  Settled(k)'
BY EnqueueSettles, DequeueSettles, FinishSettles, FailPushSettles, MaintainSettles, WorldSettles
   DEF Next

LEMMA SettledAtFirst ==
  ASSUME Init, NEW k \in Jobs
  PROVE  SeenFits(k) /\ Settled(k)
<1>1. /\ live[k] \in {NewRow, NoRow} /\ stored[k] = live[k]
      /\ seen[k] = IF k \in Backlog THEN {"pending"} ELSE {}
      /\ live[k] = IF k \in Backlog THEN NewRow ELSE NoRow
  BY DEF Init
<1>2. SeenFits(k)
  BY <1>1 DEF SeenFits, NewRow, NoRow
<1>3. ~Aged(k)
  BY <1>1 DEF Aged, NewRow, NoRow
<1>4. ~Dying(k)
  <2>1. \A p \in Callers : pc[p] = "idle"
    BY DEF Init
  <2> QED
    BY <2>1 DEF Dying
<1> QED
  BY <1>2, <1>3, <1>4 DEF Settled

-----------------------------------------------------------------------------
(* What can happen to a row, and what fail() has read *)

Arrives(j) ==
  /\ live'[j] = NewRow
  /\ New(j) \/ \E p \in Callers : pc[p] = "enqueueBatch" /\ j \in Range(todo[p])

Advances(j) ==
  /\ live[j] # NoRow /\ live'[j].attempts >= live[j].attempts
  /\ live'[j].status \in {"pending", "processing", "done"}

GivenUp(j) ==
  /\ live[j] # NoRow /\ live'[j] = [status |-> "failed", attempts |-> live[j].attempts]
  /\ \E f \in Failers : pc[f] = "fail" /\ j \in Range(todo[f]) /\ arg[f] >= MaxAttempts

Pruned(j) == live'[j] = NoRow /\ Dying(j)

\* An update to one of the three statuses of a job that goes on.
LEMMA UpdateAdvances ==
  ASSUME Typed, NEW k \in Jobs, NEW hit,
         \/ Updated(k, hit, "processing", 1) \/ Updated(k, hit, "pending", 0)
         \/ Updated(k, hit, "done", 0)
  PROVE  live'[k] = live[k] \/ Advances(k)
<1>1. live[k].attempts \in Nat
  BY DEF Typed, RowsOK, Row
<1>2. \A increment \in {0, 1} : live[k].attempts + increment >= live[k].attempts
  BY <1>1
<1> QED
  BY <1>2 DEF Updated, Advances

LEMMA InsertArrives ==
  ASSUME NEW j \in Jobs, Inserted(j), NEW k \in Jobs, k = j => New(k) \/
           \E p \in Callers : pc[p] = "enqueueBatch" /\ k \in Range(todo[p])
  PROVE  live'[k] = live[k] \/ Arrives(k)
BY DEF Inserted, Arrives

LEMMA RowSteps ==
  ASSUME Typed, [Next]_vars, NEW k \in Jobs
  PROVE  \/ Crash
         \/ live'[k] = live[k] \/ Arrives(k) \/ Advances(k) \/ GivenUp(k) \/ Pruned(k)
<1>1. ASSUME NEW p \in Producers, EnqueueSome(p) \/ ProducerStep(p)
      PROVE  live'[k] = live[k] \/ Arrives(k)
  <2>1. ASSUME NEW j \in Jobs, NEW delayed \in BOOLEAN, Enqueue(p, j, delayed)
        PROVE  live'[k] = live[k] \/ Arrives(k)
    <3>1. New(j) /\ Inserted(j)
      BY <2>1, EnqueueDoes
    <3>2. k = j => New(k)
      BY <3>1 DEF New
    <3> QED
      BY <3>1, <3>2, InsertArrives
  <2>2. ASSUME NEW s \in Batches, NEW due \in Sublists(s), EnqueueBatch(p, s, due)
        PROVE  live'[k] = live[k] \/ Arrives(k)
    <3>1. (\A j \in Range(s) : New(j)) /\ s \in Seq(Jobs) /\ s # <<>> /\ Inserted(s[1])
      BY <2>2, EnqueueBatchDoes
    <3>2. PICK j \in Jobs : j = s[1] /\ j \in Range(s)
      BY <3>1, TailOf
    <3>3. k = j => New(k)
      BY <3>1, <3>2 DEF New
    <3> QED
      BY <3>1, <3>2, <3>3, InsertArrives
  <2>3. CASE EnqueueRing(p)
    BY <2>3, EnqueueRingDoes DEF rows
  <2>4. CASE EnqueueNext(p)
    <3>1. pc[p] = "enqueueBatch" /\ (RowsStay \/ (todo[p] # <<>> /\ Inserted(todo[p][1])))
      BY <2>4, EnqueueNextDoes
    <3>2. todo[p] \in Seq(Jobs) /\ p \in Callers
      BY TodoIsJobs, CallerKinds
    <3>3. CASE RowsStay
      BY <3>3 DEF RowsStay
    <3>4. CASE todo[p] # <<>> /\ Inserted(todo[p][1])
      <4>1. PICK j \in Jobs : j = todo[p][1] /\ j \in Range(todo[p])
        BY <3>2, <3>4, TailOf
      <4>2. k = j => pc[p] = "enqueueBatch" /\ k \in Range(todo[p])
        BY <3>1, <4>1
      <4> QED
        BY <3>2, <3>4, <4>1, <4>2, InsertArrives
    <3> QED
      BY <3>1, <3>3, <3>4
  <2> QED
    BY <1>1, <2>1, <2>2, <2>3, <2>4 DEF EnqueueSome, ProducerStep
<1>2. ASSUME NEW c \in Consumers, Dequeue(c)
      PROVE  live'[k] = live[k] \/ Advances(k)
  <2>1. ASSUME NEW limit \in 1 .. Limit, DequeueRing(c, limit)
        PROVE  \E hit : Updated(k, hit, "processing", 1)
    BY <2>1, DequeueRingDoes
  <2>2. CASE (\E limit \in 1 .. Limit : DequeueCall(c, limit)) \/ DequeueSelect(c) \/ DequeueFill(c)
    <3>1. UNCHANGED rows
      BY <2>2, DequeueCallDoes, DequeueSelectDoes, DequeueFillDoes
    <3> QED
      BY <3>1 DEF rows
  <2>3. ASSUME DequeueClaim(c)
        PROVE  \E hit : Updated(k, hit, "processing", 1)
    BY <2>3, DequeueClaimDoes
  <2> QED
    BY <1>2, <2>1, <2>2, <2>3, UpdateAdvances DEF Dequeue, DequeueStep
<1>3. ASSUME NEW c \in Consumers, FinishStep(c)
      PROVE  live'[k] = live[k] \/ Advances(k)
  <2>1. CASE \E js \in SUBSET Jobs : Complete(c, js)
    <3>1. \E hit : Updated(k, hit, "done", 0)
      BY <2>1, CompleteDoes
    <3> QED
      BY <3>1, UpdateAdvances
  <2>2. CASE \E f \in Failers, j \in Jobs : FailRead(f, c, j)
    BY <2>2, FailReadDoes DEF rows
  <2> QED
    BY <1>3, <2>1, <2>2 DEF FinishStep
<1>6. ASSUME NEW f \in Failers, FailPush(f)
      PROVE  live'[k] = live[k] \/ Advances(k) \/ GivenUp(k)
  <2>1. pc[f] = "fail" /\ \E j \in Jobs :
            /\ todo[f] = <<j>>
            /\ \/ \A i \in Jobs : Updated(i, i \in {j}, "pending", 0)
               \/ /\ arg[f] >= MaxAttempts
                  /\ \A i \in Jobs : Updated(i, i \in {j}, "failed", 0)
    BY <1>6, FailPushDoes
  <2>2. PICK j \in Jobs :
            /\ todo[f] = <<j>>
            /\ \/ \A i \in Jobs : Updated(i, i \in {j}, "pending", 0)
               \/ /\ arg[f] >= MaxAttempts
                  /\ \A i \in Jobs : Updated(i, i \in {j}, "failed", 0)
    BY <2>1
  <2>3. CASE \A i \in Jobs : Updated(i, i \in {j}, "pending", 0)
    <3>1. \E hit : Updated(k, hit, "pending", 0)
      BY <2>3
    <3> QED
      BY <3>1, UpdateAdvances
  <2>4. CASE arg[f] >= MaxAttempts /\ \A i \in Jobs : Updated(i, i \in {j}, "failed", 0)
    <3>1. Updated(k, k \in {j}, "failed", 0)
      BY <2>4
    <3>2. live[k].attempts \in Nat
      BY DEF Typed, RowsOK, Row
    <3>3. live[k].attempts + 0 = live[k].attempts
      BY <3>2
    <3>4. j \in Range(todo[f])
      BY <2>2 DEF Range
    <3> QED
      BY <2>1, <2>4, <3>1, <3>3, <3>4 DEF Updated, GivenUp
  <2> QED
    BY <2>2, <2>3, <2>4
<1>4. ASSUME NEW m \in Maintainers, MaintainStep(m)
      PROVE  live'[k] = live[k] \/ Advances(k) \/ Pruned(k)
  <2>1. CASE ReclaimSelect(m) \/ PruneSelect(m)
    BY <2>1, ReclaimSelectDoes, PruneSelectDoes DEF rows
  <2>2. CASE Reclaim(m)
    <3>1. \E hit : Updated(k, hit, "pending", 0)
      BY <2>2, ReclaimDoes
    <3> QED
      BY <3>1, UpdateAdvances
  <2>3. CASE Prune(m)
    <3>1. /\ pc[m] \in {"commit", "prune"} /\ todo[m] # <<>>
          /\ live'[k] = live[k] \/ (k = todo[m][1] /\ live'[k] = NoRow)
      BY <2>3, PruneDoes
    <3>2. todo[m][1] \in Range(todo[m]) /\ m \in Callers
      BY <3>1, TailOf, TodoIsJobs, CallerKinds
    <3> QED
      BY <3>1, <3>2 DEF Pruned, Dying
  <2> QED
    BY <1>4, <2>1, <2>2, <2>3 DEF MaintainStep
<1>5. CASE \/ \E j \in Jobs : Due(j) \/ Stale(j) \/ Old(j)
           \/ \E p \in Callers : CallTimeout(p)
           \/ Persist \/ UNCHANGED vars
  BY <1>5, DueDoes, StaleDoes, OldDoes, CallTimeoutDoes, PersistDoes DEF vars, rows
<1> QED
  BY <1>1, <1>2, <1>3, <1>4, <1>5, <1>6 DEF Next

\* fail() has read no more attempts than the row counts.
ReadFits(f, j) ==
  pc[f] = "fail" /\ j \in Range(todo[f]) /\ live[j] # NoRow => arg[f] <= live[j].attempts

Reads(f, j) == live[j] # NoRow /\ live'[j] = live[j] /\ arg'[f] = live[j].attempts

FailGoesOn(f) == pc[f] = "fail" /\ todo'[f] = todo[f] /\ arg'[f] = arg[f]

LEMMA OthersGoOn ==
  ASSUME NEW p \in Callers, NEW place, NEW s, Moved(p, place, s), place # "fail",
         NEW f \in Failers, f # p => arg'[f] = arg[f], pc'[f] = "fail"
  PROVE  FailGoesOn(f)
BY CallerKinds DEF Moved, FailGoesOn

LEMMA FailSteps ==
  ASSUME Typed, [Next]_vars, NEW f \in Failers, NEW k \in Jobs,
         pc'[f] = "fail", k \in Range(todo'[f])
  PROVE  FailGoesOn(f) \/ Reads(f, k)
<1> USE CallerKinds
<1>1. ASSUME NEW p \in Producers, EnqueueSome(p) \/ ProducerStep(p)
      PROVE  FailGoesOn(f)
  <2>1. /\ arg' = arg
        /\ \E place, s : Moved(p, place, s) /\ place # "fail"
    <3>1. ASSUME NEW j \in Jobs, NEW delayed \in BOOLEAN, Enqueue(p, j, delayed)
          PROVE  arg' = arg /\ \E place, s : Moved(p, place, s) /\ place # "fail"
      <4>1. PICK place : place = IF delayed THEN "idle" ELSE "enqueue"
        OBVIOUS
      <4>2. PICK s : s = IF delayed THEN <<>> ELSE <<j>>
        OBVIOUS
      <4>3. arg' = arg /\ Moved(p, place, s)
        BY <3>1, <4>1, <4>2, EnqueueDoes
      <4> QED
        BY <4>1, <4>3
    <3>2. ASSUME NEW s \in Batches, NEW due \in Sublists(s), EnqueueBatch(p, s, due)
          PROVE  arg' = arg /\ Moved(p, "enqueueBatch", Tail(s))
      BY <3>2, EnqueueBatchDoes
    <3>3. CASE EnqueueRing(p) \/ EnqueueNext(p)
      BY <3>3, EnqueueRingDoes, EnqueueNextDoes
    <3> QED
      BY <1>1, <3>1, <3>2, <3>3 DEF EnqueueSome, ProducerStep
  <2> QED
    BY <2>1, OthersGoOn
<1>2. ASSUME NEW b \in Consumers, Dequeue(b)
      PROVE  FailGoesOn(f)
  <2>1. ASSUME NEW limit \in 1 .. Limit, DequeueRing(b, limit)
        PROVE  FailGoesOn(f)
    <3>1. UNCHANGED calls
      BY <2>1, DequeueRingDoes
    <3> QED
      BY <3>1 DEF calls, FailGoesOn
  <2>2. ASSUME NEW limit \in 1 .. Limit, DequeueCall(b, limit)
        PROVE  FailGoesOn(f)
    <3>1. Moved(b, "select", <<>>) /\ (f # b => arg'[f] = arg[f])
      BY <2>2, DequeueCallDoes
    <3> QED
      BY <3>1, OthersGoOn
  <2>3. CASE DequeueSelect(b)
    <3>1. (f # b => arg'[f] = arg[f]) /\ \E s \in Seq(Jobs) :
            Moved(b, IF s = <<>> THEN "idle" ELSE "fill", s)
      BY <2>3, DequeueSelectDoes
    <3>2. PICK s \in Seq(Jobs) : Moved(b, IF s = <<>> THEN "idle" ELSE "fill", s)
      BY <3>1
    <3>3. PICK place : place = IF s = <<>> THEN "idle" ELSE "fill"
      OBVIOUS
    <3>4. Moved(b, place, s) /\ place # "fail"
      BY <3>2, <3>3
    <3> QED
      BY <3>1, <3>4, OthersGoOn
  <2>4. CASE DequeueFill(b)
    <3>1. Moved(b, "claim", todo[b]) /\ arg' = arg
      BY <2>4, DequeueFillDoes
    <3> QED
      BY <3>1, OthersGoOn
  <2>5. CASE DequeueClaim(b)
    <3>1. Moved(b, "idle", <<>>) /\ (f # b => arg'[f] = arg[f])
      BY <2>5, DequeueClaimDoes
    <3> QED
      BY <3>1, OthersGoOn
  <2> QED
    BY <1>2, <2>1, <2>2, <2>3, <2>4, <2>5 DEF Dequeue, DequeueStep
<1>3. ASSUME NEW b \in Consumers, FinishStep(b)
      PROVE  FailGoesOn(f) \/ Reads(f, k)
  <2>1. CASE \E js \in SUBSET Jobs : Complete(b, js)
    <3>1. UNCHANGED calls
      BY <2>1, CompleteDoes
    <3> QED
      BY <3>1 DEF calls, FailGoesOn
  <2>2. ASSUME NEW g \in Failers, NEW j \in Jobs, FailRead(g, b, j)
        PROVE  FailGoesOn(f) \/ Reads(f, k)
    <3>1. /\ (f # g => arg'[f] = arg[f]) /\ UNCHANGED rows
          /\ \/ UNCHANGED calls
             \/ live[j] # NoRow /\ Moved(g, "fail", <<j>>) /\ arg'[g] = live[j].attempts
      BY <2>2, FailReadDoes
    <3>2. CASE UNCHANGED calls
      BY <3>2 DEF calls, FailGoesOn
    <3>3. CASE live[j] # NoRow /\ Moved(g, "fail", <<j>>) /\ arg'[g] = live[j].attempts
      <4>1. Range(<<j>>) = {j}
        BY DEF Range
      <4>2. f = g => k = j
        BY <3>3, <4>1 DEF Moved
      <4> QED
        BY <3>1, <3>3, <4>2 DEF Moved, Reads, FailGoesOn, rows
    <3> QED
      BY <3>1, <3>2, <3>3
  <2> QED
    BY <1>3, <2>1, <2>2 DEF FinishStep
<1>8. ASSUME NEW g \in Failers, FailPush(g)
      PROVE  FailGoesOn(f)
  <2>1. Moved(g, "idle", <<>>) /\ (f # g => arg'[f] = arg[f])
    BY <1>8, FailPushDoes
  <2> QED
    BY <2>1, OthersGoOn
<1>4. ASSUME NEW m \in Maintainers, MaintainStep(m)
      PROVE  FailGoesOn(f)
  <2>1. arg' = arg
    BY <1>4, ReclaimSelectDoes, ReclaimDoes, PruneSelectDoes, PruneDoes DEF MaintainStep
  <2>2. \E place, s : Moved(m, place, s) /\ place # "fail"
    <3>1. CASE ReclaimSelect(m) \/ Reclaim(m)
      BY <3>1, ReclaimSelectDoes, ReclaimDoes
    <3>2. CASE PruneSelect(m)
      <4>1. PICK s : Moved(m, IF s = <<>> THEN "idle" ELSE "commit", s)
        BY <3>2, PruneSelectDoes
      <4>2. PICK place : place = IF s = <<>> THEN "idle" ELSE "commit"
        OBVIOUS
      <4>3. Moved(m, place, s) /\ place # "fail"
        BY <4>1, <4>2
      <4> QED
        BY <4>3
    <3>3. CASE Prune(m)
      <4>1. Moved(m, IF Len(todo[m]) = 1 THEN "idle" ELSE "prune", Tail(todo[m]))
        BY <3>3, PruneDoes
      <4>2. PICK place : place = IF Len(todo[m]) = 1 THEN "idle" ELSE "prune"
        OBVIOUS
      <4>3. Moved(m, place, Tail(todo[m])) /\ place # "fail"
        BY <4>1, <4>2
      <4> QED
        BY <4>3
    <3> QED
      BY <1>4, <3>1, <3>2, <3>3 DEF MaintainStep
  <2> QED
    BY <2>1, <2>2, OthersGoOn
<1>5. CASE \E p \in Callers : CallTimeout(p)
  <2>1. PICK p \in Callers : Moved(p, "idle", <<>>) /\ (f # p => arg'[f] = arg[f])
    BY <1>5, CallTimeoutDoes
  <2> QED
    BY <2>1, OthersGoOn
<1>6. CASE (\E j \in Jobs : Due(j) \/ Stale(j) \/ Old(j)) \/ Persist \/ UNCHANGED vars
  <2>1. UNCHANGED calls
    BY <1>6, DueDoes, StaleDoes, OldDoes, PersistDoes DEF vars
  <2> QED
    BY <2>1 DEF calls, FailGoesOn
<1>7. CASE Crash
  BY <1>7, CrashDoes
<1> QED
  BY <1>1, <1>2, <1>3, <1>4, <1>5, <1>6, <1>7, <1>8 DEF Next

LEMMA ReadFitsKept ==
  ASSUME Typed, Arrivals, [Next]_vars, NEW f \in Failers, NEW k \in Jobs, ReadFits(f, k)
  PROVE  ReadFits(f, k)'
<1> SUFFICES ASSUME pc'[f] = "fail", k \in Range(todo'[f]), live'[k] # NoRow
             PROVE  arg'[f] <= live'[k].attempts
  BY DEF ReadFits, Range
<1>1. f \in Callers /\ ~Crash
  BY CallerKinds, CrashDoes
<1>2. /\ live[k].attempts \in Nat /\ live'[k].attempts \in Nat
      /\ arg[f] \in Nat
  <2>1. Typed'
    BY TypedKept
  <2>2. live[k] \in Row /\ live'[k] \in Row
    BY <2>1 DEF Typed, RowsOK
  <2> QED
    BY <2>2 DEF Typed, CallsOK, Row
<1>3. CASE Reads(f, k)
  BY <1>2, <1>3 DEF Reads
<1>4. CASE FailGoesOn(f)
  <2>1. pc[f] = "fail" /\ k \in Range(todo[f]) /\ arg'[f] = arg[f]
    BY <1>4 DEF FailGoesOn
  <2>2. ~Arrives(k)
    BY <1>1, <2>1 DEF Arrives, Arrivals, Fresh, Listed, BatchesWait
  <2>3. ~Pruned(k)
    BY DEF Pruned
  <2>4. live'[k] = live[k] \/ Advances(k) \/ GivenUp(k)
    BY <1>1, <2>2, <2>3, RowSteps
  <2>5. live[k] # NoRow /\ live'[k].attempts >= live[k].attempts
    BY <1>2, <2>4 DEF Advances, GivenUp
  <2> QED
    BY <1>2, <2>1, <2>5 DEF ReadFits
<1> QED
  BY <1>3, <1>4, FailSteps

QueueInv ==
  /\ Typed /\ Arrivals
  /\ \A j \in Jobs : SeenFits(j) /\ Settled(j) /\ \A f \in Failers : ReadFits(f, j)

LEMMA QueueInvAtFirst ==
  ASSUME Init
  PROVE  QueueInv
<1>1. Typed /\ Arrivals
  BY TypedAtFirst, ArrivalsAtFirst
<1>2. \A j \in Jobs : SeenFits(j) /\ Settled(j)
  BY SettledAtFirst
<1>3. \A f \in Failers : pc[f] = "idle"
  BY CallerKinds DEF Init
<1> QED
  BY <1>1, <1>2, <1>3 DEF QueueInv, ReadFits

LEMMA QueueInvKept ==
  ASSUME QueueInv, [Next]_vars
  PROVE  QueueInv'
<1>1. Typed' /\ Arrivals'
  BY TypedKept, ArrivalsKept DEF QueueInv
<1>2. \A j \in Jobs : SeenFits(j)' /\ Settled(j)'
  BY SeenFitsKept, SettledKept DEF QueueInv
<1>3. \A j \in Jobs : \A f \in Failers : ReadFits(f, j)'
  BY ReadFitsKept DEF QueueInv
<1> QED
  BY <1>1, <1>2, <1>3 DEF QueueInv

LEMMA RowsEndWell ==
  ASSUME QueueInv, [Next]_vars, crashes' = crashes, NEW j \in Jobs
  PROVE  /\ live'[j].status = "failed" /\ live[j].status # "failed"
              => live[j].attempts >= MaxAttempts
         /\ live'[j] = NoRow /\ live[j] # NoRow => live[j].status = "done"
<1>1. Typed /\ Arrivals /\ Settled(j) /\ \A f \in Failers : ReadFits(f, j)
  BY DEF QueueInv
<1>2. ~Crash
  <2>1. crashes \in Nat
    BY <1>1 DEF Typed, CountsOK
  <2> QED
    BY <1>1, <2>1, CrashDoes
<1>3. ASSUME GivenUp(j)
      PROVE  live[j].attempts >= MaxAttempts /\ live'[j] # NoRow
  <2>1. PICK f \in Failers : pc[f] = "fail" /\ j \in Range(todo[f]) /\ arg[f] >= MaxAttempts
    BY <1>3 DEF GivenUp
  <2>2. arg[f] <= live[j].attempts
    BY <1>1, <1>3, <2>1 DEF ReadFits, GivenUp
  <2>3. arg[f] \in Nat /\ live[j].attempts \in Nat
    BY <1>1 DEF Typed, CallsOK, RowsOK, Row
  <2>4. live'[j].status = "failed"
    BY <1>3 DEF GivenUp
  <2> QED
    BY <2>1, <2>2, <2>3, <2>4 DEF NoRow
<1>4. ASSUME Pruned(j)
      PROVE  live'[j] = NoRow /\ (live[j] # NoRow => live[j].status = "done")
  BY <1>1, <1>4 DEF Pruned, Settled, Over
<1>5. CASE live'[j] = live[j]
  BY <1>5
<1>6. CASE Arrives(j)
  BY <1>6 DEF Arrives, NewRow, NoRow
<1>7. CASE Advances(j)
  BY <1>7 DEF Advances, NoRow
<1> QED
  BY <1>1, <1>2, <1>3, <1>4, <1>5, <1>6, <1>7, RowSteps DEF NoRow

\* Unless the process crashes, a job is given up only when its row counts MaxAttempts
\* attempts, and a row disappears only when its job is done: neither a delivery between
\* the two halves of fail(), nor anything between the select of a maintainer and its
\* deletions, makes it otherwise.
THEOREM FailsOnlyAtTheEnd == Spec => FailsAtTheEnd
<1>1. Init => QueueInv
  BY QueueInvAtFirst
<1>2. QueueInv /\ [Next]_vars => QueueInv'
  BY QueueInvKept
<1>3. QueueInv /\ [Next]_vars =>
        [crashes' = crashes => \A j \in Jobs :
           /\ live'[j].status = "failed" /\ live[j].status # "failed" => live[j].attempts >= MaxAttempts
           /\ live'[j] = NoRow /\ live[j] # NoRow => live[j].status = "done"]_vars
  BY RowsEndWell
<1> QED
  BY <1>1, <1>2, <1>3, PTL DEF Spec, FailsAtTheEnd

-----------------------------------------------------------------------------
(* stop() and the outcomes of a loop *)

OnConsumers(f) == f = [c \in Consumers |-> f[c]]

\* The variables of a loop, one consumer at a time.
LoopShape ==
  /\ OnConsumers(loop) /\ OnConsumers(flight) /\ OnConsumers(completions)
  /\ OnConsumers(failures) /\ OnConsumers(failing)
  /\ \A c \in Consumers : failing[c] = [by \in Flushers |-> failing[c][by]]

\* From the last flush of a loop on, it has no handlers and no outcomes, and at its end
\* that flush has pushed all it took.
Closing(c) ==
  /\ loop[c] \in {"final", "ended"} =>
       flight[c] = <<>> /\ completions[c] = <<>> /\ failures[c] = <<>>
  /\ loop[c] = "ended" => failing[c].loop = <<>>

StopInv == LoopShape /\ \A c \in Consumers : Closing(c)

\* Only loop c has moved.
OnlyLoop(c) ==
  \A d \in Consumers : d # c =>
    /\ loop'[d] = loop[d] /\ flight'[d] = flight[d] /\ completions'[d] = completions[d]
    /\ failures'[d] = failures[d] /\ failing'[d] = failing[d]

LEMMA OnlyLoopKeeps ==
  ASSUME StopInv, NEW c \in Consumers, LoopShape', OnlyLoop(c), Closing(c)'
  PROVE  StopInv'
<1>1. ASSUME NEW d \in Consumers
      PROVE  Closing(d)'
  <2>1. CASE d = c
    BY <2>1
  <2>2. CASE d # c
    BY <2>2 DEF StopInv, Closing, OnlyLoop
  <2> QED
    BY <2>1, <2>2
<1> QED
  BY <1>1 DEF StopInv

LEMMA GoToDoes ==
  ASSUME LoopShape, NEW c \in Consumers, NEW place, GoTo(c, place)
  PROVE  /\ OnConsumers(loop)' /\ loop'[c] = place
         /\ \A d \in Consumers : d # c => loop'[d] = loop[d]
<1>1. OnConsumers(loop) /\ loop' = [loop EXCEPT ![c] = place]
  BY DEF LoopShape, GoTo
<1>2. PICK g : g = loop'
  OBVIOUS
<1>3. OnConsumers(g) /\ g[c] = place /\ \A d \in Consumers : d # c => g[d] = loop[d]
  BY <1>1, <1>2 DEF OnConsumers
<1> QED
  BY <1>2, <1>3 DEF OnConsumers

LEMMA StartDoes ==
  ASSUME LoopShape, NEW c \in Consumers, NEW s, Start(c, s)
  PROVE  /\ OnConsumers(flight)'
         /\ \A d \in Consumers : d # c => flight'[d] = flight[d]
<1>1. PICK e : flight' = [flight EXCEPT ![c] = e]
  BY DEF Start
<1>2. PICK g : g = flight'
  OBVIOUS
<1>3. OnConsumers(g) /\ \A d \in Consumers : d # c => g[d] = flight[d]
  BY <1>1, <1>2 DEF LoopShape, OnConsumers
<1> QED
  BY <1>2, <1>3 DEF OnConsumers

\* What one entry of failing becomes.
LEMMA FailingDoes ==
  ASSUME LoopShape, NEW c \in Consumers, NEW by \in Flushers, NEW s,
         failing' = [failing EXCEPT ![c][by] = s]
  PROVE  /\ OnConsumers(failing)'
         /\ \A d \in Consumers : failing'[d] = [b \in Flushers |-> failing'[d][b]]
         /\ failing'[c][by] = s
         /\ \A b \in Flushers : b # by => failing'[c][b] = failing[c][b]
         /\ \A d \in Consumers : d # c => failing'[d] = failing[d]
<1>1. PICK e : e = [failing[c] EXCEPT ![by] = s]
  OBVIOUS
<1>2. PICK g : g = failing'
  OBVIOUS
<1>3. g = [failing EXCEPT ![c] = e]
  BY <1>1, <1>2
<1>4. OnConsumers(g) /\ g[c] = e /\ \A d \in Consumers : d # c => g[d] = failing[d]
  BY <1>3 DEF LoopShape, OnConsumers
<1>5. e = [b \in Flushers |-> IF b = by THEN s ELSE failing[c][b]]
  BY <1>1 DEF LoopShape
<1>6. \A d \in Consumers : g[d] = [b \in Flushers |-> g[d][b]]
  <2>1. g[c] = [b \in Flushers |-> g[c][b]]
    BY <1>4, <1>5
  <2>2. \A d \in Consumers : d # c => g[d] = [b \in Flushers |-> g[d][b]]
    BY <1>4 DEF LoopShape
  <2> QED
    BY <2>1, <2>2
<1>7. OnConsumers(failing)'
  BY <1>2, <1>4 DEF OnConsumers
<1> QED
  BY <1>2, <1>4, <1>5, <1>6, <1>7

LEMMA FlushDoes ==
  ASSUME LoopShape, NEW c \in Consumers, NEW by \in Flushers, Flush(c, by)
  PROVE  /\ OnConsumers(completions)' /\ OnConsumers(failures)' /\ OnConsumers(failing)'
         /\ \A d \in Consumers : failing'[d] = [b \in Flushers |-> failing'[d][b]]
         /\ completions'[c] = <<>> /\ failures'[c] = <<>>
         /\ by = "task" => failing'[c].loop = failing[c].loop
         /\ \A d \in Consumers : d # c =>
              /\ completions'[d] = completions[d] /\ failures'[d] = failures[d]
              /\ failing'[d] = failing[d]
<1>1. /\ failing' = [failing EXCEPT ![c][by] = failing[c][by] \o failures[c]]
      /\ completions' = [completions EXCEPT ![c] = <<>>]
      /\ failures' = [failures EXCEPT ![c] = <<>>]
  BY DEF Flush
<1>2. OnConsumers(completions)' /\ OnConsumers(failures)'
  BY <1>1 DEF LoopShape, OnConsumers
<1>3. /\ completions'[c] = <<>> /\ failures'[c] = <<>>
      /\ \A d \in Consumers : d # c => completions'[d] = completions[d] /\ failures'[d] = failures[d]
  BY <1>1 DEF LoopShape, OnConsumers
<1>4. PICK s : s = failing[c][by] \o failures[c]
  OBVIOUS
<1>5. failing' = [failing EXCEPT ![c][by] = s]
  BY <1>1, <1>4
<1>6. /\ OnConsumers(failing)'
      /\ \A d \in Consumers : failing'[d] = [b \in Flushers |-> failing'[d][b]]
      /\ \A b \in Flushers : b # by => failing'[c][b] = failing[c][b]
      /\ \A d \in Consumers : d # c => failing'[d] = failing[d]
  BY ZenonT(60), <1>5, FailingDoes
<1>7. by = "task" => failing'[c].loop = failing[c].loop
  BY <1>6 DEF Flushers
<1> QED
  BY <1>2, <1>3, <1>6, <1>7

LEMMA OutcomesStay ==
  ASSUME LoopShape, UNCHANGED <<completions, failures, failing>>,
         OnConsumers(loop)', OnConsumers(flight)'
  PROVE  LoopShape'
BY DEF LoopShape, OnConsumers

LEMMA FlightStays ==
  ASSUME LoopShape
  PROVE  /\ UNCHANGED flight => OnConsumers(flight)'
         /\ UNCHANGED loop => OnConsumers(loop)'
BY DEF LoopShape, OnConsumers

LEMMA RunnerStays ==
  ASSUME StopInv, UNCHANGED <<loop, flight, completions, failures, failing>>
  PROVE  StopInv'
BY DEF StopInv, LoopShape, OnConsumers, Closing

\* A loop that moves between places before its last flush.
LEMMA LoopMovesKeepStop ==
  ASSUME StopInv, NEW c \in Consumers,
         \/ LoopRing(c) \/ LoopCall(c) \/ LoopSelect(c) \/ LoopFill(c) \/ LoopClaim(c)
         \/ LoopFull(c) \/ LoopFlushed(c) \/ LoopPoll(c) \/ LoopExit(c) \/ Process(c)
  PROVE  StopInv'
<1>0. LoopShape
  BY DEF StopInv
<1>1. CASE LoopRing(c)
  <2>1. /\ loop[c] = "top" /\ UNCHANGED <<loop, completions, failures, failing>>
        /\ \E s : Start(c, s)
    BY <1>1 DEF LoopRing, Dequeuing, At, outcomes
  <2>2. OnConsumers(flight)' /\ \A d \in Consumers : d # c => flight'[d] = flight[d]
    BY <1>0, <2>1, StartDoes
  <2>3. LoopShape' /\ OnlyLoop(c) /\ Closing(c)'
    BY <1>0, <2>1, <2>2, OutcomesStay, FlightStays DEF OnlyLoop, Closing
  <2> QED
    BY <2>3, OnlyLoopKeeps
<1>2. CASE LoopClaim(c)
  <2>1. /\ UNCHANGED <<completions, failures, failing>> /\ GoTo(c, "top")
        /\ \E s : Start(c, s)
    BY <1>2 DEF LoopClaim, outcomes
  <2>2. OnConsumers(flight)' /\ \A d \in Consumers : d # c => flight'[d] = flight[d]
    BY <1>0, <2>1, StartDoes
  <2>3. /\ OnConsumers(loop)' /\ loop'[c] = "top"
        /\ \A d \in Consumers : d # c => loop'[d] = loop[d]
    BY <1>0, <2>1, GoToDoes
  <2>4. LoopShape' /\ OnlyLoop(c) /\ Closing(c)'
    BY <1>0, <2>1, <2>2, <2>3, OutcomesStay DEF OnlyLoop, Closing
  <2> QED
    BY <2>4, OnlyLoopKeeps
<1>3. CASE LoopFill(c)
  BY <1>3, RunnerStays DEF LoopFill, runner, outcomes
<1>4. CASE \/ LoopCall(c) \/ LoopSelect(c) \/ LoopFull(c) \/ LoopFlushed(c) \/ LoopPoll(c)
           \/ LoopExit(c) \/ Process(c)
  <2>1. /\ UNCHANGED <<flight, completions, failures, failing>>
        /\ \E place : GoTo(c, place) /\ place \notin {"final", "ended"}
    <3>1. CASE LoopSelect(c)
      <4>1. PICK place : place = IF pc'[c] = "idle" THEN "none" ELSE "dequeue"
        OBVIOUS
      <4>2. GoTo(c, place) /\ UNCHANGED <<flight, outcomes>>
        BY <3>1, <4>1 DEF LoopSelect
      <4> QED
        BY <4>1, <4>2 DEF outcomes
    <3>2. CASE LoopFlushed(c)
      <4>1. PICK place : place = IF flight[c] # <<>> THEN "race" ELSE "poll"
        OBVIOUS
      <4>2. GoTo(c, place) /\ UNCHANGED <<flight, outcomes>>
        BY <3>2, <4>1 DEF LoopFlushed, Wait
      <4> QED
        BY <4>1, <4>2 DEF outcomes
    <3>3. CASE Process(c)
      <4>1. GoTo(c, "top") /\ UNCHANGED <<flight, outcomes>>
        BY <3>3 DEF Process, GoTo
      <4> QED
        BY <4>1 DEF outcomes
    <3>4. CASE LoopCall(c) \/ LoopFull(c) \/ LoopPoll(c) \/ LoopExit(c)
      BY <3>4 DEF LoopCall, LoopFull, LoopPoll, LoopExit, outcomes
    <3> QED
      BY <1>4, <3>1, <3>2, <3>3, <3>4
  <2>2. PICK place : GoTo(c, place) /\ place \notin {"final", "ended"}
    BY <2>1
  <2>3. /\ OnConsumers(loop)' /\ loop'[c] = place
        /\ \A d \in Consumers : d # c => loop'[d] = loop[d]
    BY <1>0, <2>2, GoToDoes
  <2>4. LoopShape' /\ OnlyLoop(c) /\ Closing(c)'
    BY <1>0, <2>1, <2>2, <2>3, OutcomesStay, FlightStays DEF OnlyLoop, Closing
  <2> QED
    BY <2>4, OnlyLoopKeeps
<1> QED
  BY <1>1, <1>2, <1>3, <1>4

\* The steps that take or push outcomes.
LEMMA FlushesKeepStop ==
  ASSUME StopInv, NEW c \in Consumers,
         LoopNone(c) \/ LoopDrained(c) \/ LoopEnd(c) \/ OutcomeStep(c)
  PROVE  StopInv'
<1>0. LoopShape /\ Closing(c) /\ "loop" \in Flushers /\ "task" \in Flushers
  BY DEF StopInv, Flushers
<1>1. CASE LoopNone(c)
  <2>1. UNCHANGED flight
    BY <1>1 DEF LoopNone
  <2>2. CASE Flush(c, "loop") /\ GoTo(c, "flush")
    <3>1. /\ OnConsumers(loop)' /\ loop'[c] = "flush"
          /\ \A d \in Consumers : d # c => loop'[d] = loop[d]
      BY <1>0, <2>2, GoToDoes
    <3>2. LoopShape' /\ OnlyLoop(c) /\ Closing(c)'
      BY <1>0, <2>1, <2>2, <3>1, FlushDoes, FlightStays DEF LoopShape, OnlyLoop, Closing
    <3> QED
      BY <3>2, OnlyLoopKeeps
  <2>3. CASE Wait(c) /\ UNCHANGED outcomes
    <3>1. PICK place : place = IF flight[c] # <<>> THEN "race" ELSE "poll"
      OBVIOUS
    <3>2. GoTo(c, place) /\ UNCHANGED <<completions, failures, failing>>
      BY <2>3, <3>1 DEF Wait, outcomes
    <3>3. /\ OnConsumers(loop)' /\ loop'[c] = place
          /\ \A d \in Consumers : d # c => loop'[d] = loop[d]
      BY <1>0, <3>2, GoToDoes
    <3>4. LoopShape' /\ OnlyLoop(c) /\ Closing(c)'
      BY <1>0, <2>1, <3>1, <3>2, <3>3, OutcomesStay, FlightStays DEF OnlyLoop, Closing
    <3> QED
      BY <3>4, OnlyLoopKeeps
  <2> QED
    BY <1>1, <2>2, <2>3 DEF LoopNone
<1>2. CASE LoopDrained(c)
  <2>1. flight[c] = <<>> /\ UNCHANGED flight /\ Flush(c, "loop") /\ GoTo(c, "final")
    BY <1>2 DEF LoopDrained
  <2>2. /\ OnConsumers(loop)' /\ loop'[c] = "final"
        /\ \A d \in Consumers : d # c => loop'[d] = loop[d]
    BY <1>0, <2>1, GoToDoes
  <2>3. LoopShape' /\ OnlyLoop(c) /\ Closing(c)'
    BY <1>0, <2>1, <2>2, FlushDoes, FlightStays DEF LoopShape, OnlyLoop, Closing
  <2> QED
    BY <2>3, OnlyLoopKeeps
<1>3. CASE LoopEnd(c)
  <2>1. /\ loop[c] = "final" /\ failing[c].loop = <<>>
        /\ GoTo(c, "ended") /\ UNCHANGED <<flight, completions, failures, failing>>
    BY <1>3 DEF LoopEnd, At, outcomes
  <2>2. /\ OnConsumers(loop)' /\ loop'[c] = "ended"
        /\ \A d \in Consumers : d # c => loop'[d] = loop[d]
    BY <1>0, <2>1, GoToDoes
  <2>3. LoopShape' /\ OnlyLoop(c) /\ Closing(c)'
    BY <1>0, <2>1, <2>2, OutcomesStay, FlightStays DEF OnlyLoop, Closing
  <2> QED
    BY <2>3, OnlyLoopKeeps
<1>4. CASE FlushTask(c)
  <2>1. Flush(c, "task") /\ UNCHANGED <<loop, flight>>
    BY <1>4 DEF FlushTask
  <2>2. LoopShape' /\ OnlyLoop(c) /\ Closing(c)'
    BY <1>0, <2>1, FlushDoes, FlightStays DEF LoopShape, OnlyLoop, Closing
  <2> QED
    BY <2>2, OnlyLoopKeeps
<1>5. ASSUME NEW by \in Flushers, FlushFailure(c, by)
      PROVE  StopInv'
  <2>1. /\ failing[c][by] # <<>> /\ failing' = [failing EXCEPT ![c][by] = Tail(failing[c][by])]
        /\ UNCHANGED <<loop, flight, completions, failures>>
    BY <1>5 DEF FlushFailure
  <2>2. PICK s : s = Tail(failing[c][by])
    OBVIOUS
  <2>3. failing' = [failing EXCEPT ![c][by] = s]
    BY <2>1, <2>2
  <2>4. /\ OnConsumers(failing)'
        /\ \A d \in Consumers : failing'[d] = [b \in Flushers |-> failing'[d][b]]
        /\ \A b \in Flushers : b # by => failing'[c][b] = failing[c][b]
        /\ \A d \in Consumers : d # c => failing'[d] = failing[d]
    BY ZenonT(60), <1>0, <2>3, FailingDoes
  <2>5. LoopShape'
    BY <1>0, <2>1, <2>4 DEF LoopShape, OnConsumers
  <2>6. loop'[c] = "ended" => failing'[c].loop = <<>>
    <3> SUFFICES ASSUME loop[c] = "ended" PROVE failing'[c].loop = <<>>
      BY <2>1
    <3>1. failing[c].loop = <<>>
      BY <1>0 DEF Closing
    <3>2. by # "loop"
      BY <2>1, <3>1
    <3> QED
      BY <1>0, <2>4, <3>1, <3>2
  <2>7. OnlyLoop(c) /\ Closing(c)'
    BY <1>0, <2>1, <2>4, <2>6 DEF OnlyLoop, Closing
  <2> QED
    BY <2>5, <2>7, OnlyLoopKeeps
<1> QED
  BY <1>1, <1>2, <1>3, <1>4, <1>5 DEF OutcomeStep

\* A handler can only end while its batch is in flight: not after the last flush.
LEMMA HandlersKeepStop ==
  ASSUME StopInv, NEW c \in Consumers, NEW b, NEW over, NEW rest, NEW ok,
         HandlersEnd(c, b, over, rest, ok), flight[c] # <<>>
  PROVE  StopInv'
<1>0. LoopShape /\ Closing(c)
  BY DEF StopInv
<1>1. loop[c] \notin {"final", "ended"}
  BY <1>0 DEF Closing
<1>2. /\ \E e : completions' = [completions EXCEPT ![c] = e] \/ completions' = completions
      /\ \E e : failures' = [failures EXCEPT ![c] = e] \/ failures' = failures
      /\ failing' = failing
  BY DEF HandlersEnd, Schedule, ScheduleFailure
<1>3. PICK e : loop' = [loop EXCEPT ![c] = e] /\ e = IF rest = <<>> /\ loop[c] = "race" THEN "top" ELSE loop[c]
  BY DEF HandlersEnd
<1>4. \E x : flight' = [flight EXCEPT ![c] = x]
  BY DEF HandlersEnd
<1>5. LoopShape' /\ OnlyLoop(c)
  <2>1. OnConsumers(loop)' /\ \A d \in Consumers : d # c => loop'[d] = loop[d]
    BY <1>0, <1>3 DEF LoopShape, OnConsumers
  <2>2. OnConsumers(flight)' /\ \A d \in Consumers : d # c => flight'[d] = flight[d]
    BY <1>0, <1>4 DEF LoopShape, OnConsumers
  <2>3. OnConsumers(completions)' /\ \A d \in Consumers : d # c => completions'[d] = completions[d]
    BY <1>0, <1>2 DEF LoopShape, OnConsumers
  <2>4. OnConsumers(failures)' /\ \A d \in Consumers : d # c => failures'[d] = failures[d]
    BY <1>0, <1>2 DEF LoopShape, OnConsumers
  <2> QED
    BY <1>0, <1>2, <2>1, <2>2, <2>3, <2>4 DEF LoopShape, OnConsumers, OnlyLoop
<1>6. loop'[c] = e
  BY <1>0, <1>3 DEF LoopShape, OnConsumers
<1>7. Closing(c)'
  BY <1>1, <1>3, <1>6 DEF Closing
<1> QED
  BY <1>5, <1>7, OnlyLoopKeeps

\* stop() leaves nothing behind: when the cleanup of a loop is over none of its handlers
\* runs, each outcome they reported has been taken by a flush, and the last flush has
\* pushed all it took, whatever flush tasks, other loops and late handlers did meanwhile.
THEOREM OutcomesAreRecorded == RunnerSpec => []StopRecordsOutcomes
<1>1. RunnerInit => StopInv
  <2> SUFFICES ASSUME RunnerInit PROVE StopInv
    OBVIOUS
  <2>1. LoopShape
    BY DEF RunnerInit, LoopShape, OnConsumers
  <2>2. \A c \in Consumers : loop[c] = "off"
    BY DEF RunnerInit
  <2> QED
    BY <2>1, <2>2 DEF StopInv, Closing
<1>2. StopInv /\ [RunnerNext]_<<vars, runner>> => StopInv'
  <2> SUFFICES ASSUME StopInv, [RunnerNext]_<<vars, runner>> PROVE StopInv'
    OBVIOUS
  <2>1. ASSUME NEW c \in Consumers, Process(c) \/ LoopStep(c) \/ OutcomeStep(c)
        PROVE  StopInv'
    BY <2>1, LoopMovesKeepStop, FlushesKeepStop DEF LoopStep
  <2>2. ASSUME NEW c \in Consumers, HandlerEnd(c)
        PROVE  StopInv'
    <3>1. PICK b \in 1 .. Len(flight[c]) : \E over, rest, ok : HandlersEnd(c, b, over, rest, ok)
      BY <2>2 DEF HandlerEnd
    <3>2. flight[c] # <<>>
      BY <3>1
    <3> QED
      BY <3>1, <3>2, HandlersKeepStop
  <2>3. CASE Stop \/ UNCHANGED <<vars, runner>>
             \/ \E p \in Producers : (EnqueueNow(p) \/ ProducerStep(p)) /\ UNCHANGED runner
    <3>1. UNCHANGED <<loop, flight, completions, failures, failing>>
      BY <2>3 DEF Stop, runner, outcomes
    <3> QED
      BY <3>1, RunnerStays
  <2> QED
    BY <2>1, <2>2, <2>3 DEF RunnerNext
<1>3. StopInv => StopRecordsOutcomes
  BY DEF StopInv, Closing, StopRecordsOutcomes
<1> QED
  BY <1>1, <1>2, <1>3, PTL DEF RunnerSpec

-----------------------------------------------------------------------------
(* Who can be where, and in which order jobs are listed *)

Ordered(p) ==
  /\ pc[p] \in {"select", "fill", "claim"} => p \in Consumers
  /\ pc[p] = "fail" => p \in Failers
  /\ pc[p] \in {"reclaim", "commit", "prune"} => p \in Maintainers
  /\ pc[p] \in {"fill", "claim", "reclaim"} => Distinct(todo[p])

AllOrdered == \A p \in Callers : Ordered(p)

InOrder(p, place, s) ==
  /\ place \in {"select", "fill", "claim"} => p \in Consumers
  /\ place = "fail" => p \in Failers
  /\ place \in {"reclaim", "commit", "prune"} => p \in Maintainers
  /\ place \in {"fill", "claim", "reclaim"} => Distinct(s)

LEMMA OrderedMoves ==
  ASSUME AllOrdered, NEW p \in Callers, NEW place, NEW s, Moved(p, place, s), InOrder(p, place, s)
  PROVE  AllOrdered'
<1>1. ASSUME NEW q \in Callers
      PROVE  Ordered(q)'
  <2>1. CASE q = p
    BY <2>1 DEF Moved, InOrder, Ordered, Distinct
  <2>2. CASE q # p
    BY <2>2 DEF Moved, AllOrdered, Ordered, Distinct
  <2> QED
    BY <2>1, <2>2
<1> QED
  BY <1>1 DEF AllOrdered, Callers

LEMMA OrderedStays ==
  ASSUME AllOrdered, UNCHANGED calls
  PROVE  AllOrdered'
BY DEF AllOrdered, Ordered, calls, Callers, Distinct

LEMMA PlainPlaces ==
  \A p, s : InOrder(p, "idle", s) /\ InOrder(p, "enqueue", s) /\ InOrder(p, "enqueueBatch", s)
BY DEF InOrder

LEMMA OrderedKept ==
  ASSUME Typed, [Next]_vars, AllOrdered
  PROVE  AllOrdered'
<1> USE CallerKinds
<1>1. ASSUME NEW p \in Producers, EnqueueSome(p) \/ ProducerStep(p)
      PROVE  AllOrdered'
  <2>1. ASSUME NEW j \in Jobs, NEW delayed \in BOOLEAN, Enqueue(p, j, delayed)
        PROVE  AllOrdered'
    <3>1. PICK place, s : Moved(p, place, s) /\ place \in {"idle", "enqueue"}
      <4>1. PICK place : place = IF delayed THEN "idle" ELSE "enqueue"
        OBVIOUS
      <4>2. PICK s : s = IF delayed THEN <<>> ELSE <<j>>
        OBVIOUS
      <4>3. Moved(p, place, s)
        BY <2>1, <4>1, <4>2, EnqueueDoes
      <4> QED
        BY <4>1, <4>3
    <3>2. InOrder(p, place, s)
      BY <3>1 DEF InOrder
    <3> QED
      BY <3>1, <3>2, OrderedMoves
  <2>2. ASSUME NEW s \in Batches, NEW due \in Sublists(s), EnqueueBatch(p, s, due)
        PROVE  AllOrdered'
    BY <2>2, EnqueueBatchDoes, PlainPlaces, OrderedMoves
  <2>3. CASE EnqueueRing(p)
    BY <2>3, EnqueueRingDoes, PlainPlaces, OrderedMoves
  <2>4. CASE EnqueueNext(p)
    BY <2>4, EnqueueNextDoes, PlainPlaces, OrderedMoves
  <2> QED
    BY <1>1, <2>1, <2>2, <2>3, <2>4 DEF EnqueueSome, ProducerStep
<1>2. ASSUME NEW c \in Consumers, Dequeue(c)
      PROVE  AllOrdered'
  <2>1. ASSUME NEW limit \in 1 .. Limit, DequeueRing(c, limit)
        PROVE  AllOrdered'
    BY <2>1, DequeueRingDoes, OrderedStays
  <2>2. ASSUME NEW limit \in 1 .. Limit, DequeueCall(c, limit)
        PROVE  AllOrdered'
    <3>1. Moved(c, "select", <<>>) /\ InOrder(c, "select", <<>>)
      BY <2>2, DequeueCallDoes DEF InOrder
    <3> QED
      BY <3>1, OrderedMoves
  <2>3. CASE DequeueSelect(c)
    <3>1. PICK s \in Seq(Jobs) : Moved(c, IF s = <<>> THEN "idle" ELSE "fill", s) /\ Distinct(s)
      BY <2>3, DequeueSelectDoes
    <3>2. PICK place : place = IF s = <<>> THEN "idle" ELSE "fill"
      OBVIOUS
    <3>3. Moved(c, place, s) /\ InOrder(c, place, s)
      BY <3>1, <3>2 DEF InOrder
    <3> QED
      BY <3>3, OrderedMoves
  <2>4. CASE DequeueFill(c)
    <3>1. pc[c] = "fill" /\ Moved(c, "claim", todo[c])
      BY <2>4, DequeueFillDoes
    <3>2. InOrder(c, "claim", todo[c])
      BY <3>1 DEF AllOrdered, Ordered, InOrder
    <3> QED
      BY <3>1, <3>2, OrderedMoves
  <2>5. CASE DequeueClaim(c)
    BY <2>5, DequeueClaimDoes, PlainPlaces, OrderedMoves
  <2> QED
    BY <1>2, <2>1, <2>2, <2>3, <2>4, <2>5 DEF Dequeue, DequeueStep
<1>3. ASSUME NEW c \in Consumers, FinishStep(c)
      PROVE  AllOrdered'
  <2>1. CASE \E js \in SUBSET Jobs : Complete(c, js)
    BY <2>1, CompleteDoes, OrderedStays
  <2>2. ASSUME NEW f \in Failers, NEW j \in Jobs, FailRead(f, c, j)
        PROVE  AllOrdered'
    <3>1. InOrder(f, "fail", <<j>>)
      BY DEF InOrder
    <3> QED
      BY <2>2, <3>1, FailReadDoes, OrderedStays, OrderedMoves
  <2> QED
    BY <1>3, <2>1, <2>2 DEF FinishStep
<1>8. ASSUME NEW f \in Failers, FailPush(f)
      PROVE  AllOrdered'
  BY <1>8, FailPushDoes, PlainPlaces, OrderedMoves
<1>4. ASSUME NEW m \in Maintainers, MaintainStep(m)
      PROVE  AllOrdered'
  <2>1. CASE ReclaimSelect(m)
    <3>1. PICK s \in Seq(Jobs) : Moved(m, "reclaim", s) /\ Distinct(s)
      BY <2>1, ReclaimSelectDoes
    <3>2. InOrder(m, "reclaim", s)
      BY <3>1 DEF InOrder
    <3> QED
      BY <3>1, <3>2, OrderedMoves
  <2>2. CASE Reclaim(m)
    <3>1. pc[m] = "reclaim" /\ todo[m] # <<>> /\ Moved(m, "reclaim", Tail(todo[m]))
      BY <2>2, ReclaimDoes
    <3>2. Distinct(Tail(todo[m]))
      BY <3>1, TodoIsJobs, TailOf DEF AllOrdered, Ordered
    <3>3. InOrder(m, "reclaim", Tail(todo[m]))
      BY <3>2 DEF InOrder
    <3> QED
      BY <3>1, <3>3, OrderedMoves
  <2>3. CASE PruneSelect(m)
    <3>1. PICK s \in Seq(Jobs) : Moved(m, IF s = <<>> THEN "idle" ELSE "commit", s)
      BY <2>3, PruneSelectDoes
    <3>2. PICK place : place = IF s = <<>> THEN "idle" ELSE "commit"
      OBVIOUS
    <3>3. Moved(m, place, s) /\ InOrder(m, place, s)
      BY <3>1, <3>2 DEF InOrder
    <3> QED
      BY <3>3, OrderedMoves
  <2>4. CASE Prune(m)
    <3>1. Moved(m, IF Len(todo[m]) = 1 THEN "idle" ELSE "prune", Tail(todo[m]))
      BY <2>4, PruneDoes
    <3>2. PICK place : place = IF Len(todo[m]) = 1 THEN "idle" ELSE "prune"
      OBVIOUS
    <3>3. Moved(m, place, Tail(todo[m])) /\ InOrder(m, place, Tail(todo[m]))
      BY <3>1, <3>2 DEF InOrder
    <3> QED
      BY <3>3, OrderedMoves
  <2> QED
    BY <1>4, <2>1, <2>2, <2>3, <2>4 DEF MaintainStep
<1>5. ASSUME NEW p \in Callers, CallTimeout(p)
      PROVE  AllOrdered'
  BY <1>5, CallTimeoutDoes, PlainPlaces, OrderedMoves
<1>6. CASE (\E j \in Jobs : Due(j) \/ Stale(j) \/ Old(j)) \/ Persist \/ UNCHANGED vars
  <2>1. UNCHANGED calls
    BY <1>6, DueDoes, StaleDoes, OldDoes, PersistDoes DEF vars
  <2> QED
    BY <2>1, OrderedStays
<1>7. CASE Crash
  <2>1. \A p \in Callers : pc'[p] = "idle"
    BY <1>7, CrashDoes
  <2> QED
    BY <2>1 DEF AllOrdered, Ordered, Callers
<1> QED
  BY <1>1, <1>2, <1>3, <1>4, <1>5, <1>6, <1>7, <1>8 DEF Next

LEMMA OrderedAtFirst ==
  ASSUME Init
  PROVE  AllOrdered
<1>1. \A p \in Callers : pc[p] = "idle"
  BY DEF Init
<1> QED
  BY <1>1 DEF AllOrdered, Ordered

-----------------------------------------------------------------------------
(* A job of the backlog is in one place at a time *)

\* One consumer and one maintainer.
OneEach == (\A b, c \in Consumers : b = c) /\ (\A l, m \in Maintainers : l = m)

\* The claim of p delivers other jobs, and this one stays in the ring.
Behind(p, j) == \A i \in 1 .. Len(todo[p]) : todo[p][i] = j => i > arg[p]

HeldOnce(j) ==
  \A c \in Consumers :
    /\ held[c][j] <= 1
    /\ held[c][j] > 0 => /\ live[j].status = "processing" /\ j \notin late
                         /\ ~InRing(j) /\ ~Listed(j)

OneSlot(j) == \A i, k \in Indices : slots[i] = j /\ slots[k] = j => i = k

\* Nobody looks for jobs on disk while one of the backlog is in the ring, except the
\* dequeue that put it there.
Queued(j) == InRing(j) =>
  /\ live[j].status \in {"pending", "processing"}
  /\ j \in late => live[j].status # "processing"
  /\ \A p \in Callers :
       /\ pc[p] \notin {"select", "fill"}
       /\ j \in Range(todo[p]) => pc[p] = "claim" /\ Behind(p, j)

\* No other call has the job.
Alone(p, j) == \A q \in Callers : j \in Range(todo[q]) => q = p

Handled(j) ==
  \A p \in Callers : j \in Range(todo[p]) =>
    \/ pc[p] \in {"fill", "claim"} /\ live[j].status = "pending"
    \/ pc[p] = "fail" /\ live[j].status = "processing" /\ j \notin late /\ Alone(p, j)
    \/ pc[p] = "reclaim" /\ live[j].status = "processing" /\ j \in late
    \/ pc[p] \in {"commit", "prune"}

Single(j) == j \in known /\ HeldOnce(j) /\ OneSlot(j) /\ Queued(j) /\ Handled(j)

\* The status of a job tells which calls may have it.
LEMMA ListersAre ==
  ASSUME AllOrdered, NEW k \in Jobs, Settled(k), Single(k), NEW p \in Callers, k \in Range(todo[p])
  PROVE  /\ live[k].status = "pending" => p \in Consumers /\ pc[p] \in {"fill", "claim"}
         /\ live[k].status = "processing" /\ k \notin late => p \in Failers /\ pc[p] = "fail"
         /\ live[k].status = "processing" /\ k \in late => p \in Maintainers /\ pc[p] = "reclaim"
         /\ InRing(k) => p \in Consumers /\ pc[p] = "claim"
<1>1. Ordered(p)
  BY DEF AllOrdered
<1>2. pc[p] \in {"commit", "prune"} => live[k].status \notin {"pending", "processing"}
  BY DEF Settled, Dying, Over, NoRow
<1>3. \/ pc[p] \in {"fill", "claim"} /\ live[k].status = "pending"
      \/ pc[p] = "fail" /\ live[k].status = "processing" /\ k \notin late
      \/ pc[p] = "reclaim" /\ live[k].status = "processing" /\ k \in late
      \/ pc[p] \in {"commit", "prune"}
  BY DEF Single, Handled
<1>4. InRing(k) => pc[p] = "claim"
  BY DEF Single, Queued
<1> QED
  BY <1>1, <1>2, <1>3, <1>4 DEF Ordered

\* A job outside the ring.
LEMMA SingleOutside ==
  ASSUME NEW k \in Jobs, k \in known', ~InRing(k)', Handled(k)',
         \A c \in Consumers :
           /\ held'[c][k] <= 1
           /\ held'[c][k] > 0 => live'[k].status = "processing" /\ k \notin late' /\ ~Listed(k)'
  PROVE  Single(k)'
BY DEF Single, HeldOnce, OneSlot, Queued, InRing, Listed, Handled, Range

\* The call of p moves on, and nothing else happens to the job.
LEMMA SingleMoves ==
  ASSUME Typed, AllOrdered, NEW k \in Jobs, Single(k),
         NEW p \in Callers, NEW place, NEW s, Moved(p, place, s),
         k \in Range(s) =>
           /\ k \in Range(todo[p])
           /\ \/ pc[p] = "reclaim" /\ place = "reclaim"
              \/ pc[p] \in {"commit", "prune"} /\ place \in {"commit", "prune"},
         place \in {"select", "fill"} => ~InRing(k),
         live'[k] = live[k], k \in late' <=> k \in late, (k \in known' <=> k \in known),
         \A i \in Indices : slots'[i] = k => slots[i] = k,
         \A b \in Consumers : held'[b][k] = held[b][k],
         \A b \in Consumers : b # p => arg'[b] = arg[b]
  PROVE  Single(k)'
<1>1. /\ pc'[p] = place /\ todo'[p] = s
      /\ \A q \in Callers : q # p => pc'[q] = pc[q] /\ todo'[q] = todo[q]
  BY DEF Moved
<1>2. \A q \in Callers : k \in Range(todo'[q]) => k \in Range(todo[q])
  BY <1>1
<1>3. InRing(k)' => InRing(k)
  BY DEF InRing, Indices
<1>4. Listed(k)' => Listed(k)
  BY <1>2 DEF Listed, Callers, Range
<1>5. HeldOnce(k)'
  BY <1>3, <1>4 DEF Single, HeldOnce, InRing, Listed
<1>6. OneSlot(k)'
  BY DEF Single, OneSlot, Indices
<1>7. Handled(k)'
  <2>1. ASSUME NEW q \in Callers, k \in Range(todo'[q])
        PROVE  \/ pc'[q] \in {"fill", "claim"} /\ live'[k].status = "pending"
               \/ /\ pc'[q] = "fail" /\ live'[k].status = "processing" /\ k \notin late'
                  /\ Alone(q, k)'
               \/ pc'[q] = "reclaim" /\ live'[k].status = "processing" /\ k \in late'
               \/ pc'[q] \in {"commit", "prune"}
    <3>1. CASE q = p
      BY <1>1, <2>1, <3>1 DEF Single, Handled
    <3>2. CASE q # p
      <4>1. Alone(q, k) => Alone(q, k)'
        BY <1>2 DEF Alone, Callers, Range
      <4> QED
        BY <1>1, <2>1, <3>2, <4>1 DEF Single, Handled
    <3> QED
      BY <3>1, <3>2
  <2> QED
    BY <2>1 DEF Handled, Callers, Range
<1>8. ASSUME InRing(k)'
      PROVE  /\ live'[k].status \in {"pending", "processing"}
             /\ k \in late' => live'[k].status # "processing"
             /\ \A q \in Callers :
                  /\ pc'[q] \notin {"select", "fill"}
                  /\ k \in Range(todo'[q]) => pc'[q] = "claim" /\ Behind(q, k)'
  <2>1. /\ live[k].status \in {"pending", "processing"}
        /\ k \in late => live[k].status # "processing"
        /\ \A q \in Callers : /\ pc[q] \notin {"select", "fill"}
                              /\ k \in Range(todo[q]) => pc[q] = "claim" /\ Behind(q, k)
    BY <1>3, <1>8 DEF Single, Queued
  <2>2. ASSUME NEW q \in Callers
        PROVE  /\ pc'[q] \notin {"select", "fill"}
               /\ k \in Range(todo'[q]) => pc'[q] = "claim" /\ Behind(q, k)'
    <3>1. CASE q = p
      <4>1. k \notin Range(s)
        BY <2>1
      <4> QED
        BY <1>1, <1>3, <1>8, <3>1, <4>1
    <3>2. CASE q # p
      <4>1. pc'[q] = pc[q] /\ todo'[q] = todo[q]
        BY <1>1, <3>2
      <4>2. pc[q] = "claim" => arg'[q] = arg[q]
        BY <3>2 DEF AllOrdered, Ordered
      <4>3. pc[q] = "claim" /\ Behind(q, k) => Behind(q, k)'
        BY <4>1, <4>2 DEF Behind
      <4> QED
        BY <2>1, <4>1, <4>3
    <3> QED
      BY <3>1, <3>2
  <2> QED
    BY <2>1, <2>2
<1>9. Queued(k)'
  BY <1>8 DEF Queued, Callers, Range
<1> QED
  BY <1>5, <1>6, <1>7, <1>9 DEF Single

\* No call moves, and nothing else happens to the job.
LEMMA SingleStays ==
  ASSUME NEW k \in Jobs, Single(k), UNCHANGED calls,
         live'[k] = live[k], k \in late' <=> k \in late, (k \in known' <=> k \in known),
         \A i \in Indices : slots'[i] = k => slots[i] = k,
         \A b \in Consumers : held'[b][k] = held[b][k]
  PROVE  Single(k)'
<1>1. pc' = pc /\ todo' = todo /\ arg' = arg
  BY DEF calls
<1>2. InRing(k)' => InRing(k)
  BY DEF InRing, Indices
<1>3. Listed(k)' <=> Listed(k)
  BY <1>1 DEF Listed, Callers, Range
<1>4. HeldOnce(k)'
  BY <1>2, <1>3 DEF Single, HeldOnce, InRing, Listed
<1>5. OneSlot(k)'
  BY DEF Single, OneSlot, Indices
<1>6. Handled(k)'
  BY <1>1 DEF Single, Handled, Alone, Callers, Range
<1>7. Queued(k)'
  BY <1>1, <1>2 DEF Single, Queued, Behind, Callers, Range
<1> QED
  BY <1>4, <1>5, <1>6, <1>7 DEF Single

LEMMA SlotsStay ==
  ASSUME UNCHANGED ring, NEW k
  PROVE  \A i \in Indices : slots'[i] = k => slots[i] = k
BY DEF ring

LEMMA SlotsFilledElsewhere ==
  ASSUME NEW s \in Seq(Jobs), Fills(s), NEW k, k \notin Range(s)
  PROVE  \A i \in Indices : slots'[i] = k => slots[i] = k
BY FillsFrom

LEMMA BacklogIsOld ==
  ASSUME NEW k \in Jobs, Single(k)
  PROVE  ~New(k) /\ k \in known
BY DEF Single, New

LEMMA EnqueueKeepsSingle ==
  ASSUME Typed, AllOrdered, Arrivals, NEW p \in Producers, EnqueueSome(p) \/ ProducerStep(p),
         NEW k \in Jobs, Single(k)
  PROVE  Single(k)'
<1>0. p \in Callers /\ ~New(k) /\ k \notin Range(<<>>) /\ k \in known
  BY CallerKinds, BacklogIsOld DEF Range
<1>1. ASSUME NEW j \in Jobs, NEW delayed \in BOOLEAN, Enqueue(p, j, delayed)
      PROVE  Single(k)'
  <2>1. PICK place : place = IF delayed THEN "idle" ELSE "enqueue"
    OBVIOUS
  <2>2. PICK s : s = IF delayed THEN <<>> ELSE <<j>>
    OBVIOUS
  <2>3. /\ New(j) /\ Inserted(j) /\ UNCHANGED <<ring, held, arg>> /\ Moved(p, place, s)
        /\ known' = known \cup {j}
    BY <1>1, <2>1, <2>2, EnqueueDoes
  <2>4. k # j
    BY <1>0, <2>3 DEF New
  <2>5. k \notin Range(s) /\ place \notin {"select", "fill"}
    BY <2>1, <2>2, <2>4 DEF Range
  <2>6. (k \in known' <=> k \in known)
    BY <2>3, <2>4 DEF Typed, CountsOK
  <2>7. live'[k] = live[k] /\ (k \in late' <=> k \in late)
    BY <2>3, <2>4 DEF Inserted
  <2>8. \A i \in Indices : slots'[i] = k => slots[i] = k
    BY <2>3, SlotsStay
  <2> QED
    BY <1>0, <2>3, <2>5, <2>6, <2>7, <2>8, SingleMoves
<1>2. ASSUME NEW s \in Batches, NEW due \in Sublists(s), EnqueueBatch(p, s, due)
      PROVE  Single(k)'
  <2>1. /\ \A j \in Range(s) : New(j)
        /\ s \in Seq(Jobs) /\ s # <<>>
        /\ due \in Seq(Jobs) /\ Range(due) \subseteq Range(s) /\ Fills(due)
        /\ Inserted(s[1]) /\ UNCHANGED <<held, arg>> /\ Moved(p, "enqueueBatch", Tail(s))
        /\ known' = known \cup Range(s)
    BY <1>2, EnqueueBatchDoes
  <2>2. k \notin Range(s)
    BY <1>0, <2>1 DEF New
  <2>3. k \notin Range(Tail(s)) /\ k # s[1]
    BY <2>1, <2>2, TailOf
  <2>4. (k \in known' <=> k \in known) /\ live'[k] = live[k] /\ (k \in late' <=> k \in late)
    BY <2>1, <2>2, <2>3 DEF Inserted
  <2>5. \A i \in Indices : slots'[i] = k => slots[i] = k
    BY <2>1, <2>2, SlotsFilledElsewhere
  <2> QED
    BY <1>0, <2>1, <2>3, <2>4, <2>5, SingleMoves
<1>3. CASE EnqueueRing(p)
  <2>1. /\ pc[p] = "enqueue" /\ Fills(todo[p]) /\ Moved(p, "idle", <<>>)
        /\ UNCHANGED <<rows, held, arg, known>>
    BY <1>3, EnqueueRingDoes
  <2>2. k \notin Range(todo[p])
    BY <1>0, <2>1 DEF Single, Handled
  <2>3. todo[p] \in Seq(Jobs)
    BY <1>0, TodoIsJobs
  <2>4. \A i \in Indices : slots'[i] = k => slots[i] = k
    BY <2>1, <2>2, <2>3, SlotsFilledElsewhere
  <2> QED
    BY <1>0, <2>1, <2>4, SingleMoves DEF rows
<1>4. CASE EnqueueNext(p)
  <2>1. pc[p] = "enqueueBatch" /\ UNCHANGED <<ring, held, arg, known>>
    BY <1>4, EnqueueNextDoes
  <2>2. k \notin Range(todo[p]) /\ todo[p] \in Seq(Jobs)
    BY <1>0, <2>1, TodoIsJobs DEF Single, Handled
  <2>3. \A i \in Indices : slots'[i] = k => slots[i] = k
    BY <2>1, SlotsStay
  <2>4. CASE Moved(p, "idle", <<>>) /\ RowsStay
    BY <1>0, <2>1, <2>3, <2>4, SingleMoves DEF RowsStay
  <2>5. CASE /\ todo[p] # <<>> /\ Moved(p, "enqueueBatch", Tail(todo[p]))
             /\ Inserted(todo[p][1])
    <3>1. k \notin Range(Tail(todo[p])) /\ k # todo[p][1]
      BY <2>2, <2>5, TailOf
    <3>2. live'[k] = live[k] /\ (k \in late' <=> k \in late)
      BY <2>5, <3>1 DEF Inserted
    <3> QED
      BY <1>0, <2>1, <2>3, <2>5, <3>1, <3>2, SingleMoves
  <2> QED
    BY <1>4, <2>4, <2>5, EnqueueNextDoes
<1> QED
  BY <1>1, <1>2, <1>3, <1>4 DEF EnqueueSome, ProducerStep

LEMMA RingDeliveryKeepsSingle ==
  ASSUME Typed, AllOrdered, OneEach, NEW c \in Consumers, NEW limit \in Nat, DequeueRing(c, limit),
         NEW k \in Jobs, Settled(k), Single(k)
  PROVE  Single(k)'
<1>0. c \in Callers /\ k \in known
  BY CallerKinds, BacklogIsOld
<1>1. /\ pc[c] = "idle" /\ UNCHANGED <<calls, known>>
      /\ \E s \in Seq(Jobs) :
              /\ Takes(s) /\ Delivered(c, s)
              /\ \A j \in Jobs : Updated(j, j \in Range(s), "processing", 1)
  BY DequeueRingDoes
<1>2. PICK s \in Seq(Jobs) :
              /\ Takes(s) /\ Delivered(c, s)
              /\ \A j \in Jobs : Updated(j, j \in Range(s), "processing", 1)
  BY <1>1
<1>3. \A i \in Indices : slots'[i] = k => slots[i] = k
  BY <1>2, TakesFrom
<1>4. CASE k \notin Range(s)
  <2>1. Updated(k, k \in Range(s), "processing", 1)
    BY <1>2
  <2>2. live'[k] = live[k] /\ (k \in late' <=> k \in late)
    BY <1>4, <2>1 DEF Updated
  <2>3. \A b \in Consumers : held'[b][k] = held[b][k]
    BY <1>2, <1>4, DeliveredElsewhere
  <2> QED
    BY <1>1, <1>3, <2>2, <2>3, SingleStays
<1>5. CASE k \in Range(s)
  <2>1. InRing(k)
    BY <1>2, <1>5, TakesFrom DEF InRing
  <2>2. \A b \in Consumers : held[b][k] = 0
    <3>1. \A b \in Consumers : held[b][k] \in Nat
      BY DEF Typed, HeldOK
    <3> QED
      BY <2>1, <3>1 DEF Single, HeldOnce
  <2>3. ~Listed(k)
    <3> SUFFICES ASSUME NEW p \in Callers, k \in Range(todo[p]) PROVE FALSE
      BY DEF Listed
    <3>1. p \in Consumers /\ pc[p] = "claim"
      BY <2>1, ListersAre
    <3>2. p = c
      BY <3>1 DEF OneEach
    <3> QED
      BY <1>1, <3>1, <3>2
  <2>4. ~Listed(k)'
    BY <1>1, <2>3 DEF Listed, calls, Callers, Range
  <2>5. PICK at \in [1 .. Len(s) -> Indices] :
          /\ \A x, y \in 1 .. Len(s) : at[x] = at[y] => x = y
          /\ \A x \in 1 .. Len(s) : s[x] = slots[at[x]] /\ slots'[at[x]] = NoJob
    BY <1>2 DEF Takes
  <2>6. \A i, j \in Indices : slots[i] = k /\ slots[j] = k => i = j
    BY DEF Single, OneSlot
  <2>7. Occurrences(k, s) \in Nat /\ Occurrences(k, s) <= 1
    <3>1. \A x, y \in 1 .. Len(s) : s[x] = k /\ s[y] = k => x = y
      BY <2>5, <2>6
    <3> QED
      BY <3>1, OccurrencesCount
  <2>8. ~InRing(k)'
    <3>1. PICK x \in 1 .. Len(s) : s[x] = k
      BY <1>5 DEF Range
    <3>2. slots[at[x]] = k /\ slots'[at[x]] = NoJob /\ at[x] \in Indices
      BY <2>5, <3>1
    <3>3. k # NoJob
      OBVIOUS
    <3>4. \A i \in Indices : slots'[i] # k
      BY <1>3, <2>6, <3>2, <3>3
    <3> QED
      BY <3>4 DEF InRing, Indices
  <2>9. live'[k].status = "processing" /\ k \notin late'
    <3>1. live[k] # NoRow
      BY <2>1 DEF Single, Queued, NoRow
    <3>2. Updated(k, k \in Range(s), "processing", 1)
      BY <1>2
    <3> QED
      BY <1>5, <3>1, <3>2 DEF Updated
  <2>10. \A b \in Consumers : held'[b][k] <= 1
    <3>1. held'[c][k] <= 1
      BY <1>2, <2>2, <2>7 DEF Delivered
    <3> QED
      BY <3>1 DEF OneEach
  <2>11. Handled(k)'
    BY <2>4 DEF Handled, Listed, Callers, Range
  <2>12. k \in known'
    BY <1>0, <1>1
  <2> QED
    BY <2>4, <2>8, <2>9, <2>10, <2>11, <2>12, SingleOutside
<1> QED
  BY <1>4, <1>5

LEMMA EmptyRingHasNone ==
  ASSUME Typed, Size = 0, NEW k \in Jobs
  PROVE  ~InRing(k)
<1>1. ASSUME NEW i \in Indices
      PROVE  slots[i] # k
  <2>1. Offset(i, head) \in Indices
    BY OffsetIs DEF Typed, RingOK
  <2>2. ~(Offset(i, head) < 0)
    BY <2>1 DEF Indices
  <2>3. slots[i] = NoJob
    BY <2>2 DEF Typed, RingOK, RingHoldsSize, Offset
  <2>4. k # NoJob
    OBVIOUS
  <2> QED
    BY <2>3, <2>4
<1> QED
  BY <1>1 DEF InRing

LEMMA CallKeepsSingle ==
  ASSUME Typed, AllOrdered, NEW c \in Consumers, NEW limit \in Nat, DequeueCall(c, limit),
         NEW k \in Jobs, Single(k)
  PROVE  Single(k)'
<1>0. c \in Callers /\ k \notin Range(<<>>)
  BY CallerKinds DEF Range
<1>1. /\ Size = 0 /\ Moved(c, "select", <<>>)
      /\ UNCHANGED <<rows, ring, held, known>>
      /\ \A b \in Consumers \cup Failers : b # c => arg'[b] = arg[b]
  BY DequeueCallDoes
<1>2. ~InRing(k)
  BY <1>1, EmptyRingHasNone
<1>3. \A i \in Indices : slots'[i] = k => slots[i] = k
  BY <1>1, SlotsStay
<1> QED
  BY <1>0, <1>1, <1>2, <1>3, SingleMoves DEF rows

LEMMA SelectKeepsSingle ==
  ASSUME Typed, AllOrdered, OneEach, NEW c \in Consumers, DequeueSelect(c),
         NEW k \in Jobs, SeenFits(k), Settled(k), Single(k)
  PROVE  Single(k)'
<1>0. c \in Callers /\ k \in known /\ "pending" \in Statuses
  BY CallerKinds, BacklogIsOld DEF Statuses
<1>1. /\ pc[c] = "select" /\ UNCHANGED <<rows, ring, held, known>>
      /\ \A b \in Consumers \cup Failers : b # c => arg'[b] = arg[b]
      /\ \E s \in Seq(Jobs) :
              /\ Moved(c, IF s = <<>> THEN "idle" ELSE "fill", s)
              /\ \A j \in Range(s) : Findable(j)
  BY DequeueSelectDoes
<1>2. PICK s \in Seq(Jobs) : /\ Moved(c, IF s = <<>> THEN "idle" ELSE "fill", s)
                             /\ \A j \in Range(s) : Findable(j)
  BY <1>1
<1>3. PICK place : place = IF s = <<>> THEN "idle" ELSE "fill"
  OBVIOUS
<1>4. Moved(c, place, s)
  BY <1>2, <1>3
<1>5. ~InRing(k)
  BY <1>0, <1>1 DEF Single, Queued
<1>6. CASE k \notin Range(s)
  <2>1. \A i \in Indices : slots'[i] = k => slots[i] = k
    BY <1>1, SlotsStay
  <2> QED
    BY <1>0, <1>1, <1>4, <1>5, <1>6, <2>1, SingleMoves DEF rows
<1>7. CASE k \in Range(s)
  <2>1. live[k].status = "pending"
    <3>1. Shows(k, "pending")
      BY <1>2, <1>7 DEF Findable
    <3> QED
      BY <1>0, <3>1, ShowsTheRow
  <2>2. \A b \in Consumers : held[b][k] = 0
    <3>1. \A b \in Consumers : held[b][k] \in Nat
      BY DEF Typed, HeldOK
    <3> QED
      BY <2>1, <3>1 DEF Single, HeldOnce
  <2>3. ~InRing(k)'
    BY <1>1, <1>5, RingKeepsPlaces
  <2>4. place = "fill"
    <3>1. s # <<>>
      BY <1>7 DEF Range
    <3> QED
      BY <1>3, <3>1
  <2>5. Handled(k)'
    <3>1. ASSUME NEW q \in Callers, k \in Range(todo'[q])
          PROVE  pc'[q] \in {"fill", "claim"} /\ live'[k].status = "pending"
      <4>1. live'[k].status = "pending"
        BY <1>1, <2>1 DEF rows
      <4>2. CASE q = c
        BY <1>4, <2>4, <4>1, <4>2 DEF Moved
      <4>3. CASE q # c
        <5>1. k \in Range(todo[q]) /\ pc'[q] = pc[q]
          BY <1>4, <3>1, <4>3 DEF Moved
        <5> QED
          BY <2>1, <4>1, <5>1, ListersAre
      <4> QED
        BY <4>2, <4>3
    <3> QED
      BY <3>1 DEF Handled, Callers, Range
  <2>6. \A b \in Consumers : held'[b][k] = 0
    BY <1>1, <2>2
  <2>7. k \in known'
    BY <1>0, <1>1
  <2> QED
    BY <2>3, <2>5, <2>6, <2>7, SingleOutside
<1> QED
  BY <1>6, <1>7

\* The surplus of a dequeue: each job once, in the ring and in the list of the claim.
LEMMA SurplusIsOnce ==
  ASSUME NEW s \in Seq(Jobs), Distinct(s), NEW n \in Nat
  PROVE  LET t == SubSeq(s, n + 1, Len(s)) IN
           /\ t \in Seq(Jobs) /\ Distinct(t)
           /\ \A j \in Range(t) : \A i \in 1 .. Len(s) : s[i] = j => i > n
<1>1. PICK l \in Nat : l = Len(s)
  BY LenProperties
<1>2. PICK t : t = SubSeq(s, n + 1, l)
  OBVIOUS
<1>3. \A i \in n + 1 .. l : s[i] \in Jobs
  BY <1>1
<1>4. t \in Seq(Jobs) /\ Len(t) = IF n + 1 <= l THEN l - (n + 1) + 1 ELSE 0
  BY <1>1, <1>2, <1>3, SubSeqProperties
<1>5. \A i \in 1 .. l - (n + 1) + 1 : t[i] = s[n + 1 + i - 1]
  BY <1>1, <1>2, <1>3, SubSeqProperties
<1>6. \A i \in 1 .. Len(t) : n + i \in 1 .. l /\ t[i] = s[n + i]
  <2>1. ASSUME NEW i \in 1 .. Len(t)
        PROVE  n + i \in 1 .. l /\ t[i] = s[n + i]
    <3>1. n + 1 <= l /\ i \in 1 .. l - n /\ i \in Int
      BY <1>4, <2>1
    <3>2. n + 1 + i - 1 = n + i /\ l - (n + 1) + 1 = l - n
      BY <3>1
    <3> QED
      BY <1>5, <3>1, <3>2
  <2> QED
    BY <2>1
<1>7. \A x, y \in 1 .. l : s[x] = s[y] => x = y
  BY <1>1 DEF Distinct
<1>8. Distinct(t)
  <2>1. ASSUME NEW x \in 1 .. Len(t), NEW y \in 1 .. Len(t), t[x] = t[y]
        PROVE  x = y
    <3>1. n + x = n + y
      BY <1>6, <1>7, <2>1
    <3>2. x \in Int /\ y \in Int
      BY <1>4
    <3> QED
      BY <3>1, <3>2
  <2> QED
    BY <2>1 DEF Distinct
<1>9. ASSUME NEW j \in Range(t), NEW i \in 1 .. Len(s), s[i] = j
      PROVE  i > n
  <2>1. PICK x \in 1 .. Len(t) : t[x] = j
    BY <1>4 DEF Range
  <2>2. n + x = i
    BY <1>1, <1>6, <1>7, <1>9, <2>1
  <2>3. x \in Nat /\ x >= 1
    BY <1>4
  <2> QED
    BY <2>2, <2>3
<1> QED
  BY <1>1, <1>2, <1>4, <1>8, <1>9

\* Filling the ring with distinct jobs puts each into one slot.
LEMMA FillsOneSlot ==
  ASSUME NEW s \in Seq(Jobs), Distinct(s), Fills(s), NEW k \in Jobs, ~InRing(k)
  PROVE  OneSlot(k)'
<1>1. PICK n \in 0 .. Len(s), at \in [Indices -> Nat \ {0}] :
        /\ \A i, j \in Indices : at[i] = at[j] => i = j
        /\ slots' = [i \in Indices |-> IF at[i] <= n THEN s[at[i]] ELSE slots[i]]
  BY DEF Fills
<1>2. ASSUME NEW i \in Indices, slots'[i] = k
      PROVE  at[i] \in 1 .. Len(s) /\ s[at[i]] = k
  <2>1. slots'[i] = IF at[i] <= n THEN s[at[i]] ELSE slots[i]
    BY <1>1
  <2>2. slots[i] # k
    BY DEF InRing
  <2>3. at[i] <= n /\ s[at[i]] = k
    BY <1>2, <2>1, <2>2
  <2>4. at[i] \in Nat \ {0} /\ Len(s) \in Nat
    BY LenProperties
  <2> QED
    BY <2>3, <2>4
<1>3. ASSUME NEW i \in Indices, NEW j \in Indices, slots'[i] = k, slots'[j] = k
      PROVE  i = j
  <2>1. at[i] = at[j]
    BY <1>2, <1>3 DEF Distinct
  <2> QED
    BY <1>1, <2>1
<1> QED
  BY <1>3 DEF OneSlot, Indices

LEMMA FillKeepsSingle ==
  ASSUME Typed, AllOrdered, OneEach, NEW c \in Consumers, DequeueFill(c),
         NEW k \in Jobs, Settled(k), Single(k)
  PROVE  Single(k)'
<1>0. c \in Callers /\ k \in known
  BY CallerKinds, BacklogIsOld
<1>1. PICK s : s = SubSeq(todo[c], arg[c] + 1, Len(todo[c]))
  OBVIOUS
<1>2. /\ pc[c] = "fill" /\ Moved(c, "claim", todo[c])
      /\ UNCHANGED <<rows, held, known, arg>> /\ Fills(s)
  BY <1>1, DequeueFillDoes
<1>3. todo[c] \in Seq(Jobs) /\ Distinct(todo[c]) /\ arg[c] \in Nat
  BY <1>0, <1>2 DEF Typed, CallsOK, AllOrdered, Ordered
<1>4. /\ s \in Seq(Jobs) /\ Distinct(s)
      /\ \A j \in Range(s) : \A i \in 1 .. Len(todo[c]) : todo[c][i] = j => i > arg[c]
  BY <1>1, <1>3, SurplusIsOnce
<1>5. Range(s) \subseteq Range(todo[c])
  <2>1. arg[c] + 1 \in Nat /\ arg[c] + 1 >= 1
    BY <1>3
  <2> QED
    BY <1>1, <1>3, <2>1, SubSeqFrom
<1>6. ~InRing(k)
  BY <1>0, <1>2 DEF Single, Queued
<1>7. CASE k \notin Range(todo[c])
  <2>1. \A i \in Indices : slots'[i] = k => slots[i] = k
    BY <1>2, <1>4, <1>5, <1>7, SlotsFilledElsewhere
  <2> QED
    BY <1>0, <1>2, <1>7, <2>1, SingleMoves DEF rows
<1>8. CASE k \in Range(todo[c])
  <2>1. live[k].status = "pending"
    BY <1>0, <1>2, <1>8 DEF Single, Handled
  <2>2. \A b \in Consumers : held[b][k] = 0
    <3>1. \A b \in Consumers : held[b][k] \in Nat
      BY DEF Typed, HeldOK
    <3> QED
      BY <2>1, <3>1 DEF Single, HeldOnce
  <2>3. ASSUME NEW q \in Callers, k \in Range(todo'[q])
        PROVE  q = c
    <3>1. CASE q # c
      <4>1. k \in Range(todo[q])
        BY <1>2, <2>3, <3>1 DEF Moved
      <4>2. q \in Consumers
        BY <2>1, <4>1, ListersAre
      <4> QED
        BY <3>1, <4>2 DEF OneEach
    <3> QED
      BY <3>1
  <2>4. pc'[c] = "claim" /\ todo'[c] = todo[c] /\ live'[k].status = "pending" /\ arg'[c] = arg[c]
    BY <1>2, <2>1 DEF Moved, rows
  <2>5. Handled(k)'
    BY <2>3, <2>4 DEF Handled, Callers, Range
  <2>6. OneSlot(k)'
    BY <1>2, <1>4, <1>6, FillsOneSlot
  <2>7. HeldOnce(k)'
    BY <1>2, <2>2 DEF HeldOnce
  <2>8. ASSUME InRing(k)'
        PROVE  /\ Behind(c, k)'
               /\ \A q \in Callers : pc'[q] \notin {"select", "fill"}
    <3>1. k \in Range(s)
      BY <1>2, <1>4, <1>6, <2>8, FillsElsewhere
    <3>2. Behind(c, k)'
      BY <1>4, <2>4, <3>1 DEF Behind
    <3>3. ASSUME NEW q \in Callers, pc'[q] \in {"select", "fill"}
          PROVE  FALSE
      <4>1. q # c
        BY <2>4, <3>3
      <4>2. pc[q] \in {"select", "fill"}
        BY <1>2, <3>3, <4>1 DEF Moved
      <4>3. q \in Consumers
        BY <4>2 DEF AllOrdered, Ordered
      <4> QED
        BY <4>1, <4>3 DEF OneEach
    <3> QED
      BY <3>2, <3>3
  <2>9. Queued(k)'
    <3> SUFFICES ASSUME InRing(k)'
                 PROVE  /\ live'[k].status \in {"pending", "processing"}
                        /\ k \in late' => live'[k].status # "processing"
                        /\ \A p \in Callers :
                             /\ pc'[p] \notin {"select", "fill"}
                             /\ k \in Range(todo'[p]) => pc'[p] = "claim" /\ Behind(p, k)'
      BY DEF Queued, Callers, Range
    <3> QED
      BY <2>3, <2>4, <2>8
  <2>10. k \in known'
    BY <1>0, <1>2
  <2> QED
    BY <2>5, <2>6, <2>7, <2>9, <2>10 DEF Single
<1> QED
  BY <1>7, <1>8

LEMMA ClaimKeepsSingle ==
  ASSUME Typed, AllOrdered, OneEach, NEW c \in Consumers, DequeueClaim(c),
         NEW k \in Jobs, Settled(k), Single(k)
  PROVE  Single(k)'
<1>0. c \in Callers /\ k \in known /\ k \notin Range(<<>>)
  BY CallerKinds, BacklogIsOld DEF Range
<1>1. /\ pc[c] = "claim" /\ Moved(c, "idle", <<>>)
      /\ UNCHANGED <<ring, known>>
      /\ \A b \in Consumers \cup Failers : b # c => arg'[b] = arg[b]
      /\ \A j \in Jobs : Updated(j, j \in Range(todo[c]), "processing", 1)
      /\ \E s \in Seq(Jobs) :
           /\ Len(s) <= arg[c] /\ Len(s) <= Len(todo[c])
           /\ (\A i \in 1 .. Len(s) : s[i] = todo[c][i])
           /\ Delivered(c, s)
  BY DequeueClaimDoes
<1>2. PICK s \in Seq(Jobs) :
           /\ Len(s) <= arg[c] /\ Len(s) <= Len(todo[c])
           /\ (\A i \in 1 .. Len(s) : s[i] = todo[c][i])
           /\ Delivered(c, s)
  BY <1>1
<1>3. todo[c] \in Seq(Jobs) /\ Distinct(todo[c]) /\ arg[c] \in Nat /\ Len(s) \in Nat
  BY <1>0, <1>1, LenProperties DEF Typed, CallsOK, AllOrdered, Ordered
<1>4. Range(s) \subseteq Range(todo[c])
  BY <1>2, <1>3 DEF Range
<1>5. Updated(k, k \in Range(todo[c]), "processing", 1)
  BY <1>1
<1>6. \A i \in Indices : slots'[i] = k => slots[i] = k
  BY <1>1, SlotsStay
<1>7. CASE k \notin Range(todo[c])
  <2>1. live'[k] = live[k] /\ (k \in late' <=> k \in late)
    BY <1>5, <1>7 DEF Updated
  <2>2. \A b \in Consumers : held'[b][k] = held[b][k]
    BY <1>2, <1>4, <1>7, DeliveredElsewhere
  <2>3. (k \in known' <=> k \in known)
    BY <1>1
  <2> QED
    BY <1>0, <1>1, <1>6, <2>1, <2>2, <2>3, SingleMoves
<1>8. CASE k \in Range(todo[c])
  <2>1. live[k].status = "pending"
    BY <1>0, <1>1, <1>8 DEF Single, Handled
  <2>2. \A b \in Consumers : held[b][k] = 0
    <3>1. \A b \in Consumers : held[b][k] \in Nat
      BY DEF Typed, HeldOK
    <3> QED
      BY <2>1, <3>1 DEF Single, HeldOnce
  <2>3. live'[k].status = "processing" /\ k \notin late'
    BY <1>5, <1>8, <2>1 DEF Updated, NoRow
  <2>4. ~Listed(k)'
    <3>1. ASSUME NEW q \in Callers, k \in Range(todo'[q])
          PROVE  FALSE
      <4>1. q # c
        BY <1>0, <1>1, <3>1 DEF Moved
      <4>2. k \in Range(todo[q])
        BY <1>1, <3>1, <4>1 DEF Moved
      <4>3. q \in Consumers
        BY <2>1, <4>2, ListersAre
      <4> QED
        BY <4>1, <4>3 DEF OneEach
    <3> QED
      BY <3>1 DEF Listed, Callers, Range
  <2>5. Handled(k)'
    BY <2>4 DEF Handled, Listed, Callers, Range
  <2>6. k \in known'
    BY <1>0, <1>1
  <2>7. Occurrences(k, s) \in Nat /\ Occurrences(k, s) <= 1
    <3>1. \A x, y \in 1 .. Len(s) : s[x] = k /\ s[y] = k => x = y
      <4>1. \A x \in 1 .. Len(s) : x \in 1 .. Len(todo[c])
        BY <1>2, <1>3
      <4> QED
        BY <1>2, <1>3, <4>1 DEF Distinct
    <3> QED
      BY <3>1, OccurrencesCount
  <2>8. \A b \in Consumers : held'[b][k] <= 1
    <3>1. held'[c][k] <= 1
      BY <1>2, <2>2, <2>7 DEF Delivered
    <3> QED
      BY <3>1 DEF OneEach
  <2>9. CASE k \in Range(s)
    <3>1. PICK x \in 1 .. Len(s) : s[x] = k
      BY <2>9 DEF Range
    <3>2. x \in 1 .. Len(todo[c]) /\ todo[c][x] = k /\ ~(x > arg[c])
      BY <1>2, <1>3, <3>1
    <3>3. ~Behind(c, k)
      BY <3>2 DEF Behind
    <3>4. ~InRing(k)
      BY <1>0, <1>8, <3>3 DEF Single, Queued
    <3>5. ~InRing(k)'
      BY <1>1, <3>4, RingKeepsPlaces
    <3> QED
      BY <2>3, <2>4, <2>5, <2>6, <2>8, <3>5, SingleOutside
  <2>10. CASE k \notin Range(s)
    <3>1. \A b \in Consumers : held'[b][k] = 0
      <4>1. \A b \in Consumers : held'[b][k] = held[b][k]
        BY <1>2, <2>10, DeliveredElsewhere
      <4> QED
        BY <2>2, <4>1
    <3>2. HeldOnce(k)'
      BY <3>1 DEF HeldOnce
    <3>3. OneSlot(k)'
      BY <1>6 DEF Single, OneSlot, Indices
    <3>4. InRing(k)' => \A q \in Callers : pc'[q] \notin {"select", "fill"}
      <4>1. InRing(k)' => InRing(k)
        BY <1>1, RingKeepsPlaces
      <4>2. InRing(k) => \A q \in Callers : pc[q] \notin {"select", "fill"}
        BY DEF Single, Queued
      <4> QED
        BY <1>1, <4>1, <4>2 DEF Moved
    <3>5. Queued(k)'
      BY <2>3, <2>4, <3>4 DEF Queued, Listed, Callers, Range
    <3> QED
      BY <2>5, <2>6, <3>2, <3>3, <3>5 DEF Single
  <2> QED
    BY <2>9, <2>10
<1> QED
  BY <1>7, <1>8

LEMMA FinishKeepsSingle ==
  ASSUME Typed, AllOrdered, OneEach, NEW c \in Consumers, FinishStep(c),
         NEW k \in Jobs, Settled(k), Single(k)
  PROVE  Single(k)'
<1>0. c \in Callers /\ k \in known /\ k \notin Range(<<>>)
  BY CallerKinds, BacklogIsOld DEF Range
<1>h. \A b \in Consumers : held[b][k] \in Nat /\ b = c
  BY DEF Typed, HeldOK, OneEach
<1>1. ASSUME NEW js \in SUBSET Jobs, Complete(c, js)
      PROVE  Single(k)'
  <2>1. /\ (\A j \in js : held[c][j] > 0) /\ UNCHANGED <<ring, calls, known>>
        /\ \A j \in Jobs :
              /\ Updated(j, j \in js, "done", 0)
              /\ held'[c][j] = IF j \in js THEN held[c][j] - 1 ELSE held[c][j]
              /\ \A b \in Consumers : b # c => held'[b][j] = held[b][j]
    BY <1>1, CompleteDoes
  <2>2. Updated(k, k \in js, "done", 0)
    BY <2>1
  <2>3. CASE k \notin js
    <3>1. live'[k] = live[k] /\ (k \in late' <=> k \in late)
      BY <2>2, <2>3 DEF Updated
    <3>2. \A b \in Consumers : held'[b][k] = held[b][k]
      BY <2>1, <2>3
    <3>3. \A i \in Indices : slots'[i] = k => slots[i] = k
      BY <2>1, SlotsStay
    <3>4. UNCHANGED calls /\ (k \in known' <=> k \in known)
      BY <2>1
    <3> QED
      BY <3>1, <3>2, <3>3, <3>4, SingleStays
  <2>4. CASE k \in js
    <3>1. held[c][k] > 0
      BY <2>1, <2>4
    <3>2. held[c][k] <= 1 /\ ~InRing(k) /\ ~Listed(k)
      BY <3>1 DEF Single, HeldOnce
    <3>3. ~InRing(k)'
      BY <2>1, <3>2, RingKeepsPlaces
    <3>4. Handled(k)'
      BY <2>1, <3>2 DEF Handled, Listed, calls, Callers, Range
    <3>5. \A b \in Consumers : held'[b][k] = 0
      BY <1>h, <2>1, <2>4, <3>1, <3>2
    <3>6. k \in known'
      BY <1>0, <2>1
    <3> QED
      BY <3>3, <3>4, <3>5, <3>6, SingleOutside
  <2> QED
    BY <2>3, <2>4
<1>2. ASSUME NEW f \in Failers, NEW j \in Jobs, FailRead(f, c, j)
      PROVE  Single(k)'
  <2>0. f \in Callers
    BY CallerKinds
  <2>1. /\ pc[f] = "idle" /\ held[c][j] > 0 /\ UNCHANGED <<rows, ring, known>>
        /\ \A i \in Jobs :
              /\ held'[c][i] = IF i = j THEN held[c][i] - 1 ELSE held[c][i]
              /\ \A b \in Consumers : b # c => held'[b][i] = held[b][i]
        /\ \A b \in Consumers \cup Failers : b # f => arg'[b] = arg[b]
        /\ \/ live[j] = NoRow /\ UNCHANGED calls
           \/ live[j] # NoRow /\ Moved(f, "fail", <<j>>)
    BY <1>2, FailReadDoes
  <2>2. \A i \in Indices : slots'[i] = k => slots[i] = k
    BY <2>1, SlotsStay
  <2>3. Range(<<j>>) = {j}
    BY DEF Range
  <2>4. CASE k # j
    <3>1. \A b \in Consumers : held'[b][k] = held[b][k]
      BY <2>1, <2>4
    <3>2. live'[k] = live[k] /\ (k \in late' <=> k \in late) /\ (k \in known' <=> k \in known)
      BY <2>1 DEF rows
    <3>3. CASE UNCHANGED calls
      BY <2>2, <3>1, <3>2, <3>3, SingleStays
    <3>4. CASE Moved(f, "fail", <<j>>)
      BY <2>0, <2>1, <2>2, <2>3, <2>4, <3>1, <3>2, <3>4, SingleMoves
    <3> QED
      BY <2>1, <3>3, <3>4
  <2>5. CASE k = j
    <3>1. held[c][k] > 0
      BY <2>1, <2>5
    <3>2. /\ held[c][k] <= 1 /\ ~InRing(k) /\ ~Listed(k)
          /\ live[k].status = "processing" /\ k \notin late
      BY <3>1 DEF Single, HeldOnce
    <3>3. Moved(f, "fail", <<j>>)
      BY <2>1, <2>5, <3>2 DEF NoRow
    <3>4. ~InRing(k)'
      BY <2>1, <3>2, RingKeepsPlaces
    <3>5. Handled(k)'
      <4>1. ASSUME NEW q \in Callers, k \in Range(todo'[q])
            PROVE  q = f
        BY <3>2, <3>3, <4>1 DEF Moved, Listed
      <4>2. pc'[f] = "fail" /\ live'[k].status = "processing" /\ k \notin late'
        BY <2>1, <3>2, <3>3 DEF Moved, rows
      <4>3. Alone(f, k)'
        BY <4>1 DEF Alone, Callers, Range
      <4> QED
        BY <4>1, <4>2, <4>3 DEF Handled, Callers, Range
    <3>6. \A b \in Consumers : held'[b][k] = 0
      BY <1>h, <2>1, <2>5, <3>1, <3>2
    <3>7. k \in known'
      BY <1>0, <2>1
    <3> QED
      BY <3>4, <3>5, <3>6, <3>7, SingleOutside
  <2> QED
    BY <2>4, <2>5
<1> QED
  BY <1>1, <1>2 DEF FinishStep

LEMMA FailPushKeepsSingle ==
  ASSUME Typed, NEW f \in Failers, FailPush(f), NEW k \in Jobs, AllOrdered, Single(k)
  PROVE  Single(k)'
<1>0. f \in Callers /\ k \in known /\ k \notin Range(<<>>)
  BY CallerKinds, BacklogIsOld DEF Range
<1>h. \A b \in Consumers : held[b][k] \in Nat
  BY DEF Typed, HeldOK
<1>1. /\ pc[f] = "fail" /\ Moved(f, "idle", <<>>) /\ UNCHANGED <<ring, held, known>>
      /\ \A b \in Consumers \cup Failers : b # f => arg'[b] = arg[b]
      /\ \E j \in Jobs : todo[f] = <<j>> /\ \E status \in {"pending", "failed"} :
           \A i \in Jobs : Updated(i, i \in {j}, status, 0)
  BY FailPushDoes
<1>2. PICK j \in Jobs : todo[f] = <<j>> /\ \E status \in {"pending", "failed"} :
           \A i \in Jobs : Updated(i, i \in {j}, status, 0)
  BY <1>1
<1>3. Range(todo[f]) = {j}
  BY <1>2 DEF Range
<1>4. \A i \in Indices : slots'[i] = k => slots[i] = k
  BY <1>1, SlotsStay
<1>5. CASE k # j
  <2>1. live'[k] = live[k] /\ (k \in late' <=> k \in late)
    BY <1>2, <1>5 DEF Updated
  <2>2. (k \in known' <=> k \in known) /\ \A b \in Consumers : held'[b][k] = held[b][k]
    BY <1>1
  <2> QED
    BY <1>0, <1>1, <1>4, <2>1, <2>2, SingleMoves
<1>6. CASE k = j
  <2>1. k \in Range(todo[f])
    BY <1>3, <1>6
  <2>2. live[k].status = "processing" /\ k \notin late
    BY <1>0, <1>1, <2>1 DEF Single, Handled
  <2>3. ~InRing(k)
    BY <1>0, <1>1, <2>1 DEF Single, Queued
  <2>4. ~InRing(k)'
    BY <1>1, <2>3, RingKeepsPlaces
  <2>5. \A b \in Consumers : held[b][k] = 0
    BY <1>0, <1>h, <2>1 DEF Single, HeldOnce, Listed
  <2>6. \A b \in Consumers : held'[b][k] = 0
    BY <1>1, <2>5
  <2>7. Handled(k)'
    <3>1. ASSUME NEW q \in Callers, k \in Range(todo'[q])
          PROVE  FALSE
      <4>1. q # f
        BY <1>0, <1>1, <3>1 DEF Moved
      <4>2. k \in Range(todo[q])
        BY <1>1, <3>1, <4>1 DEF Moved
      <4>3. Alone(f, k)
        BY <1>0, <1>1, <2>1 DEF Single, Handled
      <4> QED
        BY <4>1, <4>2, <4>3 DEF Alone
    <3> QED
      BY <3>1 DEF Handled, Callers, Range
  <2>8. k \in known'
    BY <1>0, <1>1
  <2> QED
    BY <2>4, <2>6, <2>7, <2>8, SingleOutside
<1> QED
  BY <1>5, <1>6

LEMMA MaintainKeepsSingle ==
  ASSUME Typed, AllOrdered, OneEach, NEW m \in Maintainers, MaintainStep(m),
         NEW k \in Jobs, SeenFits(k), Settled(k), Single(k)
  PROVE  Single(k)'
<1>0. m \in Callers /\ k \in known /\ {"processing", "done"} \subseteq Statuses
  BY CallerKinds, BacklogIsOld DEF Statuses
<1>h. \A b \in Consumers : held[b][k] \in Nat
  BY DEF Typed, HeldOK
<1>1. CASE ReclaimSelect(m)
  <2>1. /\ pc[m] = "idle" /\ UNCHANGED <<rows, ring, arg, held, known>> /\ \E s \in Seq(Jobs) :
              /\ Moved(m, "reclaim", s) /\ \A j \in Range(s) : j \in late /\ Shows(j, "processing")
    BY <1>1, ReclaimSelectDoes
  <2>2. PICK s \in Seq(Jobs) :
          Moved(m, "reclaim", s) /\ \A j \in Range(s) : j \in late /\ Shows(j, "processing")
    BY <2>1
  <2>3. \A i \in Indices : slots'[i] = k => slots[i] = k
    BY <2>1, SlotsStay
  <2>4. CASE k \notin Range(s)
    BY <1>0, <2>1, <2>2, <2>3, <2>4, SingleMoves DEF rows
  <2>5. CASE k \in Range(s)
    <3>1. live[k].status = "processing" /\ k \in late
      BY <1>0, <2>2, <2>5, ShowsTheRow
    <3>2. ~InRing(k)
      BY <3>1 DEF Single, Queued
    <3>3. ~InRing(k)'
      BY <2>1, <3>2, RingKeepsPlaces
    <3>4. \A b \in Consumers : held'[b][k] = 0
      BY <1>h, <2>1, <3>1 DEF Single, HeldOnce
    <3>5. live'[k].status = "processing" /\ k \in late'
      BY <2>1, <3>1 DEF rows
    <3>6. Handled(k)'
      <4>1. ASSUME NEW q \in Callers, k \in Range(todo'[q])
            PROVE  pc'[q] = "reclaim"
        <5>1. CASE q = m
          BY <2>2, <5>1 DEF Moved
        <5>2. CASE q # m
          <6>1. k \in Range(todo[q]) /\ pc'[q] = pc[q]
            BY <2>2, <4>1, <5>2 DEF Moved
          <6> QED
            BY <3>1, <6>1, ListersAre
        <5> QED
          BY <5>1, <5>2
      <4> QED
        BY <3>5, <4>1 DEF Handled, Callers, Range
    <3>7. k \in known'
      BY <1>0, <2>1
    <3> QED
      BY <3>3, <3>4, <3>6, <3>7, SingleOutside
  <2> QED
    BY <2>4, <2>5
<1>2. CASE Reclaim(m)
  <2>1. /\ pc[m] = "reclaim" /\ todo[m] # <<>> /\ Moved(m, "reclaim", Tail(todo[m]))
        /\ UNCHANGED <<ring, held, arg, known>> /\ Updated(k, k \in {todo[m][1]}, "pending", 0)
    BY <1>2, ReclaimDoes
  <2>2. todo[m] \in Seq(Jobs) /\ Distinct(todo[m])
    BY <1>0, <2>1, TodoIsJobs DEF AllOrdered, Ordered
  <2>3. /\ todo[m][1] \in Range(todo[m]) /\ Range(Tail(todo[m])) \subseteq Range(todo[m])
        /\ todo[m][1] \notin Range(Tail(todo[m]))
    BY <2>1, <2>2, TailOf
  <2>4. \A i \in Indices : slots'[i] = k => slots[i] = k
    BY <2>1, SlotsStay
  <2>5. CASE k # todo[m][1]
    <3>1. live'[k] = live[k] /\ (k \in late' <=> k \in late)
      BY <2>1, <2>5 DEF Updated
    <3>2. k \in Range(Tail(todo[m])) => k \in Range(todo[m]) /\ pc[m] = "reclaim"
      BY <2>1, <2>3
    <3> QED
      BY <1>0, <2>1, <2>4, <3>1, <3>2, SingleMoves
  <2>6. CASE k = todo[m][1]
    <3>1. live[k].status = "processing" /\ k \in late
      BY <1>0, <2>1, <2>3, <2>6 DEF Single, Handled
    <3>2. ~InRing(k)
      BY <3>1 DEF Single, Queued
    <3>3. ~InRing(k)'
      BY <2>1, <3>2, RingKeepsPlaces
    <3>4. \A b \in Consumers : held'[b][k] = 0
      BY <1>h, <2>1, <3>1 DEF Single, HeldOnce
    <3>5. Handled(k)'
      <4>1. ASSUME NEW q \in Callers, k \in Range(todo'[q])
            PROVE  FALSE
        <5>1. q # m
          BY <2>1, <2>3, <2>6, <4>1 DEF Moved
        <5>2. k \in Range(todo[q])
          BY <2>1, <4>1, <5>1 DEF Moved
        <5>3. q \in Maintainers
          BY <3>1, <5>2, ListersAre
        <5> QED
          BY <5>1, <5>3 DEF OneEach
      <4> QED
        BY <4>1 DEF Handled, Callers, Range
    <3>6. k \in known'
      BY <1>0, <2>1
    <3> QED
      BY <3>3, <3>4, <3>5, <3>6, SingleOutside
  <2> QED
    BY <2>5, <2>6
<1>3. CASE PruneSelect(m)
  <2>1. /\ pc[m] = "reclaim" /\ todo[m] = <<>> /\ UNCHANGED <<rows, ring, arg, held, known>>
        /\ \E s \in Seq(Jobs) :
              /\ Moved(m, IF s = <<>> THEN "idle" ELSE "commit", s)
              /\ \A j \in Range(s) : j \in late /\ Shows(j, "done")
    BY <1>3, PruneSelectDoes
  <2>2. PICK s \in Seq(Jobs) : /\ Moved(m, IF s = <<>> THEN "idle" ELSE "commit", s)
                               /\ \A j \in Range(s) : j \in late /\ Shows(j, "done")
    BY <2>1
  <2>3. PICK place : place = IF s = <<>> THEN "idle" ELSE "commit"
    OBVIOUS
  <2>4. Moved(m, place, s) /\ (k \in Range(s) => place = "commit")
    BY <2>2, <2>3 DEF Range
  <2>5. \A i \in Indices : slots'[i] = k => slots[i] = k
    BY <2>1, SlotsStay
  <2>6. CASE k \notin Range(s)
    <3>1. place \notin {"select", "fill"}
      BY <2>3
    <3> QED
      BY <1>0, <2>1, <2>4, <2>5, <2>6, <3>1, SingleMoves DEF rows
  <2>7. CASE k \in Range(s)
    <3>1. Aged(k)
      BY <1>0, <2>2, <2>7, ShowsTheRow DEF Aged
    <3>2. ~InRing(k) /\ Unheld(k) /\ Unlisted(k)
      BY <3>1 DEF Settled, Quiet
    <3>3. ~InRing(k)'
      BY <2>1, <3>2, RingKeepsPlaces
    <3>4. \A b \in Consumers : held'[b][k] = 0
      BY <2>1, <3>2 DEF Unheld
    <3>5. Unlisted(k)'
      BY <1>0, <2>4, <3>2, MovedAway
    <3>6. Handled(k)'
      BY <3>5 DEF Unlisted, Handled
    <3>7. k \in known'
      BY <1>0, <2>1
    <3> QED
      BY <3>3, <3>4, <3>6, <3>7, SingleOutside
  <2> QED
    BY <2>6, <2>7
<1>4. CASE Prune(m)
  <2>1. /\ pc[m] \in {"commit", "prune"} /\ todo[m] # <<>> /\ UNCHANGED <<late, ring, held, arg, known>>
        /\ Moved(m, IF Len(todo[m]) = 1 THEN "idle" ELSE "prune", Tail(todo[m]))
        /\ k # todo[m][1] => live'[k] = live[k]
    BY <1>4, PruneDoes
  <2>2. PICK place : place = IF Len(todo[m]) = 1 THEN "idle" ELSE "prune"
    OBVIOUS
  <2>3. PICK s : s = Tail(todo[m])
    OBVIOUS
  <2>4. /\ todo[m] \in Seq(Jobs) /\ Range(s) \subseteq Range(todo[m])
        /\ todo[m][1] \in Range(todo[m])
    BY <1>0, <2>1, <2>3, TailOf, TodoIsJobs
  <2>5. k \in Range(s) => place = "prune"
    <3>1. CASE Len(todo[m]) = 1
      <4>1. s = <<>>
        BY <2>3, <2>4, <3>1
      <4> QED
        BY <4>1 DEF Range
    <3> QED
      BY <2>2, <3>1
  <2>6. Moved(m, place, s) /\ place \notin {"select", "fill"}
    BY <2>1, <2>2, <2>3
  <2>7. \A i \in Indices : slots'[i] = k => slots[i] = k
    BY <2>1, SlotsStay
  <2>8. CASE k # todo[m][1]
    <3>1. k \in Range(s) => k \in Range(todo[m]) /\ place = "prune"
      BY <2>4, <2>5
    <3>2. UNCHANGED arg
      BY <2>1
    <3> QED
      BY <1>0, <2>1, <2>6, <2>7, <2>8, <3>1, <3>2, SingleMoves
  <2>9. CASE k = todo[m][1]
    <3>1. Dying(k)
      BY <1>0, <2>1, <2>4, <2>9 DEF Dying
    <3>2. ~InRing(k) /\ Unheld(k) /\ Unlisted(k)
      BY <3>1 DEF Settled, Quiet
    <3>3. ~InRing(k)'
      BY <2>1, <3>2, RingKeepsPlaces
    <3>4. \A b \in Consumers : held'[b][k] = 0
      BY <2>1, <3>2 DEF Unheld
    <3>5. Unlisted(k)'
      BY <1>0, <2>5, <2>6, <3>2, MovedAway
    <3>6. Handled(k)'
      BY <3>5 DEF Unlisted, Handled
    <3>7. k \in known'
      BY <1>0, <2>1
    <3> QED
      BY <3>3, <3>4, <3>6, <3>7, SingleOutside
  <2> QED
    BY <2>8, <2>9
<1> QED
  BY <1>1, <1>2, <1>3, <1>4 DEF MaintainStep

LEMMA WorldKeepsSingle ==
  ASSUME Typed, AllOrdered, NEW k \in Jobs, Single(k), slow' = 0,
         \/ \E j \in Jobs : Due(j) \/ Stale(j) \/ Old(j)
         \/ \E p \in Callers : CallTimeout(p)
         \/ Persist \/ Crash \/ UNCHANGED vars
  PROVE  Single(k)'
<1>0. k \in known /\ k \notin Range(<<>>)
  BY BacklogIsOld DEF Range
<1>1. CASE \E j \in Jobs : Stale(j) \/ Old(j)
  <2>1. PICK j \in Jobs : Stale(j) \/ Old(j)
    BY <1>1
  <2>2. ~Busy(j)
    <3>1. slow \in Nat
      BY DEF Typed, CountsOK
    <3>2. slow + 1 # 0
      BY <3>1
    <3>3. CASE Stale(j)
      BY <3>2, <3>3, StaleDoes
    <3>4. CASE Old(j)
      BY <3>4, OldDoes
    <3> QED
      BY <2>1, <3>3, <3>4
  <2>3. late' = late \cup {j} /\ UNCHANGED <<live, ring, calls, held, known>>
    BY <2>1, StaleDoes, OldDoes
  <2>4. \A i \in Indices : slots'[i] = k => slots[i] = k
    BY <2>3, SlotsStay
  <2>5. CASE k # j
    <3>1. live'[k] = live[k] /\ (k \in late' <=> k \in late) /\ (k \in known' <=> k \in known)
      BY <2>3, <2>5
    <3>2. \A b \in Consumers : held'[b][k] = held[b][k]
      BY <2>3
    <3>3. UNCHANGED calls
      BY <2>3
    <3> QED
      BY <2>4, <3>1, <3>2, <3>3, SingleStays
  <2>6. CASE k = j
    <3>1. ~InRing(k) /\ ~Listed(k)
      BY <2>2, <2>6 DEF Busy, InRing, Listed
    <3>2. \A b \in Consumers : held[b][k] = 0
      <4>1. \A b \in Consumers : held[b][k] \in Nat
        BY DEF Typed, HeldOK
      <4> QED
        BY <2>2, <2>6, <4>1 DEF Busy
    <3>3. ~InRing(k)'
      BY <2>3, <3>1, RingKeepsPlaces
    <3>4. Handled(k)'
      BY <2>3, <3>1 DEF Handled, Listed, calls, Callers, Range
    <3>5. \A b \in Consumers : held'[b][k] = 0
      BY <2>3, <3>2
    <3>6. k \in known'
      BY <1>0, <2>3
    <3> QED
      BY <3>3, <3>4, <3>5, <3>6, SingleOutside
  <2> QED
    BY <2>5, <2>6
<1>2. CASE (\E j \in Jobs : Due(j)) \/ Persist \/ UNCHANGED vars
  <2>1. UNCHANGED <<live, late, ring, calls, held, known>>
    BY <1>2, DueDoes, PersistDoes DEF vars, rows
  <2>2. \A i \in Indices : slots'[i] = k => slots[i] = k
    BY <2>1, SlotsStay
  <2>3. live'[k] = live[k] /\ (k \in late' <=> k \in late) /\ (k \in known' <=> k \in known)
    BY <2>1
  <2>4. (\A b \in Consumers : held'[b][k] = held[b][k]) /\ UNCHANGED calls
    BY <2>1
  <2> QED
    BY <2>2, <2>3, <2>4, SingleStays
<1>3. CASE \E p \in Callers : CallTimeout(p)
  <2>1. PICK p \in Callers : /\ Moved(p, "idle", <<>>) /\ UNCHANGED <<rows, ring, held, known>>
                             /\ \A b \in Consumers \cup Failers : b # p => arg'[b] = arg[b]
    BY <1>3, CallTimeoutDoes
  <2>2. \A i \in Indices : slots'[i] = k => slots[i] = k
    BY <2>1, SlotsStay
  <2> QED
    BY <1>0, <2>1, <2>2, SingleMoves DEF rows
<1>4. CASE Crash
  <2>1. /\ \A i \in Indices : slots'[i] = NoJob
        /\ \A p \in Callers : todo'[p] = <<>>
        /\ \A c \in Consumers : held'[c][k] = 0
        /\ UNCHANGED known
    BY <1>4, CrashDoes
  <2>2. k # NoJob
    OBVIOUS
  <2>3. ~InRing(k)'
    BY <2>1, <2>2 DEF InRing, Indices
  <2>4. Handled(k)'
    BY <1>0, <2>1 DEF Handled, Callers, Range
  <2>5. k \in known'
    BY <1>0, <2>1
  <2> QED
    BY <2>1, <2>3, <2>4, <2>5, SingleOutside
<1> QED
  BY <1>1, <1>2, <1>3, <1>4

LEMMA SlowGrows ==
  ASSUME Typed, [Next]_vars
  PROVE  slow' \in {slow, slow + 1}
<1>1. CASE \E j \in Jobs : Stale(j)
  BY <1>1, StaleDoes
<1>2. CASE \/ \E j \in Jobs : Due(j) \/ Old(j)
           \/ \E p \in Callers : CallTimeout(p)
           \/ Persist \/ Crash \/ UNCHANGED vars
  BY <1>2, DueDoes, OldDoes, CallTimeoutDoes, PersistDoes, CrashDoes DEF faults, vars
<1>3. ASSUME NEW p \in Producers, EnqueueSome(p) \/ ProducerStep(p)
      PROVE  slow' = slow
  BY <1>3, EnqueueDoes, EnqueueBatchDoes, EnqueueRingDoes, EnqueueNextDoes
     DEF EnqueueSome, ProducerStep, faults
<1>4. ASSUME NEW c \in Consumers, Dequeue(c)
      PROVE  slow' = slow
  <2>1. \A limit \in 1 .. Limit : limit \in Nat
    OBVIOUS
  <2> QED
    BY <1>4, <2>1, DequeueRingDoes, DequeueCallDoes, DequeueSelectDoes, DequeueFillDoes,
       DequeueClaimDoes DEF Dequeue, DequeueStep, faults
<1>5. ASSUME NEW c \in Consumers, FinishStep(c)
      PROVE  slow' = slow
  BY <1>5, CompleteDoes, FailReadDoes DEF FinishStep, faults
<1>7. ASSUME NEW f \in Failers, FailPush(f)
      PROVE  slow' = slow
  BY <1>7, FailPushDoes DEF faults
<1>6. ASSUME NEW m \in Maintainers, MaintainStep(m)
      PROVE  slow' = slow
  BY <1>6, ReclaimSelectDoes, ReclaimDoes, PruneSelectDoes, PruneDoes DEF MaintainStep, faults
<1> QED
  BY <1>1, <1>2, <1>3, <1>4, <1>5, <1>6, <1>7 DEF Next

LEMMA SingleKept ==
  ASSUME QueueInv, AllOrdered, OneEach, [Next]_vars, slow' = 0, NEW k \in Jobs, Single(k)
  PROVE  Single(k)'
<1>1. Typed /\ Arrivals /\ SeenFits(k) /\ Settled(k)
  BY DEF QueueInv
<1>2. ASSUME NEW c \in Consumers, Dequeue(c)
      PROVE  Single(k)'
  <2>1. \A limit \in 1 .. Limit : limit \in Nat
    OBVIOUS
  <2> QED
    BY <1>1, <1>2, <2>1, RingDeliveryKeepsSingle, CallKeepsSingle, SelectKeepsSingle,
       FillKeepsSingle, ClaimKeepsSingle DEF Dequeue, DequeueStep
<1> QED
  BY <1>1, <1>2, EnqueueKeepsSingle, FinishKeepsSingle, FailPushKeepsSingle, MaintainKeepsSingle,
     WorldKeepsSingle DEF Next

\* Without a slow handler, every job of the backlog is in one place at a time.
BacklogInv ==
  /\ QueueInv /\ AllOrdered
  /\ slow = 0 => \A j \in Backlog : Single(j)

LEMMA BacklogInvAtFirst ==
  ASSUME Init
  PROVE  BacklogInv
<1>1. ASSUME NEW j \in Backlog
      PROVE  Single(j)
  <2>1. j \in known /\ \A c \in Consumers : held[c][j] = 0
    BY DEF Init
  <2>2. \A i \in Indices : slots[i] # j
    BY DEF Init
  <2>3. \A p \in Callers : j \notin Range(todo[p])
    <3>1. \A p \in Callers : todo[p] = <<>>
      BY DEF Init
    <3> QED
      BY <3>1 DEF Range
  <2> QED
    BY <2>1, <2>2, <2>3 DEF Single, HeldOnce, OneSlot, Queued, InRing, Handled
<1> QED
  BY <1>1, QueueInvAtFirst, OrderedAtFirst DEF BacklogInv

LEMMA BacklogInvKept ==
  ASSUME BacklogInv, OneEach, [Next]_vars
  PROVE  BacklogInv'
<1>1. QueueInv' /\ AllOrdered'
  BY QueueInvKept, OrderedKept DEF BacklogInv, QueueInv
<1>2. ASSUME slow' = 0, NEW j \in Backlog
      PROVE  Single(j)'
  <2>1. slow = 0
    <3>1. slow \in Nat /\ slow' \in {slow, slow + 1}
      BY SlowGrows DEF BacklogInv, QueueInv, Typed, CountsOK
    <3> QED
      BY <1>2, <3>1
  <2> QED
    BY <1>2, <2>1, SingleKept DEF BacklogInv
<1> QED
  BY <1>1, <1>2 DEF BacklogInv

\* With one consumer and one maintainer, and as long as no handler outlives the
\* visibility timeout, a job that waited on disk is run by one handler at a time:
\* whatever the size of the ring and of the batches, and however often the process
\* crashes, a claim times out, or producers put their jobs into the same ring.
THEOREM BacklogIsExclusive ==
  ASSUME \A b, c \in Consumers : b = c, \A l, m \in Maintainers : l = m
  PROVE  Spec => []BacklogExclusive
<1>0. OneEach
  BY DEF OneEach
<1>1. Init => BacklogInv
  BY BacklogInvAtFirst
<1>2. BacklogInv /\ [Next]_vars => BacklogInv'
  BY <1>0, BacklogInvKept
<1>3. BacklogInv => BacklogExclusive
  <2> SUFFICES ASSUME BacklogInv, slow = 0, NEW j \in Backlog
               PROVE  Runs(j) <= 1 /\ \A c \in Consumers : held[c][j] <= 1
    BY DEF BacklogExclusive
  <2>1. \A c \in Consumers : held[c][j] <= 1
    BY DEF BacklogInv, Single, HeldOnce
  <2>2. PICK S : S = {c \in Consumers : held[c][j] > 0}
    OBVIOUS
  <2>3. CASE S = {}
    <3>1. Cardinality(S) = 0
      BY <2>3, FS_EmptySet
    <3> QED
      BY <2>1, <2>2, <3>1 DEF Runs
  <2>4. CASE \E c : c \in S
    <3>1. PICK c : c \in S
      BY <2>4
    <3>2. S = {c}
      BY <2>2, <3>1
    <3>3. Cardinality({c}) = 1
      BY FS_Singleton
    <3> QED
      BY <2>1, <2>2, <3>2, <3>3 DEF Runs
  <2> QED
    BY <2>3, <2>4
<1> QED
  BY <1>1, <1>2, <1>3, PTL DEF Spec

-----------------------------------------------------------------------------
(* A job that is done stays done *)

\* A job of the backlog that is done is in no handler, not in the ring, and only a
\* maintainer that prunes it lists it.
LEMMA DoneIsLeft ==
  ASSUME Typed, NEW k \in Jobs, Single(k), live[k].status = "done"
  PROVE  /\ ~InRing(k) /\ \A c \in Consumers : ~(held[c][k] > 0)
         /\ \A p \in Callers : k \in Range(todo[p]) => pc[p] \in {"commit", "prune"}
<1>1. ~InRing(k)
  BY DEF Single, Queued
<1>2. \A c \in Consumers : ~(held[c][k] > 0)
  BY DEF Single, HeldOnce
<1>3. \A p \in Callers : k \in Range(todo[p]) => pc[p] \in {"commit", "prune"}
  BY DEF Single, Handled
<1> QED
  BY <1>1, <1>2, <1>3

LEMMA DoneStays ==
  ASSUME Typed, Arrivals, [Next]_vars, crashes' = crashes,
         NEW k \in Jobs, Single(k), live[k].status = "done"
  PROVE  live'[k].status \in {"done", "none"}
<1>0. /\ ~InRing(k) /\ \A c \in Consumers : ~(held[c][k] > 0)
      /\ \A p \in Callers : k \in Range(todo[p]) => pc[p] \in {"commit", "prune"}
  BY DoneIsLeft
<1>1. ~New(k) /\ k \in known
  BY BacklogIsOld
<1>2. ASSUME NEW p \in Producers, EnqueueSome(p) \/ ProducerStep(p)
      PROVE  live'[k] = live[k]
  <2>0. p \in Callers
    BY CallerKinds
  <2>1. ASSUME NEW j \in Jobs, NEW delayed \in BOOLEAN, Enqueue(p, j, delayed)
        PROVE  live'[k] = live[k]
    <3>1. New(j) /\ Inserted(j)
      BY <2>1, EnqueueDoes
    <3>2. k # j
      BY <1>1, <3>1
    <3> QED
      BY <3>1, <3>2 DEF Inserted
  <2>2. ASSUME NEW s \in Batches, NEW due \in Sublists(s), EnqueueBatch(p, s, due)
        PROVE  live'[k] = live[k]
    <3>1. (\A j \in Range(s) : New(j)) /\ s \in Seq(Jobs) /\ s # <<>> /\ Inserted(s[1])
      BY <2>2, EnqueueBatchDoes
    <3>2. s[1] \in Range(s)
      BY <3>1, TailOf
    <3>3. k # s[1]
      BY <1>1, <3>1, <3>2
    <3> QED
      BY <3>1, <3>3 DEF Inserted
  <2>3. CASE EnqueueRing(p)
    BY <2>3, EnqueueRingDoes DEF rows
  <2>4. CASE EnqueueNext(p)
    <3>1. pc[p] = "enqueueBatch" /\ (RowsStay \/ (todo[p] # <<>> /\ Inserted(todo[p][1])))
      BY <2>4, EnqueueNextDoes
    <3>2. CASE RowsStay
      BY <3>2 DEF RowsStay
    <3>3. CASE todo[p] # <<>> /\ Inserted(todo[p][1])
      <4>1. todo[p][1] \in Range(todo[p])
        BY <2>0, <3>3, TailOf, TodoIsJobs
      <4>2. k # todo[p][1]
        BY <1>0, <2>0, <3>1, <4>1
      <4> QED
        BY <3>3, <4>2 DEF Inserted
    <3> QED
      BY <3>1, <3>2, <3>3
  <2> QED
    BY <1>2, <2>1, <2>2, <2>3, <2>4 DEF EnqueueSome, ProducerStep
<1>3. ASSUME NEW c \in Consumers, Dequeue(c)
      PROVE  live'[k] = live[k]
  <2>0. c \in Callers
    BY CallerKinds
  <2>1. ASSUME NEW limit \in 1 .. Limit, DequeueRing(c, limit)
        PROVE  live'[k] = live[k]
    <3>1. PICK s \in Seq(Jobs) :
             Takes(s) /\ \A j \in Jobs : Updated(j, j \in Range(s), "processing", 1)
      BY <2>1, DequeueRingDoes
    <3>2. k \notin Range(s)
      BY <1>0, <3>1, TakesFrom DEF InRing
    <3>3. Updated(k, k \in Range(s), "processing", 1)
      BY <3>1
    <3> QED
      BY <3>2, <3>3 DEF Updated
  <2>2. CASE (\E limit \in 1 .. Limit : DequeueCall(c, limit)) \/ DequeueSelect(c) \/ DequeueFill(c)
    <3>1. UNCHANGED rows
      BY <2>2, DequeueCallDoes, DequeueSelectDoes, DequeueFillDoes
    <3> QED
      BY <3>1 DEF rows
  <2>3. ASSUME DequeueClaim(c)
        PROVE  live'[k] = live[k]
    <3>1. pc[c] = "claim" /\ \A j \in Jobs : Updated(j, j \in Range(todo[c]), "processing", 1)
      BY <2>3, DequeueClaimDoes
    <3>2. k \notin Range(todo[c])
      BY <1>0, <2>0, <3>1
    <3>3. Updated(k, k \in Range(todo[c]), "processing", 1)
      BY <3>1
    <3> QED
      BY <3>2, <3>3 DEF Updated
  <2> QED
    BY <1>3, <2>1, <2>2, <2>3 DEF Dequeue, DequeueStep
<1>4. ASSUME NEW c \in Consumers, FinishStep(c)
      PROVE  live'[k] = live[k]
  <2>0. c \in Callers
    BY CallerKinds
  <2>1. ASSUME NEW js \in SUBSET Jobs, Complete(c, js)
        PROVE  live'[k] = live[k]
    <3>1. (\A j \in js : held[c][j] > 0) /\ \A j \in Jobs : Updated(j, j \in js, "done", 0)
      BY <2>1, CompleteDoes
    <3>2. k \notin js
      BY <1>0, <3>1
    <3>3. Updated(k, k \in js, "done", 0)
      BY <3>1
    <3> QED
      BY <3>2, <3>3 DEF Updated
  <2>2. CASE \E f \in Failers, j \in Jobs : FailRead(f, c, j)
    BY <2>2, FailReadDoes DEF rows
  <2> QED
    BY <1>4, <2>1, <2>2 DEF FinishStep
<1>9. ASSUME NEW f \in Failers, FailPush(f)
      PROVE  live'[k] = live[k]
  <2>0. f \in Callers
    BY CallerKinds
  <2>1. PICK j \in Jobs :
            /\ pc[f] = "fail" /\ todo[f] = <<j>>
            /\ \/ \A i \in Jobs : Updated(i, i \in {j}, "pending", 0)
               \/ \A i \in Jobs : Updated(i, i \in {j}, "failed", 0)
    BY <1>9, FailPushDoes
  <2>2. j \in Range(todo[f])
    BY <2>1 DEF Range
  <2>3. k \notin {j}
    BY <1>0, <2>0, <2>1, <2>2
  <2>4. Updated(k, k \in {j}, "pending", 0) \/ Updated(k, k \in {j}, "failed", 0)
    BY <2>1
  <2> QED
    BY <2>3, <2>4 DEF Updated
<1>5. ASSUME NEW m \in Maintainers, MaintainStep(m)
      PROVE  live'[k] = live[k] \/ live'[k] = NoRow
  <2>0. m \in Callers
    BY CallerKinds
  <2>1. CASE ReclaimSelect(m) \/ PruneSelect(m)
    BY <2>1, ReclaimSelectDoes, PruneSelectDoes DEF rows
  <2>2. CASE Reclaim(m)
    <3>1. /\ pc[m] = "reclaim" /\ todo[m] # <<>>
          /\ \A j \in Jobs : Updated(j, j \in {todo[m][1]}, "pending", 0)
      BY <2>2, ReclaimDoes
    <3>2. todo[m][1] \in Range(todo[m])
      BY <2>0, <3>1, TailOf, TodoIsJobs
    <3>3. k \notin {todo[m][1]}
      BY <1>0, <2>0, <3>1, <3>2
    <3>4. Updated(k, k \in {todo[m][1]}, "pending", 0)
      BY <3>1
    <3> QED
      BY <3>3, <3>4 DEF Updated
  <2>3. CASE Prune(m)
    BY <2>3, PruneDoes
  <2> QED
    BY <1>5, <2>1, <2>2, <2>3 DEF MaintainStep
<1>6. ASSUME \/ \E j \in Jobs : Due(j) \/ Stale(j) \/ Old(j)
             \/ \E p \in Callers : CallTimeout(p)
             \/ Persist \/ UNCHANGED vars
      PROVE  live'[k] = live[k]
  BY <1>6, DueDoes, StaleDoes, OldDoes, CallTimeoutDoes, PersistDoes DEF vars, rows
<1>7. ~Crash
  <2>1. crashes \in Nat
    BY DEF Typed, CountsOK
  <2> QED
    BY <2>1, CrashDoes
<1>8. live'[k] = live[k] \/ live'[k] = NoRow
  BY <1>2, <1>3, <1>4, <1>5, <1>6, <1>7, <1>9 DEF Next
<1> QED
  BY <1>8 DEF NoRow

\* With one consumer and one maintainer, and as long as no handler outlives the
\* visibility timeout, a job that waited on disk and is done stays done until it is
\* pruned: no claim, reclaim or failure that was under way brings it back.
THEOREM DoneStaysDone ==
  ASSUME \A b, c \in Consumers : b = c, \A l, m \in Maintainers : l = m
  PROVE  Spec => DoneIsFinal
<1>0. OneEach
  BY DEF OneEach
<1>1. Init => BacklogInv
  BY BacklogInvAtFirst
<1>2. BacklogInv /\ [Next]_vars => BacklogInv'
  BY <1>0, BacklogInvKept
<1>3. BacklogInv /\ [Next]_vars =>
        [slow' = 0 /\ crashes' = crashes =>
           \A j \in Backlog : live[j].status = "done" => live'[j].status \in {"done", "none"}]_vars
  <2> SUFFICES ASSUME BacklogInv, [Next]_vars, slow' = 0, crashes' = crashes,
                      NEW j \in Backlog, live[j].status = "done"
               PROVE  live'[j].status \in {"done", "none"}
    OBVIOUS
  <2>1. Typed /\ Arrivals /\ j \in Jobs
    BY QueueAssumption DEF BacklogInv, QueueInv
  <2>2. slow = 0
    <3>1. slow \in Nat /\ slow' \in {slow, slow + 1}
      BY <2>1, SlowGrows DEF Typed, CountsOK
    <3> QED
      BY <3>1
  <2>3. Single(j)
    BY <2>2 DEF BacklogInv
  <2> QED
    BY <2>1, <2>3, DoneStays
<1> QED
  BY <1>1, <1>2, <1>3, PTL DEF Spec, DoneIsFinal

-----------------------------------------------------------------------------
(* The batches of a loop *)

\* A batch and the jobs of it whose handlers still run.
Batch == {b \in [size : Nat, left : Seq(Jobs)] : Len(b.left) <= b.size}

Sizes == INSTANCE FoldLemmas WITH Op <- LAMBDA p, t, x : t + x.size

Lefts == INSTANCE FoldLemmas WITH Op <- LAMBDA p, t, x : t \o x.left

SizeOf(batches) == Sizes!Fold({}, 0, batches)

Flat(batches) == Lefts!Fold({}, <<>>, batches)

LEMMA InFlightIsFold ==
  /\ \A c : InFlight(c) = SizeOf(flight[c])
  /\ \A c : InFlight(c)' = SizeOf(flight'[c])
BY DEF InFlight, SizeOf, FoldLeft, MapThenFoldSet, Max, Sizes!Fold, Sizes!FoldLeft,
       Sizes!MapThenFoldSet, Sizes!Max

\* No handlers run without a batch, and no more than the batches had jobs.
LEMMA BatchesAre ==
  /\ SizeOf(<<>>) = 0 /\ Flat(<<>>) = <<>>
  /\ \A s \in Seq(Batch) : \A b \in Batch :
       /\ SizeOf(Append(s, b)) = SizeOf(s) + b.size
       /\ Flat(Append(s, b)) = Flat(s) \o b.left
  /\ \A s \in Seq(Batch) : SizeOf(s) \in Nat /\ Flat(s) \in Seq(Jobs)
<1>1. SizeOf(<<>>) = 0 /\ Flat(<<>>) = <<>>
  BY Sizes!FoldOfNone, Lefts!FoldOfNone DEF SizeOf, Flat
<1>2. ASSUME NEW s \in Seq(Batch), NEW b \in Batch
      PROVE  /\ SizeOf(Append(s, b)) = SizeOf(s) + b.size
             /\ Flat(Append(s, b)) = Flat(s) \o b.left
  BY Sizes!FoldOfAppend, Lefts!FoldOfAppend DEF SizeOf, Flat
<1>3. ASSUME NEW s \in Seq(Batch) PROVE SizeOf(s) \in Nat
  <2>1. \A n \in Nat, b \in Batch : n + b.size \in Nat
    BY DEF Batch
  <2>2. Sizes!Fold({}, 0, s) \in Nat
    BY <2>1, Sizes!FoldIsTyped
  <2> QED
    BY <2>2 DEF SizeOf
<1>4. ASSUME NEW s \in Seq(Batch) PROVE Flat(s) \in Seq(Jobs)
  <2>1. \A t \in Seq(Jobs), b \in Batch : t \o b.left \in Seq(Jobs)
    <3>1. \A b \in Batch : b.left \in Seq(Jobs)
      BY DEF Batch
    <3> QED
      BY <3>1, ConcatProperties
  <2>2. <<>> \in Seq(Jobs)
    OBVIOUS
  <2>3. Lefts!Fold({}, <<>>, s) \in Seq(Jobs)
    BY <2>1, <2>2, Lefts!FoldIsTyped
  <2> QED
    BY <2>3 DEF Flat
<1> QED
  BY <1>1, <1>2, <1>3, <1>4

LEMMA BatchesOfConcat ==
  ASSUME NEW s \in Seq(Batch), NEW t \in Seq(Batch)
  PROVE  /\ SizeOf(s \o t) = SizeOf(s) + SizeOf(t)
         /\ Flat(s \o t) = Flat(s) \o Flat(t)
<1>1. PICK S : S = {u \in Seq(Batch) : /\ SizeOf(s \o u) = SizeOf(s) + SizeOf(u)
                                       /\ Flat(s \o u) = Flat(s) \o Flat(u)}
  OBVIOUS
<1>2. \A u \in Seq(Batch) : SizeOf(u) \in Nat /\ Flat(u) \in Seq(Jobs)
  BY BatchesAre
<1>3. <<>> \in S
  <2>1. s \o <<>> = s
    OBVIOUS
  <2>2. PICK n, f : n = SizeOf(s) /\ f = Flat(s)
    OBVIOUS
  <2>3. n + 0 = n /\ f \o <<>> = f
    BY <1>2, <2>2
  <2>4. SizeOf(<<>>) = 0 /\ Flat(<<>>) = <<>>
    BY BatchesAre
  <2>5. SizeOf(s \o <<>>) = SizeOf(s) + SizeOf(<<>>) /\ Flat(s \o <<>>) = Flat(s) \o Flat(<<>>)
    BY <2>1, <2>2, <2>3, <2>4
  <2>6. <<>> \in Seq(Batch)
    OBVIOUS
  <2> QED
    BY <1>1, <2>5, <2>6
<1>4. ASSUME NEW u \in S, NEW b \in Batch
      PROVE  Append(u, b) \in S
  <2>1. /\ u \in Seq(Batch) /\ SizeOf(s \o u) = SizeOf(s) + SizeOf(u)
        /\ Flat(s \o u) = Flat(s) \o Flat(u)
    BY <1>1
  <2>2. Append(u, b) \in Seq(Batch) /\ s \o u \in Seq(Batch) /\ s \o Append(u, b) = Append(s \o u, b)
    BY <2>1
  <2>3. PICK v : v = s \o u
    OBVIOUS
  <2>4. /\ SizeOf(Append(v, b)) = SizeOf(v) + b.size /\ Flat(Append(v, b)) = Flat(v) \o b.left
        /\ SizeOf(Append(u, b)) = SizeOf(u) + b.size /\ Flat(Append(u, b)) = Flat(u) \o b.left
    BY <2>1, <2>2, <2>3, BatchesAre
  <2>5. b.size \in Nat /\ b.left \in Seq(Jobs)
    BY DEF Batch
  <2>6. PICK n, m, f, g, z, l : /\ n = SizeOf(s) /\ m = SizeOf(u) /\ f = Flat(s) /\ g = Flat(u)
                                /\ z = b.size /\ l = b.left
    OBVIOUS
  <2>7. n \in Nat /\ m \in Nat /\ z \in Nat /\ f \in Seq(Jobs) /\ g \in Seq(Jobs) /\ l \in Seq(Jobs)
    BY <1>2, <2>1, <2>5, <2>6
  <2>8. (n + m) + z = n + (m + z)
    BY <2>7
  <2>9. (f \o g) \o l = f \o (g \o l)
    BY <2>7, ConcatAssociative
  <2>10. SizeOf(s \o Append(u, b)) = SizeOf(s) + SizeOf(Append(u, b))
    BY <2>1, <2>2, <2>3, <2>4, <2>6, <2>8
  <2>11. Flat(s \o Append(u, b)) = Flat(s) \o Flat(Append(u, b))
    BY <2>1, <2>2, <2>3, <2>4, <2>6, <2>9
  <2> QED
    BY <1>1, <2>2, <2>10, <2>11
<1>5. S = Seq(Batch)
  BY <1>1, <1>3, <1>4, Sizes!SequenceSetInduction
<1> QED
  BY <1>1, <1>5

LEMMA BatchOfOne ==
  ASSUME NEW b \in Batch
  PROVE  <<b>> \in Seq(Batch) /\ SizeOf(<<b>>) = b.size /\ Flat(<<b>>) = b.left
<1>1. <<>> \in Seq(Batch) /\ Append(<<>>, b) = <<b>> /\ <<b>> \in Seq(Batch)
  OBVIOUS
<1>2. b.size \in Nat /\ b.left \in Seq(Jobs)
  BY DEF Batch
<1>3. SizeOf(Append(<<>>, b)) = 0 + b.size /\ Flat(Append(<<>>, b)) = <<>> \o b.left
  BY <1>1, BatchesAre
<1>4. PICK z, l : z = b.size /\ l = b.left
  OBVIOUS
<1>5. 0 + z = z /\ <<>> \o l = l
  BY <1>2, <1>4
<1> QED
  BY <1>1, <1>3, <1>4, <1>5

\* The elements of a sequence around one of them.
Around(a, z, s, i) ==
  /\ s = a \o <<s[i]>> \o z /\ RemoveAt(s, i) = a \o z
  /\ \A y : [s EXCEPT ![i] = y] = a \o <<y>> \o z

LEMMA AroundIs ==
  ASSUME NEW X, NEW s \in Seq(X), NEW i \in 1 .. Len(s)
  PROVE  \E a \in Seq(X), z \in Seq(X) : Around(a, z, s, i)
<1>1. PICK n : n = Len(s)
  OBVIOUS
<1>2. n \in Nat /\ i \in Nat /\ i >= 1 /\ i <= n
  BY <1>1
<1>3. PICK a, z : a = SubSeq(s, 1, i - 1) /\ z = SubSeq(s, i + 1, n)
  OBVIOUS
<1>4. a \in Seq(X) /\ Len(a) = i - 1 /\ \A k \in 1 .. i - 1 : a[k] = s[k]
  BY <1>1, <1>2, <1>3
<1>5. z \in Seq(X) /\ Len(z) = n - i /\ \A k \in 1 .. n - i : z[k] = s[i + k]
  BY <1>1, <1>2, <1>3
<1>6. RemoveAt(s, i) = a \o z
  BY <1>1, <1>3 DEF RemoveAt
<1>7. ASSUME NEW y PROVE [s EXCEPT ![i] = y] = a \o <<y>> \o z
  <2>1. PICK t : t = [s EXCEPT ![i] = y]
    OBVIOUS
  <2>2. PICK u : u = a \o <<y>> \o z
    OBVIOUS
  <2>3. PICK Y : Y = X \cup {y}
    OBVIOUS
  <2>4. a \in Seq(Y) /\ <<y>> \in Seq(Y) /\ z \in Seq(Y) /\ s \in Seq(Y)
    BY <1>4, <1>5, <2>3
  <2>5. PICK h : h = a \o <<y>>
    OBVIOUS
  <2>6. h \in Seq(Y) /\ Len(h) = i /\ h[i] = y /\ \A k \in 1 .. i - 1 : h[k] = a[k]
    BY <1>2, <1>4, <2>4, <2>5, ConcatProperties
  <2>7. u \in Seq(Y) /\ Len(u) = n /\ (\A k \in 1 .. i : u[k] = h[k])
        /\ \A k \in 1 .. n - i : u[i + k] = z[k]
    <3>1. u = h \o z
      BY <2>2, <2>5
    <3>2. i + (n - i) = n
      BY <1>2
    <3>3. u \in Seq(Y) /\ Len(u) = Len(h) + Len(z)
      BY <2>4, <2>6, <3>1, ConcatProperties
    <3>4. \A k \in 1 .. Len(h) : u[k] = h[k]
      BY <2>4, <2>6, <3>1, ConcatProperties
    <3>5. \A k \in 1 .. Len(z) : u[Len(h) + k] = z[k]
      <4>1. ASSUME NEW k \in 1 .. Len(z) PROVE u[Len(h) + k] = z[k]
        <5>1. Len(h) \in Nat /\ Len(z) \in Nat /\ Len(h) + k \in 1 .. Len(h) + Len(z)
              /\ ~(Len(h) + k <= Len(h)) /\ (Len(h) + k) - Len(h) = k
          BY <1>2, <1>5, <2>6
        <5> QED
          BY <2>4, <2>6, <3>1, <5>1
      <4> QED
        BY <4>1
    <3> QED
      BY <1>5, <2>6, <3>2, <3>3, <3>4, <3>5
  <2>8. t \in Seq(Y) /\ Len(t) = n /\ t[i] = y /\ \A k \in 1 .. n : k # i => t[k] = s[k]
    BY <1>1, <1>2, <2>1, <2>3, <2>4
  <2>9. ASSUME NEW k \in 1 .. n PROVE t[k] = u[k]
    <3>1. CASE k < i
      <4>1. k \in 1 .. i - 1 /\ k \in 1 .. i /\ k # i
        BY <1>2, <3>1
      <4>2. t[k] = s[k]
        BY <2>8, <4>1
      <4>3. u[k] = h[k] /\ h[k] = a[k] /\ a[k] = s[k]
        BY <1>4, <2>6, <2>7, <4>1
      <4> QED
        BY <4>2, <4>3
    <3>2. CASE k = i
      BY <1>2, <2>6, <2>7, <2>8, <3>2
    <3>3. CASE k > i
      <4>1. k - i \in 1 .. n - i /\ i + (k - i) = k
        BY <1>2, <3>3
      <4>2. u[i + (k - i)] = z[k - i] /\ z[k - i] = s[i + (k - i)]
        BY <1>5, <2>7, <4>1
      <4> QED
        BY <2>8, <3>3, <4>1, <4>2
    <3> QED
      BY <1>2, <3>1, <3>2, <3>3
  <2>10. t = u
    BY <2>7, <2>8, <2>9
  <2> QED
    BY <2>1, <2>2, <2>10
<1>8. s = a \o <<s[i]>> \o z
  <2>1. [s EXCEPT ![i] = s[i]] = s
    OBVIOUS
  <2> QED
    BY <1>7, <2>1
<1>9. Around(a, z, s, i)
  BY <1>6, <1>7, <1>8 DEF Around
<1> QED
  BY <1>4, <1>5, <1>9

-----------------------------------------------------------------------------
(* The handlers of a loop, counted *)

LEMMA OccurrencesOfAppend ==
  ASSUME NEW s \in Seq(Jobs), NEW x \in Jobs, NEW j
  PROVE  Occurrences(j, Append(s, x)) = Occurrences(j, s) + IF j = x THEN 1 ELSE 0
<1>1. PICK n : n = Len(s)
  OBVIOUS
<1>2. n \in Nat /\ Len(Append(s, x)) = n + 1
  BY <1>1
<1>3. PICK S : S = {i \in 1 .. n : s[i] = j}
  OBVIOUS
<1>4. PICK T : T = {i \in 1 .. n + 1 : Append(s, x)[i] = j}
  OBVIOUS
<1>5. Occurrences(j, s) = Cardinality(S) /\ Occurrences(j, Append(s, x)) = Cardinality(T)
  BY <1>1, <1>2, <1>3, <1>4 DEF Occurrences
<1>6. IsFiniteSet(S) /\ Cardinality(S) \in Nat
  <2>1. IsFiniteSet(1 .. n)
    BY <1>2, FS_Interval
  <2> QED
    BY <1>3, <2>1, FS_Subset, FS_CardinalityType
<1>7. \A i \in 1 .. n : Append(s, x)[i] = s[i]
  BY <1>1
<1>8. Append(s, x)[n + 1] = x /\ n + 1 \notin S
  BY <1>1, <1>2, <1>3
<1>9. CASE j = x
  <2>1. T = S \cup {n + 1}
    BY <1>2, <1>3, <1>4, <1>7, <1>8, <1>9
  <2>2. Cardinality(T) = Cardinality(S) + 1
    BY <1>6, <1>8, <2>1, FS_AddElement
  <2> QED
    BY <1>5, <1>9, <2>2
<1>10. CASE j # x
  <2>1. T = S
    BY <1>2, <1>3, <1>4, <1>7, <1>8, <1>10
  <2> QED
    BY <1>5, <1>6, <1>10, <2>1
<1> QED
  BY <1>9, <1>10

LEMMA OccurrencesOfNone ==
  ASSUME NEW j
  PROVE  Occurrences(j, <<>>) = 0
<1>1. <<>> \in Seq(Jobs) /\ DOMAIN <<>> = {}
  OBVIOUS
<1>2. j \notin Range(<<>>)
  BY <1>1 DEF Range
<1> QED
  BY <1>1, <1>2, OccurrencesCount

LEMMA OccurrencesOfConcat ==
  ASSUME NEW s \in Seq(Jobs), NEW t \in Seq(Jobs), NEW j
  PROVE  Occurrences(j, s \o t) = Occurrences(j, s) + Occurrences(j, t)
<1>1. PICK S : S = {u \in Seq(Jobs) :
                      Occurrences(j, s \o u) = Occurrences(j, s) + Occurrences(j, u)}
  OBVIOUS
<1>2. \A u \in Seq(Jobs) : Occurrences(j, u) \in Nat
  BY OccurrencesCount
<1>3. <<>> \in S
  <2>1. s \o <<>> = s /\ <<>> \in Seq(Jobs)
    OBVIOUS
  <2> QED
    BY <1>1, <1>2, <2>1, OccurrencesOfNone
<1>4. ASSUME NEW u \in S, NEW x \in Jobs
      PROVE  Append(u, x) \in S
  <2>1. u \in Seq(Jobs) /\ Occurrences(j, s \o u) = Occurrences(j, s) + Occurrences(j, u)
    BY <1>1
  <2>2. Append(u, x) \in Seq(Jobs) /\ s \o u \in Seq(Jobs) /\ s \o Append(u, x) = Append(s \o u, x)
    BY <2>1
  <2>3. PICK e : e = IF j = x THEN 1 ELSE 0
    OBVIOUS
  <2>4. Occurrences(j, Append(s \o u, x)) = Occurrences(j, s \o u) + e
    BY <2>2, <2>3, OccurrencesOfAppend
  <2>5. Occurrences(j, Append(u, x)) = Occurrences(j, u) + e
    BY <2>1, <2>3, OccurrencesOfAppend
  <2>6. e \in Nat /\ Occurrences(j, s) \in Nat /\ Occurrences(j, u) \in Nat
    BY <1>2, <2>1, <2>3
  <2>7. Occurrences(j, s \o Append(u, x)) = Occurrences(j, s) + Occurrences(j, Append(u, x))
    BY <2>1, <2>2, <2>4, <2>5, <2>6
  <2> QED
    BY <1>1, <2>2, <2>7
<1>5. S = Seq(Jobs)
  BY <1>1, <1>3, <1>4, Sizes!SequenceSetInduction
<1> QED
  BY <1>1, <1>5

\* As many numbered handlers as a sequence has jobs.
Numbered(s) == {p \in Jobs \X Nat : 1 <= p[2] /\ p[2] <= Occurrences(p[1], s)}

LEMMA NumberedIsAsLong ==
  ASSUME NEW s \in Seq(Jobs)
  PROVE  IsFiniteSet(Numbered(s)) /\ Cardinality(Numbered(s)) = Len(s)
<1>1. PICK S : S = {u \in Seq(Jobs) : IsFiniteSet(Numbered(u)) /\ Cardinality(Numbered(u)) = Len(u)}
  OBVIOUS
<1>2. <<>> \in S
  <2>1. Numbered(<<>>) = {}
    BY OccurrencesOfNone DEF Numbered
  <2>2. Len(<<>>) = 0 /\ <<>> \in Seq(Jobs)
    OBVIOUS
  <2> QED
    BY <1>1, <2>1, <2>2, FS_EmptySet
<1>3. ASSUME NEW u \in S, NEW x \in Jobs
      PROVE  Append(u, x) \in S
  <2>1. u \in Seq(Jobs) /\ IsFiniteSet(Numbered(u)) /\ Cardinality(Numbered(u)) = Len(u)
    BY <1>1
  <2>2. PICK v : v = Append(u, x)
    OBVIOUS
  <2>3. v \in Seq(Jobs) /\ Len(v) = Len(u) + 1 /\ Len(u) \in Nat
    BY <2>1, <2>2
  <2>4. \A j : Occurrences(j, v) = Occurrences(j, u) + IF j = x THEN 1 ELSE 0
    BY <2>1, <2>2, OccurrencesOfAppend
  <2>5. \A j : Occurrences(j, u) \in Nat
    BY <2>1, OccurrencesCount
  <2>6. PICK y : y = <<x, Occurrences(x, u) + 1>>
    OBVIOUS
  <2>7. y \notin Numbered(u)
    BY <2>5, <2>6 DEF Numbered
  <2>8. Numbered(v) = Numbered(u) \cup {y}
    <3>1. ASSUME NEW p \in Numbered(v) PROVE p \in Numbered(u) \cup {y}
      <4>1. /\ p \in Jobs \X Nat /\ p = <<p[1], p[2]>> /\ 1 <= p[2]
            /\ p[2] <= Occurrences(p[1], v) /\ p[2] \in Nat
        BY DEF Numbered
      <4>2. CASE p[1] = x
        <5>1. p[2] <= Occurrences(x, u) + 1
          BY <2>4, <4>1, <4>2
        <5>2. CASE p[2] = Occurrences(x, u) + 1
          BY <2>6, <4>1, <4>2, <5>2
        <5>3. CASE p[2] # Occurrences(x, u) + 1
          <6>1. p[2] <= Occurrences(p[1], u)
            BY <2>5, <4>1, <4>2, <5>1, <5>3
          <6> QED
            BY <4>1, <6>1 DEF Numbered
        <5> QED
          BY <5>2, <5>3
      <4>3. CASE p[1] # x
        <5>1. p[2] <= Occurrences(p[1], u)
          BY <2>4, <2>5, <4>1, <4>3
        <5> QED
          BY <4>1, <5>1 DEF Numbered
      <4> QED
        BY <4>2, <4>3
    <3>2. ASSUME NEW p \in Numbered(u) PROVE p \in Numbered(v)
      <4>1. p \in Jobs \X Nat /\ 1 <= p[2] /\ p[2] <= Occurrences(p[1], u) /\ p[2] \in Nat
        BY DEF Numbered
      <4>2. p[2] <= Occurrences(p[1], v)
        BY <2>4, <2>5, <4>1
      <4> QED
        BY <4>1, <4>2 DEF Numbered
    <3>3. y \in Numbered(v)
      <4>1. Occurrences(x, v) = Occurrences(x, u) + 1 /\ Occurrences(x, u) \in Nat
        BY <2>4, <2>5
      <4>2. y \in Jobs \X Nat /\ y[1] = x /\ y[2] = Occurrences(x, u) + 1
        BY <2>6, <4>1
      <4> QED
        BY <4>1, <4>2 DEF Numbered
    <3> QED
      BY <3>1, <3>2, <3>3
  <2>9. IsFiniteSet(Numbered(v)) /\ Cardinality(Numbered(v)) = Len(u) + 1
    BY <2>1, <2>7, <2>8, FS_AddElement
  <2> QED
    BY <1>1, <2>2, <2>3, <2>9
<1>4. S = Seq(Jobs)
  BY <1>1, <1>2, <1>3, Sizes!SequenceSetInduction
<1> QED
  BY <1>1, <1>4

LEMMA HandlersAreCounted ==
  ASSUME NEW c \in Consumers, NEW s \in Seq(Jobs), \A j \in Jobs : held[c][j] = Occurrences(j, s)
  PROVE  Cardinality(Handlers(c)) = Len(s)
<1>1. \A j \in Jobs : Occurrences(j, s) \in Nat
  BY OccurrencesCount
<1>2. PICK n : n = [j \in Jobs |-> Occurrences(j, s)]
  OBVIOUS
<1>3. \A j \in Jobs : held[c][j] = n[j] /\ n[j] \in Nat
  BY <1>1, <1>2
<1>4. Handlers(c) = {p \in Jobs \X Nat : 1 <= p[2] /\ p[2] <= n[p[1]]}
  <2>1. ASSUME NEW p \in Handlers(c)
        PROVE  p \in Jobs \X Nat /\ 1 <= p[2] /\ p[2] <= n[p[1]]
    <3>1. PICK j \in Jobs : p \in {j} \X (1 .. held[c][j])
      BY DEF Handlers
    <3>2. held[c][j] = n[j] /\ n[j] \in Nat
      BY <1>3
    <3> QED
      BY <3>1, <3>2
  <2>2. ASSUME NEW p \in Jobs \X Nat, 1 <= p[2], p[2] <= n[p[1]]
        PROVE  p \in Handlers(c)
    <3>1. PICK j \in Jobs : j = p[1]
      OBVIOUS
    <3>2. held[c][j] = n[j] /\ n[j] \in Nat
      BY <1>3
    <3>3. p \in {j} \X (1 .. held[c][j])
      BY <2>2, <3>1, <3>2
    <3> QED
      BY <3>3 DEF Handlers
  <2> QED
    BY <2>1, <2>2
<1>5. Handlers(c) = Numbered(s)
  BY <1>2, <1>4 DEF Numbered
<1> QED
  BY <1>5, NumberedIsAsLong

\* No more handlers run than the batches had jobs.
LEMMA FlatIsWithin ==
  ASSUME NEW s \in Seq(Batch)
  PROVE  Len(Flat(s)) <= SizeOf(s)
<1>1. PICK S : S = {u \in Seq(Batch) : Len(Flat(u)) <= SizeOf(u)}
  OBVIOUS
<1>2. <<>> \in S
  <2>1. Len(<<>>) <= 0 /\ <<>> \in Seq(Batch)
    OBVIOUS
  <2> QED
    BY <1>1, <2>1, BatchesAre
<1>3. ASSUME NEW u \in S, NEW b \in Batch
      PROVE  Append(u, b) \in S
  <2>1. u \in Seq(Batch) /\ Len(Flat(u)) <= SizeOf(u) /\ Append(u, b) \in Seq(Batch)
    BY <1>1
  <2>2. SizeOf(Append(u, b)) = SizeOf(u) + b.size /\ Flat(Append(u, b)) = Flat(u) \o b.left
    BY <2>1, BatchesAre
  <2>3. SizeOf(u) \in Nat /\ Flat(u) \in Seq(Jobs)
    BY <2>1, BatchesAre
  <2>4. b.size \in Nat /\ b.left \in Seq(Jobs) /\ Len(b.left) <= b.size
    BY DEF Batch
  <2>5. PICK f, l : f = Flat(u) /\ l = b.left
    OBVIOUS
  <2>6. Len(f \o l) = Len(f) + Len(l) /\ Len(f) \in Nat /\ Len(l) \in Nat
    BY <2>3, <2>4, <2>5
  <2>7. Len(Flat(Append(u, b))) <= SizeOf(Append(u, b))
    BY <2>1, <2>2, <2>3, <2>4, <2>5, <2>6
  <2> QED
    BY <1>1, <2>1, <2>7
<1>4. S = Seq(Batch)
  BY <1>1, <1>2, <1>3, Sizes!SequenceSetInduction
<1> QED
  BY <1>1, <1>4

\* A handler ends: its job leaves those of the batch that run.
LEMMA OneIsOver ==
  ASSUME NEW s \in Seq(Jobs), NEW k \in 1 .. Len(s)
  PROVE  /\ <<s[k]>> \in Seq(Jobs) /\ RemoveAt(s, k) \in Seq(Jobs)
         /\ Len(RemoveAt(s, k)) <= Len(s)
         /\ \A j : Occurrences(j, s) = Occurrences(j, <<s[k]>>) + Occurrences(j, RemoveAt(s, k))
<1>a. PICK a \in Seq(Jobs), z \in Seq(Jobs) : Around(a, z, s, k)
  BY AroundIs
<1>1. PICK x : x = s[k]
  OBVIOUS
<1>2. x \in Jobs /\ s = a \o <<x>> \o z /\ RemoveAt(s, k) = a \o z
  BY <1>a, <1>1 DEF Around
<1>3. <<x>> \in Seq(Jobs) /\ Len(<<x>>) = 1
  BY <1>2
<1>4. PICK h : h = a \o <<x>>
  OBVIOUS
<1>5. h \in Seq(Jobs) /\ Len(h) = Len(a) + 1 /\ s = h \o z
  BY <1>2, <1>3, <1>4, ConcatProperties
<1>6. a \o z \in Seq(Jobs) /\ Len(a \o z) = Len(a) + Len(z) /\ Len(s) = Len(h) + Len(z)
  BY <1>5, ConcatProperties
<1>7. Len(a) \in Nat /\ Len(z) \in Nat
  OBVIOUS
<1>8. ASSUME NEW j
      PROVE  Occurrences(j, s) = Occurrences(j, <<x>>) + Occurrences(j, a \o z)
  <2>1. /\ Occurrences(j, s) = Occurrences(j, h) + Occurrences(j, z)
        /\ Occurrences(j, h) = Occurrences(j, a) + Occurrences(j, <<x>>)
        /\ Occurrences(j, a \o z) = Occurrences(j, a) + Occurrences(j, z)
    BY <1>3, <1>4, <1>5, OccurrencesOfConcat
  <2>2. Occurrences(j, a) \in Nat /\ Occurrences(j, z) \in Nat /\ Occurrences(j, <<x>>) \in Nat
    BY <1>3, OccurrencesCount
  <2> QED
    BY <2>1, <2>2
<1>9. Len(a \o z) <= Len(s)
  BY <1>5, <1>6, <1>7
<1>10. /\ <<s[k]>> \in Seq(Jobs)
       /\ \A j : Occurrences(j, s) = Occurrences(j, <<s[k]>>) + Occurrences(j, RemoveAt(s, k))
  BY <1>1, <1>2, <1>3, <1>8
<1> QED
  BY <1>2, <1>6, <1>9, <1>10

\* What becomes of the batches when handlers of one of them end.
Onward(s, i, rest) == IF rest = <<>> THEN RemoveAt(s, i) ELSE [s EXCEPT ![i].left = rest]

LEMMA BatchGoesOn ==
  ASSUME NEW s \in Seq(Batch), NEW i \in 1 .. Len(s), NEW over \in Seq(Jobs), NEW rest \in Seq(Jobs),
         Len(rest) <= Len(s[i].left),
         \A j : Occurrences(j, s[i].left) = Occurrences(j, over) + Occurrences(j, rest),
         NEW t, t = Onward(s, i, rest)
  PROVE  /\ t \in Seq(Batch) /\ SizeOf(t) <= SizeOf(s) /\ Len(t) <= Len(s)
         /\ \A j : Occurrences(j, Flat(t)) = Occurrences(j, Flat(s)) - Occurrences(j, over)
<1>a. PICK a \in Seq(Batch), z \in Seq(Batch) : Around(a, z, s, i)
  BY AroundIs
<1>1. PICK b \in Batch : b = s[i]
  OBVIOUS
<1>2. /\ s = a \o <<b>> \o z /\ RemoveAt(s, i) = a \o z
      /\ \A y : [s EXCEPT ![i] = y] = a \o <<y>> \o z
  BY <1>a, <1>1 DEF Around
<1>3. /\ SizeOf(a) \in Nat /\ SizeOf(z) \in Nat /\ Flat(a) \in Seq(Jobs) /\ Flat(z) \in Seq(Jobs)
      /\ Len(a) \in Nat /\ Len(z) \in Nat
  BY BatchesAre
<1>4. ASSUME NEW x \in Batch, NEW u, u = a \o <<x>> \o z
      PROVE  /\ u \in Seq(Batch) /\ SizeOf(u) = SizeOf(a) + x.size + SizeOf(z)
             /\ Len(u) = Len(a) + Len(z) + 1
             /\ \A j : Occurrences(j, Flat(u)) =
                         Occurrences(j, Flat(a)) + Occurrences(j, x.left) + Occurrences(j, Flat(z))
  <2>1. <<x>> \in Seq(Batch) /\ SizeOf(<<x>>) = x.size /\ Flat(<<x>>) = x.left /\ Len(<<x>>) = 1
    BY BatchOfOne
  <2>2. PICK h : h = a \o <<x>>
    OBVIOUS
  <2>3. h \in Seq(Batch) /\ u = h \o z /\ Len(h) = Len(a) + 1
    BY <1>4, <2>1, <2>2, ConcatProperties
  <2>4. u \in Seq(Batch) /\ Len(u) = Len(h) + Len(z)
    BY <2>3, ConcatProperties
  <2>5. SizeOf(h) = SizeOf(a) + x.size /\ Flat(h) = Flat(a) \o x.left
    BY <2>1, <2>2, BatchesOfConcat
  <2>6. SizeOf(u) = SizeOf(h) + SizeOf(z) /\ Flat(u) = Flat(h) \o Flat(z)
    BY <2>3, BatchesOfConcat
  <2>7. x.left \in Seq(Jobs) /\ Flat(h) \in Seq(Jobs)
    BY <2>3, BatchesAre DEF Batch
  <2>8. ASSUME NEW j
        PROVE  Occurrences(j, Flat(u)) =
                 Occurrences(j, Flat(a)) + Occurrences(j, x.left) + Occurrences(j, Flat(z))
    <3>1. Occurrences(j, Flat(h)) = Occurrences(j, Flat(a)) + Occurrences(j, x.left)
      BY <1>3, <2>5, <2>7, OccurrencesOfConcat
    <3>2. Occurrences(j, Flat(u)) = Occurrences(j, Flat(h)) + Occurrences(j, Flat(z))
      BY <1>3, <2>6, <2>7, OccurrencesOfConcat
    <3> QED
      BY <3>1, <3>2
  <2> QED
    BY <1>3, <2>3, <2>4, <2>5, <2>6, <2>8
<1>5. /\ b.size \in Nat /\ b.left \in Seq(Jobs) /\ Len(b.left) <= b.size /\ Len(b.left) \in Nat
      /\ Len(rest) <= Len(b.left) /\ Len(rest) \in Nat
      /\ \A j : Occurrences(j, b.left) = Occurrences(j, over) + Occurrences(j, rest)
  BY <1>1 DEF Batch
<1>6. /\ SizeOf(s) = SizeOf(a) + b.size + SizeOf(z) /\ Len(s) = Len(a) + Len(z) + 1
      /\ \A j : Occurrences(j, Flat(s)) =
                  Occurrences(j, Flat(a)) + Occurrences(j, b.left) + Occurrences(j, Flat(z))
  BY <1>2, <1>4
<1>7. \A j : /\ Occurrences(j, Flat(a)) \in Nat /\ Occurrences(j, Flat(z)) \in Nat
             /\ Occurrences(j, over) \in Nat /\ Occurrences(j, rest) \in Nat
  BY <1>3, OccurrencesCount
<1>8. CASE rest = <<>>
  <2>1. t = a \o z
    BY <1>2, <1>8 DEF Onward
  <2>2. t \in Seq(Batch) /\ Len(t) = Len(a) + Len(z)
    <3>1. a \o z \in Seq(Batch) /\ Len(a \o z) = Len(a) + Len(z)
      BY ConcatProperties
    <3> QED
      BY <2>1, <3>1
  <2>3. SizeOf(t) = SizeOf(a) + SizeOf(z) /\ Flat(t) = Flat(a) \o Flat(z)
    BY <2>1, BatchesOfConcat
  <2>4. ASSUME NEW j
        PROVE  Occurrences(j, Flat(t)) = Occurrences(j, Flat(s)) - Occurrences(j, over)
    <3>1. Occurrences(j, Flat(t)) = Occurrences(j, Flat(a)) + Occurrences(j, Flat(z))
      <4>1. Occurrences(j, Flat(a) \o Flat(z)) = Occurrences(j, Flat(a)) + Occurrences(j, Flat(z))
        BY <1>3, OccurrencesOfConcat
      <4> QED
        BY <2>3, <4>1
    <3>2. Occurrences(j, b.left) = Occurrences(j, over) + Occurrences(j, rest)
      BY <1>5
    <3>3. Occurrences(j, rest) = 0
      BY <1>8, OccurrencesOfNone
    <3>4. /\ Occurrences(j, Flat(a)) \in Nat /\ Occurrences(j, Flat(z)) \in Nat
          /\ Occurrences(j, over) \in Nat
      BY <1>7
    <3>5. Occurrences(j, Flat(s)) =
                  Occurrences(j, Flat(a)) + Occurrences(j, b.left) + Occurrences(j, Flat(z))
      BY <1>6
    <3> QED
      BY <3>1, <3>2, <3>3, <3>4, <3>5
  <2>5. SizeOf(t) <= SizeOf(s) /\ Len(t) <= Len(s)
    <3>1. b.size \in Nat
      BY <1>5
    <3>2. SizeOf(s) = SizeOf(a) + b.size + SizeOf(z) /\ Len(s) = Len(a) + Len(z) + 1
      BY <1>6
    <3>3. PICK x, y, u, v : x = SizeOf(a) /\ y = SizeOf(z) /\ u = Len(a) /\ v = Len(z)
      OBVIOUS
    <3>4. x \in Nat /\ y \in Nat /\ u \in Nat /\ v \in Nat
      BY <1>3, <3>3
    <3>5. SizeOf(s) = x + b.size + y /\ Len(s) = u + v + 1
      BY <3>2, <3>3
    <3>6. SizeOf(t) = x + y /\ Len(t) = u + v
      BY <2>2, <2>3, <3>3
    <3> QED
      BY <3>1, <3>4, <3>5, <3>6
  <2> QED
    BY <2>2, <2>4, <2>5
<1>9. CASE rest # <<>>
  <2>1. PICK x : x = [size |-> b.size, left |-> rest]
    OBVIOUS
  <2>2. x \in Batch /\ x.size = b.size /\ x.left = rest
    BY <1>5, <2>1 DEF Batch
  <2>3. t = [s EXCEPT ![i] = x]
    <3>1. b = [size |-> b.size, left |-> b.left]
      BY DEF Batch
    <3>2. [b EXCEPT !.left = rest] = x
      BY <2>1, <3>1
    <3>3. t = [s EXCEPT ![i] = [s[i] EXCEPT !.left = rest]]
      BY <1>9 DEF Onward
    <3> QED
      BY <1>1, <3>2, <3>3
  <2>4. t = a \o <<x>> \o z
    BY <1>2, <2>3
  <2>5. /\ t \in Seq(Batch) /\ SizeOf(t) = SizeOf(a) + x.size + SizeOf(z)
        /\ Len(t) = Len(a) + Len(z) + 1
        /\ \A j : Occurrences(j, Flat(t)) =
                    Occurrences(j, Flat(a)) + Occurrences(j, x.left) + Occurrences(j, Flat(z))
    BY <1>4, <2>2, <2>4
  <2>6. ASSUME NEW j
        PROVE  Occurrences(j, Flat(t)) = Occurrences(j, Flat(s)) - Occurrences(j, over)
    <3>1. Occurrences(j, Flat(t)) =
            Occurrences(j, Flat(a)) + Occurrences(j, rest) + Occurrences(j, Flat(z))
      BY <2>2, <2>5
    <3>2. Occurrences(j, b.left) = Occurrences(j, over) + Occurrences(j, rest)
      BY <1>5
    <3>3. /\ Occurrences(j, Flat(a)) \in Nat /\ Occurrences(j, Flat(z)) \in Nat
          /\ Occurrences(j, over) \in Nat /\ Occurrences(j, rest) \in Nat
      BY <1>7
    <3>4. Occurrences(j, Flat(s)) =
                  Occurrences(j, Flat(a)) + Occurrences(j, b.left) + Occurrences(j, Flat(z))
      BY <1>6
    <3> QED
      BY <3>1, <3>2, <3>3, <3>4
  <2>7. SizeOf(t) <= SizeOf(s) /\ Len(t) <= Len(s)
    <3>1. b.size \in Nat
      BY <1>5
    <3>2. SizeOf(s) = SizeOf(a) + b.size + SizeOf(z) /\ Len(s) = Len(a) + Len(z) + 1
      BY <1>6
    <3>3. SizeOf(t) = SizeOf(a) + b.size + SizeOf(z) /\ Len(t) = Len(a) + Len(z) + 1
      BY <2>2, <2>5
    <3> QED
      BY <1>3, <3>1, <3>2, <3>3
  <2> QED
    BY <2>5, <2>6, <2>7
<1> QED
  BY <1>8, <1>9

-----------------------------------------------------------------------------
(* The types of the loops, and what they keep in flight *)

RunnerTyped ==
  /\ isProcessing \in BOOLEAN /\ stopRequested \in BOOLEAN
  /\ batchwise \in [Consumers -> BOOLEAN]
  /\ loop \in [Consumers -> Loops]
  /\ flight \in [Consumers -> Seq(Batch)]
  /\ completions \in [Consumers -> Seq(Jobs)] /\ failures \in [Consumers -> Seq(Jobs)]
  /\ failing \in [Consumers -> [Flushers -> Seq(Jobs)]]
  /\ flushPending \in [Consumers -> BOOLEAN] /\ tasks \in [Consumers -> Nat]

\* The handlers of a loop are those of its batches.  There is room for what is in
\* flight, and while the loop awaits a dequeue also for what it has asked for.
FlightFits(c) ==
  /\ loop[c] = "off" => flight[c] = <<>>
  /\ \A j \in Jobs : held[c][j] = Occurrences(j, Flat(flight[c]))
  /\ batchwise[c] => /\ Len(flight[c]) <= Concurrency
                     /\ loop[c] = "dequeue" => Len(flight[c]) < Concurrency
  /\ ~batchwise[c] => /\ SizeOf(flight[c]) <= Concurrency
                      /\ loop[c] = "dequeue" => SizeOf(flight[c]) + arg[c] <= Concurrency

RunnerInv == Typed /\ RunnerTyped /\ \A c \in Consumers : FlightFits(c)

\* Nothing of loop d has moved that its batches depend on.
Rests(d) ==
  /\ loop'[d] = loop[d] /\ flight'[d] = flight[d] /\ batchwise'[d] = batchwise[d]
  /\ arg'[d] = arg[d] /\ \A j \in Jobs : held'[d][j] = held[d][j]

LEMMA FitsAtRest ==
  ASSUME NEW d, FlightFits(d), Rests(d)
  PROVE  FlightFits(d)'
BY DEF FlightFits, Rests

\* A loop that starts and ends no handler, and neither awaits a dequeue afterwards.
LEMMA FitsElsewhere ==
  ASSUME RunnerInv, NEW c \in Consumers, loop'[c] \notin {"off", "dequeue"},
         flight'[c] = flight[c], \A j \in Jobs : held'[c][j] = held[c][j],
         batchwise'[c] = batchwise[c] \/ flight[c] = <<>>, batchwise'[c] \in BOOLEAN
  PROVE  FlightFits(c)'
<1>1. FlightFits(c) /\ batchwise[c] \in BOOLEAN /\ Concurrency \in Nat
  BY RunnerAssumption DEF RunnerInv, RunnerTyped
<1>2. CASE batchwise'[c] = batchwise[c]
  BY <1>1, <1>2 DEF FlightFits
<1>3. CASE flight[c] = <<>>
  <2>1. SizeOf(flight'[c]) <= Concurrency /\ Len(flight'[c]) <= Concurrency
    <3>1. SizeOf(<<>>) = 0 /\ Len(<<>>) = 0
      BY BatchesAre
    <3> QED
      BY <1>1, <1>3, <3>1
  <2> QED
    BY <1>1, <2>1 DEF FlightFits
<1> QED
  BY <1>2, <1>3

LEMMA LoopGoes ==
  ASSUME RunnerTyped, NEW c \in Consumers, NEW place \in Loops, GoTo(c, place)
  PROVE  /\ loop' \in [Consumers -> Loops] /\ loop'[c] = place
         /\ \A d \in Consumers : d # c => loop'[d] = loop[d]
BY DEF RunnerTyped, GoTo

LEMMA StartAdds ==
  ASSUME RunnerTyped, NEW c \in Consumers, NEW s \in Seq(Jobs), Start(c, s)
  PROVE  /\ flight' \in [Consumers -> Seq(Batch)]
         /\ \A d \in Consumers : d # c => flight'[d] = flight[d]
         /\ SizeOf(flight'[c]) = SizeOf(flight[c]) + Len(s)
         /\ Flat(flight'[c]) = Flat(flight[c]) \o s
         /\ Len(flight'[c]) = Len(flight[c]) + 1
<1>1. PICK b : b = [size |-> Len(s), left |-> s]
  OBVIOUS
<1>2. b \in Batch /\ b.size = Len(s) /\ b.left = s
  BY <1>1 DEF Batch
<1>3. PICK f : f = flight[c]
  OBVIOUS
<1>4. f \in Seq(Batch)
  BY <1>3 DEF RunnerTyped
<1>5. PICK g : g = Append(f, b)
  OBVIOUS
<1>6. g \in Seq(Batch) /\ Len(g) = Len(f) + 1
  BY <1>2, <1>4, <1>5
<1>7. flight' = [flight EXCEPT ![c] = g]
  BY <1>1, <1>3, <1>5 DEF Start
<1>8. /\ flight' \in [Consumers -> Seq(Batch)] /\ flight'[c] = g
      /\ \A d \in Consumers : d # c => flight'[d] = flight[d]
  BY <1>6, <1>7 DEF RunnerTyped
<1>9. SizeOf(g) = SizeOf(f) + b.size /\ Flat(g) = Flat(f) \o b.left
  BY <1>2, <1>4, <1>5, BatchesAre
<1> QED
  BY <1>2, <1>3, <1>6, <1>8, <1>9

\* A batch of handlers starts that fits into what was left.
LEMMA StartFits ==
  ASSUME RunnerInv, NEW c \in Consumers, NEW s \in Seq(Jobs), Start(c, s), Delivered(c, s),
         loop'[c] = "top", batchwise'[c] = batchwise[c],
         batchwise[c] => Len(flight[c]) < Concurrency,
         ~batchwise[c] => SizeOf(flight[c]) + Len(s) <= Concurrency
  PROVE  FlightFits(c)'
<1>1. /\ SizeOf(flight'[c]) = SizeOf(flight[c]) + Len(s)
      /\ Flat(flight'[c]) = Flat(flight[c]) \o s
      /\ Len(flight'[c]) = Len(flight[c]) + 1
  BY StartAdds DEF RunnerInv
<1>2. flight[c] \in Seq(Batch) /\ Flat(flight[c]) \in Seq(Jobs) /\ Len(flight[c]) \in Nat
  <2>1. flight[c] \in Seq(Batch)
    BY DEF RunnerInv, RunnerTyped
  <2>2. Flat(flight[c]) \in Seq(Jobs)
    BY <2>1, BatchesAre
  <2> QED
    BY <2>1, <2>2
<1>3. ASSUME NEW j \in Jobs
      PROVE  held'[c][j] = Occurrences(j, Flat(flight'[c]))
  <2>1. held'[c][j] = held[c][j] + Occurrences(j, s)
    BY DEF Delivered
  <2>2. held[c][j] = Occurrences(j, Flat(flight[c]))
    BY DEF RunnerInv, FlightFits
  <2>3. Occurrences(j, Flat(flight[c]) \o s) = Occurrences(j, Flat(flight[c])) + Occurrences(j, s)
    BY <1>2, OccurrencesOfConcat
  <2> QED
    BY <1>1, <2>1, <2>2, <2>3
<1>4. batchwise[c] => Len(flight'[c]) <= Concurrency
  BY <1>1, <1>2, RunnerAssumption
<1>5. ~batchwise[c] => SizeOf(flight'[c]) <= Concurrency
  BY <1>1
<1> QED
  BY <1>3, <1>4, <1>5 DEF FlightFits

LEMMA FlushTypes ==
  ASSUME RunnerInv, NEW c \in Consumers, NEW by \in Flushers, Flush(c, by)
  PROVE  /\ Typed' /\ UNCHANGED <<calls, held>>
         /\ completions' \in [Consumers -> Seq(Jobs)] /\ failures' \in [Consumers -> Seq(Jobs)]
         /\ failing' \in [Consumers -> [Flushers -> Seq(Jobs)]]
         /\ flushPending' \in [Consumers -> BOOLEAN]
<1>0. Typed /\ RunnerTyped
  BY DEF RunnerInv
<1>1. /\ Update(Range(completions[c]), "done", 0)
      /\ failing' = [failing EXCEPT ![c][by] = failing[c][by] \o failures[c]]
      /\ completions' = [completions EXCEPT ![c] = <<>>]
      /\ failures' = [failures EXCEPT ![c] = <<>>]
      /\ flushPending' = [flushPending EXCEPT ![c] = FALSE]
      /\ UNCHANGED <<stored, waiting, ring, calls, held, known, delivered, faults>>
  BY DEF Flush
<1>2. "done" \in Statuses /\ 0 \in Nat
  BY DEF Statuses
<1>3. /\ live' \in [Jobs -> Row] /\ late' \in SUBSET Jobs
      /\ seen' \in [Jobs -> SUBSET (Statuses \cup {"none"})]
  BY <1>0, <1>1, <1>2, UpdateTypes DEF Typed
<1>4. RowsOK' /\ HeldOK' /\ CountsOK'
  BY <1>0, <1>1, <1>3 DEF Typed, RowsOK, HeldOK, CountsOK, faults
<1>5. RingOK' /\ CallsOK'
  BY <1>0, <1>1, RingStays, CallsStay DEF Typed
<1>6. PICK s : s = failing[c][by] \o failures[c]
  OBVIOUS
<1>7. s \in Seq(Jobs)
  <2>1. failing[c][by] \in Seq(Jobs) /\ failures[c] \in Seq(Jobs)
    BY <1>0 DEF RunnerTyped
  <2> QED
    BY <1>6, <2>1, ConcatProperties
<1>8. failing' \in [Consumers -> [Flushers -> Seq(Jobs)]]
  <2>1. PICK e : e = [failing[c] EXCEPT ![by] = s]
    OBVIOUS
  <2>2. e \in [Flushers -> Seq(Jobs)]
    BY <1>0, <1>7, <2>1 DEF RunnerTyped
  <2>3. failing' = [failing EXCEPT ![c] = e]
    BY <1>1, <1>6, <2>1
  <2> QED
    BY <1>0, <2>2, <2>3 DEF RunnerTyped
<1>9. /\ completions' \in [Consumers -> Seq(Jobs)] /\ failures' \in [Consumers -> Seq(Jobs)]
      /\ flushPending' \in [Consumers -> BOOLEAN]
  BY <1>0, <1>1 DEF RunnerTyped
<1> QED
  BY <1>1, <1>4, <1>5, <1>8, <1>9 DEF Typed

LEMMA OneLoopSteps ==
  ASSUME RunnerInv, NEW c \in Consumers, Typed', RunnerTyped', FlightFits(c)',
         \A d \in Consumers : d # c => Rests(d)
  PROVE  RunnerInv'
<1>1. ASSUME NEW d \in Consumers
      PROVE  FlightFits(d)'
  <2>1. CASE d = c
    BY <2>1
  <2>2. CASE d # c
    BY <2>2, FitsAtRest DEF RunnerInv
  <2> QED
    BY <2>1, <2>2
<1> QED
  BY <1>1 DEF RunnerInv

\* What a loop asks for.
LEMMA RoomIs ==
  ASSUME RunnerInv, NEW c \in Consumers, Room(c) > 0
  PROVE  /\ Room(c) \in Nat
         /\ batchwise[c] => Len(flight[c]) < Concurrency
         /\ ~batchwise[c] => SizeOf(flight[c]) + Room(c) <= Concurrency
<1>1. flight[c] \in Seq(Batch) /\ batchwise[c] \in BOOLEAN
  BY DEF RunnerInv, RunnerTyped
<1>2. SizeOf(flight[c]) \in Nat /\ InFlight(c) = SizeOf(flight[c])
  BY <1>1, BatchesAre, InFlightIsFold
<1>3. Limit \in Nat /\ Concurrency \in Nat
  BY QueueAssumption, RunnerAssumption
<1>4. CASE batchwise[c]
  BY <1>3, <1>4 DEF Room
<1>5. CASE ~batchwise[c]
  <2>1. Room(c) = MinOf(Limit, Concurrency - SizeOf(flight[c]))
    BY <1>2, <1>5 DEF Room
  <2>2. Room(c) <= Concurrency - SizeOf(flight[c]) /\ Room(c) \in Int
    BY <1>2, <1>3, <2>1 DEF MinOf
  <2> QED
    BY <1>2, <1>3, <1>5, <2>2
<1> QED
  BY <1>4, <1>5

\* The batch that a dequeue from the ring delivers.
LEMMA RingDelivers ==
  ASSUME Typed, NEW c \in Consumers, NEW limit \in Nat, DequeueRing(c, limit),
         NEW s, s = RingFirst(MinOf(limit, Size))
  PROVE  s \in Seq(Jobs) /\ Len(s) <= limit /\ Delivered(c, s)
<1>1. PICK n : n = MinOf(limit, Size)
  OBVIOUS
<1>2. Size \in Nat
  BY SizeIs DEF Typed, RingOK, Indices
<1>3. n \in Nat /\ n <= Size /\ n <= limit
  BY <1>1, <1>2 DEF MinOf
<1>4. s = RingFirst(n) /\ Len(s) = n
  BY <1>1, <1>3, RingFirstIsAsLong
<1>5. RingPop(n) /\ Deliver(c, s)
  BY <1>1, <1>4 DEF DequeueRing
<1>6. s \in Seq(Jobs)
  BY <1>3, <1>4, <1>5, PopKeepsRing DEF Typed
<1> QED
  BY <1>3, <1>4, <1>5, <1>6, DeliverTypes DEF Typed

LEMMA DequeuesKeepRunner ==
  ASSUME RunnerInv, NEW c \in Consumers,
         LoopRing(c) \/ LoopCall(c) \/ LoopSelect(c) \/ LoopFill(c) \/ LoopClaim(c)
  PROVE  RunnerInv'
<1>0. Typed /\ RunnerTyped /\ FlightFits(c)
  BY DEF RunnerInv
<1>a. {"top", "dequeue", "none"} \subseteq Loops
  BY DEF Loops
<1>1. CASE LoopRing(c)
  <2>1. /\ loop[c] = "top" /\ Room(c) > 0 /\ DequeueRing(c, Room(c))
        /\ Start(c, RingFirst(MinOf(Room(c), Size)))
        /\ UNCHANGED <<isProcessing, stopRequested, batchwise, loop, outcomes>>
    BY <1>1 DEF LoopRing, Dequeuing, At
  <2>2. PICK n : n = Room(c)
    OBVIOUS
  <2>3. n \in Nat /\ (batchwise[c] => Len(flight[c]) < Concurrency)
        /\ (~batchwise[c] => SizeOf(flight[c]) + n <= Concurrency)
    BY <2>1, <2>2, RoomIs
  <2>4. PICK s : s = RingFirst(MinOf(n, Size))
    OBVIOUS
  <2>5. DequeueRing(c, n) /\ Start(c, s)
    BY <2>1, <2>2, <2>4
  <2>6. s \in Seq(Jobs) /\ Len(s) <= n /\ Delivered(c, s)
    BY <1>0, <2>3, <2>4, <2>5, RingDelivers
  <2>7. Typed' /\ UNCHANGED calls
    BY <1>0, <2>3, <2>5, DequeueRingDoes
  <2>8. flight' \in [Consumers -> Seq(Batch)] /\ \A d \in Consumers : d # c => flight'[d] = flight[d]
    BY <1>0, <2>5, <2>6, StartAdds
  <2>9. RunnerTyped'
    BY <1>0, <2>1, <2>8 DEF RunnerTyped, outcomes
  <2>10. flight[c] \in Seq(Batch) /\ batchwise[c] \in BOOLEAN
    BY <1>0 DEF RunnerTyped
  <2>11. SizeOf(flight[c]) \in Nat /\ Len(s) \in Nat /\ Concurrency \in Nat
    BY <2>6, <2>10, BatchesAre, RunnerAssumption
  <2>12. ~batchwise[c] => SizeOf(flight[c]) + Len(s) <= Concurrency
    BY <2>3, <2>6, <2>11
  <2>13. FlightFits(c)'
    BY <2>1, <2>3, <2>5, <2>6, <2>12, StartFits
  <2>14. \A d \in Consumers : d # c => Rests(d)
    BY <2>1, <2>6, <2>7, <2>8 DEF Rests, Delivered, calls
  <2> QED
    BY <2>7, <2>9, <2>13, <2>14, OneLoopSteps
<1>2. CASE LoopCall(c)
  <2>1. /\ loop[c] = "top" /\ Room(c) > 0 /\ DequeueCall(c, Room(c)) /\ GoTo(c, "dequeue")
        /\ UNCHANGED <<isProcessing, stopRequested, batchwise, flight, outcomes>>
    BY <1>2 DEF LoopCall, Dequeuing, At
  <2>2. PICK n : n = Room(c)
    OBVIOUS
  <2>3. n \in Nat /\ (batchwise[c] => Len(flight[c]) < Concurrency)
        /\ (~batchwise[c] => SizeOf(flight[c]) + n <= Concurrency)
    BY <2>1, <2>2, RoomIs
  <2>4. DequeueCall(c, n)
    BY <2>1, <2>2
  <2>5. Typed' /\ UNCHANGED held /\ \A b \in Consumers \cup Failers : b # c => arg'[b] = arg[b]
    BY <1>0, <2>3, <2>4, DequeueCallDoes
  <2>6. arg'[c] = n
    <3>1. arg \in [Consumers \cup Failers -> Nat] /\ arg' = [arg EXCEPT ![c] = n]
      BY <1>0, <2>4 DEF Typed, CallsOK, DequeueCall
    <3> QED
      BY <3>1
  <2>7. /\ loop' \in [Consumers -> Loops] /\ loop'[c] = "dequeue"
        /\ \A d \in Consumers : d # c => loop'[d] = loop[d]
    BY <1>0, <1>a, <2>1, LoopGoes
  <2>8. RunnerTyped'
    BY <1>0, <2>1, <2>7 DEF RunnerTyped, outcomes
  <2>9. FlightFits(c)'
    BY <1>0, <2>1, <2>3, <2>5, <2>6, <2>7 DEF FlightFits
  <2>10. \A d \in Consumers : d # c => Rests(d)
    BY <2>1, <2>5, <2>7 DEF Rests
  <2> QED
    BY <2>5, <2>8, <2>9, <2>10, OneLoopSteps
<1>3. CASE LoopSelect(c)
  <2>1. PICK place : place = IF pc'[c] = "idle" THEN "none" ELSE "dequeue"
    OBVIOUS
  <2>2. /\ loop[c] = "dequeue" /\ DequeueSelect(c) /\ GoTo(c, place) /\ place \in Loops
        /\ UNCHANGED <<isProcessing, stopRequested, batchwise, flight, outcomes>>
    BY <1>3, <1>a, <2>1 DEF LoopSelect, At
  <2>3. Typed' /\ UNCHANGED held /\ \A b \in Consumers \cup Failers : b # c => arg'[b] = arg[b]
    BY <1>0, <2>2, DequeueSelectDoes
  <2>4. arg'[c] = arg[c] \/ arg'[c] = 0
    <3>1. PICK e : arg' = [arg EXCEPT ![c] = e] /\ (e = arg[c] \/ e = 0)
      <4>1. \E s : arg' = [arg EXCEPT ![c] = IF s = <<>> THEN 0 ELSE arg[c]]
        BY <2>2 DEF DequeueSelect
      <4> QED
        BY <4>1
    <3>2. arg \in [Consumers \cup Failers -> Nat]
      BY <1>0 DEF Typed, CallsOK
    <3> QED
      BY <3>1, <3>2
  <2>5. /\ loop' \in [Consumers -> Loops] /\ loop'[c] = place
        /\ \A d \in Consumers : d # c => loop'[d] = loop[d]
    BY <1>0, <2>2, LoopGoes
  <2>6. RunnerTyped'
    BY <1>0, <2>2, <2>5 DEF RunnerTyped, outcomes
  <2>7. FlightFits(c)'
    <3>1. arg[c] \in Nat /\ SizeOf(flight[c]) \in Nat /\ Concurrency \in Nat
      <4>1. flight[c] \in Seq(Batch) /\ arg[c] \in Nat
        BY <1>0 DEF RunnerTyped, Typed, CallsOK
      <4> QED
        BY <4>1, BatchesAre, RunnerAssumption
    <3>2. ~batchwise[c] => SizeOf(flight[c]) + arg'[c] <= Concurrency
      BY <1>0, <2>2, <2>4, <3>1 DEF FlightFits
    <3>3. batchwise[c] => Len(flight[c]) < Concurrency
      BY <1>0, <2>2 DEF FlightFits
    <3>4. loop'[c] # "off"
      BY <2>1, <2>5
    <3> QED
      BY <1>0, <2>2, <2>3, <3>2, <3>3, <3>4 DEF FlightFits
  <2>8. \A d \in Consumers : d # c => Rests(d)
    BY <2>2, <2>3, <2>5 DEF Rests
  <2> QED
    BY <2>3, <2>6, <2>7, <2>8, OneLoopSteps
<1>4. CASE LoopFill(c)
  <2>1. DequeueFill(c) /\ UNCHANGED runner
    BY <1>4 DEF LoopFill
  <2>2. Typed' /\ UNCHANGED <<held, arg>>
    BY <1>0, <2>1, DequeueFillDoes
  <2>3. RunnerTyped'
    BY <1>0, <2>1 DEF RunnerTyped, runner, outcomes
  <2>4. \A d \in Consumers : Rests(d)
    BY <2>1, <2>2 DEF Rests, runner
  <2>5. FlightFits(c)'
    BY <1>0, <2>4, FitsAtRest
  <2> QED
    BY <2>2, <2>3, <2>4, <2>5, OneLoopSteps
<1>5. CASE LoopClaim(c)
  <2>1. /\ loop[c] = "dequeue" /\ DequeueClaim(c) /\ GoTo(c, "top")
        /\ Start(c, SubSeq(todo[c], 1, MinOf(arg[c], Len(todo[c]))))
        /\ UNCHANGED <<isProcessing, stopRequested, batchwise, outcomes>>
    BY <1>5 DEF LoopClaim, At
  <2>2. Typed' /\ \A b \in Consumers \cup Failers : b # c => arg'[b] = arg[b]
    BY <1>0, <2>1, DequeueClaimDoes
  <2>3. PICK s \in Seq(Jobs) : /\ s = SubSeq(todo[c], 1, MinOf(arg[c], Len(todo[c])))
                               /\ Len(s) <= arg[c] /\ Delivered(c, s)
    BY <1>0, <2>1, DequeueClaimDoes
  <2>4. Start(c, s)
    BY <2>1, <2>3
  <2>5. flight' \in [Consumers -> Seq(Batch)] /\ \A d \in Consumers : d # c => flight'[d] = flight[d]
    BY <1>0, <2>4, StartAdds
  <2>6. /\ loop' \in [Consumers -> Loops] /\ loop'[c] = "top"
        /\ \A d \in Consumers : d # c => loop'[d] = loop[d]
    BY <1>0, <1>a, <2>1, LoopGoes
  <2>7. RunnerTyped'
    BY <1>0, <2>1, <2>5, <2>6 DEF RunnerTyped, outcomes
  <2>8. batchwise[c] => Len(flight[c]) < Concurrency
    BY <1>0, <2>1 DEF FlightFits
  <2>9. ~batchwise[c] => SizeOf(flight[c]) + Len(s) <= Concurrency
    <3>1. flight[c] \in Seq(Batch) /\ arg[c] \in Nat
      BY <1>0 DEF RunnerTyped, Typed, CallsOK
    <3>2. SizeOf(flight[c]) \in Nat /\ Len(s) \in Nat /\ Concurrency \in Nat
      BY <3>1, BatchesAre, RunnerAssumption
    <3>3. ~batchwise[c] => SizeOf(flight[c]) + arg[c] <= Concurrency
      BY <1>0, <2>1 DEF FlightFits
    <3> QED
      BY <2>3, <3>1, <3>2, <3>3
  <2>10. FlightFits(c)'
    BY <2>1, <2>3, <2>4, <2>6, <2>8, <2>9, StartFits
  <2>11. \A d \in Consumers : d # c => Rests(d)
    BY <2>1, <2>2, <2>3, <2>5, <2>6 DEF Rests, Delivered
  <2> QED
    BY <2>2, <2>7, <2>10, <2>11, OneLoopSteps
<1> QED
  BY <1>1, <1>2, <1>3, <1>4, <1>5

\* The steps of a loop that start and end no handler.
LEMMA MovesKeepRunner ==
  ASSUME RunnerInv, NEW c \in Consumers,
         \/ Process(c) \/ LoopFull(c) \/ LoopNone(c) \/ LoopFlushed(c) \/ LoopPoll(c)
         \/ LoopExit(c) \/ LoopDrained(c) \/ LoopEnd(c)
  PROVE  RunnerInv'
<1>0. Typed /\ RunnerTyped /\ FlightFits(c) /\ "loop" \in Flushers
  BY DEF RunnerInv, Flushers
<1>a. {"top", "race", "poll", "flush", "drain", "final", "ended"} \subseteq Loops
  BY DEF Loops
<1>1. ASSUME NEW place \in Loops \ {"off", "dequeue"}, GoTo(c, place), UNCHANGED <<arg, held, flight>>,
             batchwise' = batchwise, Typed', RunnerTyped'
      PROVE  RunnerInv'
  <2>1. loop'[c] = place /\ \A d \in Consumers : d # c => loop'[d] = loop[d]
    BY <1>0, <1>1, LoopGoes
  <2>2. batchwise'[c] \in BOOLEAN
    BY <1>1 DEF RunnerTyped
  <2>3. FlightFits(c)'
    BY <1>1, <2>1, <2>2, FitsElsewhere
  <2>4. \A d \in Consumers : d # c => Rests(d)
    BY <1>1, <2>1 DEF Rests
  <2> QED
    BY <1>1, <2>3, <2>4, OneLoopSteps
<1>2. ASSUME NEW place \in Loops \ {"off", "dequeue"}, GoTo(c, place),
             isProcessing' \in BOOLEAN,
             UNCHANGED <<vars, stopRequested, batchwise, flight, outcomes>>
      PROVE  RunnerInv'
  <2>1. Typed' /\ UNCHANGED <<arg, held>>
    BY <1>0, <1>2, NothingDoes DEF vars, calls
  <2>2. loop' \in [Consumers -> Loops]
    BY <1>0, <1>2, LoopGoes
  <2>3. RunnerTyped'
    BY <1>0, <1>2, <2>2 DEF RunnerTyped, outcomes
  <2> QED
    BY <1>1, <1>2, <2>1, <2>3
<1>3. ASSUME NEW place \in Loops \ {"off", "dequeue"}, GoTo(c, place), Flush(c, "loop"),
             UNCHANGED <<isProcessing, stopRequested, batchwise, flight, tasks>>
      PROVE  RunnerInv'
  <2>1. /\ Typed' /\ UNCHANGED <<calls, held>>
        /\ completions' \in [Consumers -> Seq(Jobs)] /\ failures' \in [Consumers -> Seq(Jobs)]
        /\ failing' \in [Consumers -> [Flushers -> Seq(Jobs)]]
        /\ flushPending' \in [Consumers -> BOOLEAN]
    BY <1>0, <1>3, FlushTypes
  <2>2. loop' \in [Consumers -> Loops]
    BY <1>0, <1>3, LoopGoes
  <2>3. RunnerTyped'
    BY <1>0, <1>3, <2>1, <2>2 DEF RunnerTyped
  <2> QED
    BY <1>1, <1>3, <2>1, <2>3 DEF calls
<1>4. ASSUME Wait(c)
      PROVE  \E place \in Loops \ {"off", "dequeue"} : GoTo(c, place)
  <2>1. PICK place : place = IF flight[c] # <<>> THEN "race" ELSE "poll"
    OBVIOUS
  <2>2. place \in Loops \ {"off", "dequeue"}
    BY <1>a, <2>1
  <2> QED
    BY <1>4, <2>1, <2>2 DEF Wait
<1>5. CASE Process(c)
  <2>1. /\ loop[c] = "off" /\ isProcessing' = TRUE /\ stopRequested' = FALSE
        /\ GoTo(c, "top") /\ UNCHANGED <<vars, flight, outcomes>>
    BY <1>5 DEF Process, GoTo
  <2>2. PICK batch \in BOOLEAN : batchwise' = [batchwise EXCEPT ![c] = batch]
    BY <1>5 DEF Process
  <2>3. batchwise' \in [Consumers -> BOOLEAN] /\ \A d \in Consumers : d # c => batchwise'[d] = batchwise[d]
    BY <1>0, <2>2 DEF RunnerTyped
  <2>4. /\ loop' \in [Consumers -> Loops] /\ loop'[c] = "top"
        /\ \A d \in Consumers : d # c => loop'[d] = loop[d]
    BY <1>0, <1>a, <2>1, LoopGoes
  <2>5. Typed' /\ UNCHANGED <<arg, held>>
    BY <1>0, <2>1, NothingDoes DEF vars, calls
  <2>6. RunnerTyped'
    BY <1>0, <2>1, <2>3, <2>4 DEF RunnerTyped, outcomes
  <2>7. FlightFits(c)'
    <3>1. flight[c] = <<>> /\ batchwise'[c] \in BOOLEAN
      BY <1>0, <2>1, <2>3 DEF FlightFits
    <3> QED
      BY <2>1, <2>4, <2>5, <3>1, FitsElsewhere
  <2>8. \A d \in Consumers : d # c => Rests(d)
    BY <2>1, <2>3, <2>4, <2>5 DEF Rests
  <2> QED
    BY <2>5, <2>6, <2>7, <2>8, OneLoopSteps
<1>6. CASE LoopFull(c) \/ LoopPoll(c) \/ LoopExit(c)
  <2>1. PICK place \in {"top", "race", "drain"} : GoTo(c, place)
    BY <1>6 DEF LoopFull, LoopPoll, LoopExit
  <2>2. UNCHANGED <<vars, isProcessing, stopRequested, batchwise, flight, outcomes>>
    BY <1>6 DEF LoopFull, LoopPoll, LoopExit
  <2>3. isProcessing' \in BOOLEAN
    BY <1>0, <2>2 DEF RunnerTyped
  <2> QED
    BY <1>a, <1>2, <2>1, <2>2, <2>3
<1>7. CASE LoopFlushed(c)
  <2>1. Wait(c) /\ UNCHANGED <<vars, isProcessing, stopRequested, batchwise, flight, outcomes>>
    BY <1>7 DEF LoopFlushed
  <2>2. isProcessing' \in BOOLEAN
    BY <1>0, <2>1 DEF RunnerTyped
  <2> QED
    BY <1>2, <1>4, <2>1, <2>2
<1>8. CASE LoopNone(c)
  <2>1. UNCHANGED <<isProcessing, stopRequested, batchwise, flight>>
    BY <1>8 DEF LoopNone
  <2>2. CASE Flush(c, "loop") /\ GoTo(c, "flush") /\ UNCHANGED tasks
    BY <1>a, <1>3, <2>1, <2>2
  <2>3. CASE Wait(c) /\ UNCHANGED <<vars, outcomes>>
    <3>1. isProcessing' \in BOOLEAN
      BY <1>0, <2>1 DEF RunnerTyped
    <3> QED
      BY <1>2, <1>4, <2>1, <2>3, <3>1
  <2> QED
    BY <1>8, <2>2, <2>3 DEF LoopNone
<1>9. CASE LoopDrained(c)
  <2>1. /\ Flush(c, "loop") /\ GoTo(c, "final")
        /\ UNCHANGED <<isProcessing, stopRequested, batchwise, flight, tasks>>
    BY <1>9 DEF LoopDrained
  <2> QED
    BY <1>a, <1>3, <2>1
<1>10. CASE LoopEnd(c)
  <2>1. /\ isProcessing' = FALSE /\ GoTo(c, "ended")
        /\ UNCHANGED <<vars, stopRequested, batchwise, flight, outcomes>>
    BY <1>10 DEF LoopEnd
  <2> QED
    BY <1>a, <1>2, <2>1
<1> QED
  BY <1>5, <1>6, <1>7, <1>8, <1>9, <1>10

LEMMA RestKeepsRunner ==
  ASSUME RunnerInv, Typed', RunnerTyped', UNCHANGED <<loop, flight, batchwise, arg, held>>
  PROVE  RunnerInv'
<1>1. \A d \in Consumers : Rests(d)
  BY DEF Rests
<1>2. \A d \in Consumers : FlightFits(d)'
  BY <1>1, FitsAtRest DEF RunnerInv
<1> QED
  BY <1>2 DEF RunnerInv

LEMMA OutcomesKeepRunner ==
  ASSUME RunnerInv, NEW c \in Consumers, OutcomeStep(c)
  PROVE  RunnerInv'
<1>0. Typed /\ RunnerTyped /\ "task" \in Flushers
  BY DEF RunnerInv, Flushers
<1>1. CASE FlushTask(c)
  <2>1. /\ tasks[c] > 0 /\ tasks' = [tasks EXCEPT ![c] = tasks[c] - 1] /\ Flush(c, "task")
        /\ UNCHANGED <<isProcessing, stopRequested, batchwise, loop, flight>>
    BY <1>1 DEF FlushTask
  <2>2. tasks' \in [Consumers -> Nat]
    <3>1. tasks[c] \in Nat /\ tasks[c] - 1 \in Nat
      BY <1>0, <2>1 DEF RunnerTyped
    <3> QED
      BY <1>0, <2>1, <3>1 DEF RunnerTyped
  <2>3. /\ Typed' /\ UNCHANGED <<calls, held>>
        /\ completions' \in [Consumers -> Seq(Jobs)] /\ failures' \in [Consumers -> Seq(Jobs)]
        /\ failing' \in [Consumers -> [Flushers -> Seq(Jobs)]]
        /\ flushPending' \in [Consumers -> BOOLEAN]
    BY <1>0, <2>1, FlushTypes
  <2>4. RunnerTyped'
    BY <1>0, <2>1, <2>2, <2>3 DEF RunnerTyped
  <2> QED
    BY <2>1, <2>3, <2>4, RestKeepsRunner DEF calls
<1>2. ASSUME NEW by \in Flushers, FlushFailure(c, by)
      PROVE  RunnerInv'
  <2>1. /\ failing[c][by] # <<>> /\ Update({Head(failing[c][by])}, "failed", 0)
        /\ failing' = [failing EXCEPT ![c][by] = Tail(failing[c][by])]
        /\ UNCHANGED <<stored, waiting, ring, calls, held, known, delivered, faults, isProcessing,
                 stopRequested, batchwise, loop, flight, completions, failures, flushPending, tasks>>
    BY <1>2 DEF FlushFailure
  <2>2. "failed" \in Statuses /\ 0 \in Nat
    BY DEF Statuses
  <2>3. /\ live' \in [Jobs -> Row] /\ late' \in SUBSET Jobs
        /\ seen' \in [Jobs -> SUBSET (Statuses \cup {"none"})]
    BY <1>0, <2>1, <2>2, UpdateTypes DEF Typed
  <2>4. RowsOK' /\ HeldOK' /\ CountsOK'
    BY <1>0, <2>1, <2>3 DEF Typed, RowsOK, HeldOK, CountsOK, faults
  <2>5. RingOK' /\ CallsOK'
    BY <1>0, <2>1, RingStays, CallsStay DEF Typed
  <2>6. failing' \in [Consumers -> [Flushers -> Seq(Jobs)]]
    <3>1. PICK s : s = Tail(failing[c][by])
      OBVIOUS
    <3>2. s \in Seq(Jobs)
      <4>1. failing[c][by] \in Seq(Jobs)
        BY <1>0 DEF RunnerTyped
      <4> QED
        BY <2>1, <3>1, <4>1
    <3>3. PICK e : e = [failing[c] EXCEPT ![by] = s]
      OBVIOUS
    <3>4. e \in [Flushers -> Seq(Jobs)]
      BY <1>0, <3>2, <3>3 DEF RunnerTyped
    <3>5. failing' = [failing EXCEPT ![c] = e]
      BY <2>1, <3>1, <3>3
    <3> QED
      BY <1>0, <3>4, <3>5 DEF RunnerTyped
  <2>7. RunnerTyped'
    BY <1>0, <2>1, <2>6 DEF RunnerTyped
  <2> QED
    BY <2>1, <2>4, <2>5, <2>7, RestKeepsRunner DEF Typed, calls
<1> QED
  BY <1>1, <1>2 DEF OutcomeStep

LEMMA ScheduleTypes ==
  ASSUME RunnerTyped, NEW c \in Consumers, NEW s \in Seq(Jobs), Schedule(c, s) \/ ScheduleFailure(c, s)
  PROVE  /\ completions' \in [Consumers -> Seq(Jobs)] /\ failures' \in [Consumers -> Seq(Jobs)]
         /\ failing' \in [Consumers -> [Flushers -> Seq(Jobs)]]
         /\ flushPending' \in [Consumers -> BOOLEAN] /\ tasks' \in [Consumers -> Nat]
<1>1. /\ completions[c] \in Seq(Jobs) /\ failures[c] \in Seq(Jobs)
      /\ flushPending[c] \in BOOLEAN /\ tasks[c] \in Nat
  BY DEF RunnerTyped
<1>2. completions[c] \o s \in Seq(Jobs) /\ failures[c] \o s \in Seq(Jobs)
  BY <1>1, ConcatProperties
<1>3. ASSUME NEW starts \in BOOLEAN,
             flushPending' = [flushPending EXCEPT ![c] = flushPending[c] \/ starts],
             tasks' = [tasks EXCEPT ![c] = IF starts THEN tasks[c] + 1 ELSE tasks[c]]
      PROVE  flushPending' \in [Consumers -> BOOLEAN] /\ tasks' \in [Consumers -> Nat]
  <2>1. PICK p, n : p = (flushPending[c] \/ starts) /\ n = IF starts THEN tasks[c] + 1 ELSE tasks[c]
    OBVIOUS
  <2>2. p \in BOOLEAN /\ n \in Nat
    BY <1>1, <2>1
  <2>3. flushPending' = [flushPending EXCEPT ![c] = p] /\ tasks' = [tasks EXCEPT ![c] = n]
    BY <1>3, <2>1
  <2> QED
    BY <2>2, <2>3 DEF RunnerTyped
<1>4. CASE Schedule(c, s)
  <2>1. completions' = [completions EXCEPT ![c] = completions[c] \o s] /\ UNCHANGED <<failures, failing>>
    BY <1>4 DEF Schedule
  <2>2. PICK due \in BOOLEAN :
          LET starts == due /\ ~flushPending[c]
          IN /\ flushPending' = [flushPending EXCEPT ![c] = flushPending[c] \/ starts]
             /\ tasks' = [tasks EXCEPT ![c] = IF starts THEN tasks[c] + 1 ELSE tasks[c]]
    BY <1>4 DEF Schedule
  <2>3. PICK starts : starts = (due /\ ~flushPending[c])
    OBVIOUS
  <2>4. /\ starts \in BOOLEAN
        /\ flushPending' = [flushPending EXCEPT ![c] = flushPending[c] \/ starts]
        /\ tasks' = [tasks EXCEPT ![c] = IF starts THEN tasks[c] + 1 ELSE tasks[c]]
    BY <2>2, <2>3
  <2>5. flushPending' \in [Consumers -> BOOLEAN] /\ tasks' \in [Consumers -> Nat]
    BY <1>3, <2>4
  <2> QED
    BY <1>2, <2>1, <2>5 DEF RunnerTyped
<1>5. CASE ScheduleFailure(c, s)
  <2>1. failures' = [failures EXCEPT ![c] = failures[c] \o s] /\ UNCHANGED <<completions, failing>>
    BY <1>5 DEF ScheduleFailure
  <2>2. PICK starts : starts = (Len(failures[c] \o s) >= Limit /\ ~flushPending[c])
    OBVIOUS
  <2>3. /\ starts \in BOOLEAN
        /\ flushPending' = [flushPending EXCEPT ![c] = flushPending[c] \/ starts]
        /\ tasks' = [tasks EXCEPT ![c] = IF starts THEN tasks[c] + 1 ELSE tasks[c]]
    BY <1>5, <2>2 DEF ScheduleFailure
  <2>4. flushPending' \in [Consumers -> BOOLEAN] /\ tasks' \in [Consumers -> Nat]
    BY <1>3, <2>3
  <2> QED
    BY <1>2, <2>1, <2>4 DEF RunnerTyped
<1> QED
  BY <1>4, <1>5

\* Which handlers of a batch end together, and which go on.
LEMMA HandlersOf ==
  ASSUME RunnerInv, NEW c \in Consumers, HandlerEnd(c)
  PROVE  \E b \in 1 .. Len(flight[c]), ok \in BOOLEAN, over \in Seq(Jobs), rest \in Seq(Jobs) :
           /\ HandlersEnd(c, b, over, rest, ok) /\ Len(rest) <= Len(flight[c][b].left)
           /\ \A j : Occurrences(j, flight[c][b].left) = Occurrences(j, over) + Occurrences(j, rest)
<1>1. PICK b \in 1 .. Len(flight[c]), ok \in BOOLEAN :
        LET left == flight[c][b].left IN
        IF batchwise[c] THEN HandlersEnd(c, b, left, <<>>, ok)
        ELSE \E k \in 1 .. Len(left) : HandlersEnd(c, b, <<left[k]>>, RemoveAt(left, k), ok)
  BY DEF HandlerEnd
<1>2. PICK left : left = flight[c][b].left
  OBVIOUS
<1>3. left \in Seq(Jobs)
  <2>1. flight[c] \in Seq(Batch)
    BY DEF RunnerInv, RunnerTyped
  <2>2. flight[c][b] \in Batch
    BY <2>1
  <2> QED
    BY <1>2, <2>2 DEF Batch
<1>4. CASE batchwise[c]
  <2>1. HandlersEnd(c, b, left, <<>>, ok)
    BY <1>1, <1>2, <1>4
  <2>2. <<>> \in Seq(Jobs) /\ Len(<<>>) <= Len(left)
    BY <1>3
  <2>3. \A j : Occurrences(j, left) = Occurrences(j, left) + Occurrences(j, <<>>)
    <3>1. \A j : Occurrences(j, left) \in Nat /\ Occurrences(j, <<>>) = 0
      BY <1>3, OccurrencesCount, OccurrencesOfNone
    <3> QED
      BY <3>1
  <2> QED
    BY <1>2, <1>3, <2>1, <2>2, <2>3
<1>5. CASE ~batchwise[c]
  <2>1. PICK k \in 1 .. Len(left) : HandlersEnd(c, b, <<left[k]>>, RemoveAt(left, k), ok)
    BY <1>1, <1>2, <1>5
  <2>2. PICK over, rest : over = <<left[k]>> /\ rest = RemoveAt(left, k)
    OBVIOUS
  <2>3. /\ over \in Seq(Jobs) /\ rest \in Seq(Jobs) /\ Len(rest) <= Len(left)
        /\ \A j : Occurrences(j, left) = Occurrences(j, over) + Occurrences(j, rest)
    BY <1>3, <2>2, OneIsOver
  <2>4. HandlersEnd(c, b, over, rest, ok)
    BY <2>1, <2>2
  <2> QED
    BY <1>2, <2>3, <2>4
<1> QED
  BY <1>4, <1>5

LEMMA HandlersKeepRunner ==
  ASSUME RunnerInv, NEW c \in Consumers, HandlerEnd(c)
  PROVE  RunnerInv'
<1>0. Typed /\ RunnerTyped /\ FlightFits(c)
  BY DEF RunnerInv
<1>1. PICK b \in 1 .. Len(flight[c]), ok \in BOOLEAN, over \in Seq(Jobs), rest \in Seq(Jobs) :
           /\ HandlersEnd(c, b, over, rest, ok) /\ Len(rest) <= Len(flight[c][b].left)
           /\ \A j : Occurrences(j, flight[c][b].left) = Occurrences(j, over) + Occurrences(j, rest)
  BY HandlersOf
<1>2. /\ Schedule(c, over) \/ ScheduleFailure(c, over)
      /\ held' = [held EXCEPT ![c] = [j \in Jobs |-> held[c][j] - Occurrences(j, over)]]
      /\ flight' = [flight EXCEPT ![c] = IF rest = <<>> THEN RemoveAt(flight[c], b)
                                                    ELSE [flight[c] EXCEPT ![b].left = rest]]
      /\ loop' = [loop EXCEPT ![c] = IF rest = <<>> /\ loop[c] = "race" THEN "top" ELSE loop[c]]
      /\ UNCHANGED <<rows, ring, calls, known, delivered, faults, isProcessing, stopRequested,
                     batchwise>>
  BY <1>1 DEF HandlersEnd
<1>3. PICK s : s = flight[c]
  OBVIOUS
<1>4. s \in Seq(Batch) /\ b \in 1 .. Len(s)
  BY <1>0, <1>3 DEF RunnerTyped
<1>5. PICK t : t = Onward(s, b, rest)
  OBVIOUS
<1>6. /\ Len(rest) <= Len(s[b].left)
      /\ \A j : Occurrences(j, s[b].left) = Occurrences(j, over) + Occurrences(j, rest)
  BY <1>1, <1>3
<1>7. /\ t \in Seq(Batch) /\ SizeOf(t) <= SizeOf(s) /\ Len(t) <= Len(s)
      /\ \A j : Occurrences(j, Flat(t)) = Occurrences(j, Flat(s)) - Occurrences(j, over)
  BY <1>4, <1>5, <1>6, BatchGoesOn
<1>8. flight' = [flight EXCEPT ![c] = t]
  BY <1>2, <1>3, <1>5 DEF Onward
<1>9. /\ flight' \in [Consumers -> Seq(Batch)] /\ flight'[c] = t
      /\ \A d \in Consumers : d # c => flight'[d] = flight[d]
  BY <1>0, <1>7, <1>8 DEF RunnerTyped
<1>10. PICK place : place = IF rest = <<>> /\ loop[c] = "race" THEN "top" ELSE loop[c]
  OBVIOUS
<1>11. place \in Loops /\ (place = loop[c] \/ (place = "top" /\ loop[c] = "race"))
  BY <1>0, <1>10 DEF RunnerTyped, Loops
<1>12. /\ loop' \in [Consumers -> Loops] /\ loop'[c] = place
       /\ \A d \in Consumers : d # c => loop'[d] = loop[d]
  <2>1. GoTo(c, place)
    BY <1>2, <1>10 DEF GoTo
  <2> QED
    BY <1>0, <1>11, <2>1, LoopGoes
<1>13. PICK f : f = [j \in Jobs |-> held[c][j] - Occurrences(j, over)]
  OBVIOUS
<1>14. \A j \in Jobs : f[j] = Occurrences(j, Flat(t)) /\ f[j] \in Nat
  <2>1. \A j \in Jobs : held[c][j] = Occurrences(j, Flat(s))
    BY <1>0, <1>3 DEF FlightFits
  <2>2. \A j \in Jobs : f[j] = Occurrences(j, Flat(t))
    BY <1>7, <1>13, <2>1
  <2>3. Flat(t) \in Seq(Jobs)
    BY <1>7, BatchesAre
  <2> QED
    BY <2>2, <2>3, OccurrencesCount
<1>15. held' = [held EXCEPT ![c] = f] /\ f \in [Jobs -> Nat]
  BY <1>2, <1>13, <1>14
<1>16. HeldOK' /\ held'[c] = f /\ \A d \in Consumers : d # c => held'[d] = held[d]
  BY <1>0, <1>2, <1>15 DEF Typed, HeldOK
<1>17. Typed'
  <2>1. RowsOK' /\ CountsOK'
    BY <1>0, <1>2 DEF Typed, RowsOK, CountsOK, rows, faults
  <2>2. RingOK' /\ CallsOK'
    BY <1>0, <1>2, RingStays, CallsStay DEF Typed
  <2> QED
    BY <1>16, <2>1, <2>2 DEF Typed
<1>18. RunnerTyped'
  <2>1. /\ completions' \in [Consumers -> Seq(Jobs)] /\ failures' \in [Consumers -> Seq(Jobs)]
        /\ failing' \in [Consumers -> [Flushers -> Seq(Jobs)]]
        /\ flushPending' \in [Consumers -> BOOLEAN] /\ tasks' \in [Consumers -> Nat]
    BY <1>0, <1>2, ScheduleTypes
  <2> QED
    BY <1>0, <1>2, <1>9, <1>12, <2>1 DEF RunnerTyped
<1>19. FlightFits(c)'
  <2>1. loop'[c] = "off" => flight'[c] = <<>>
    <3>1. s # <<>>
      BY <1>4
    <3> QED
      BY <1>0, <1>3, <1>11, <1>12, <3>1 DEF FlightFits
  <2>2. \A j \in Jobs : held'[c][j] = Occurrences(j, Flat(flight'[c]))
    BY <1>9, <1>14, <1>16
  <2>3. /\ SizeOf(t) \in Nat /\ SizeOf(s) \in Nat /\ Len(t) \in Nat /\ Len(s) \in Nat
        /\ arg[c] \in Nat /\ arg'[c] = arg[c] /\ Concurrency \in Nat /\ batchwise' = batchwise
    BY <1>0, <1>2, <1>4, <1>7, BatchesAre, RunnerAssumption DEF Typed, CallsOK, calls
  <2>4. loop'[c] = "dequeue" => loop[c] = "dequeue"
    BY <1>11, <1>12
  <2>5. batchwise[c] => /\ Len(t) <= Concurrency
                        /\ loop'[c] = "dequeue" => Len(t) < Concurrency
    BY <1>0, <1>3, <1>7, <2>3, <2>4 DEF FlightFits
  <2>6. ~batchwise[c] => /\ SizeOf(t) <= Concurrency
                         /\ loop'[c] = "dequeue" => SizeOf(t) + arg[c] <= Concurrency
    BY <1>0, <1>3, <1>7, <2>3, <2>4 DEF FlightFits
  <2> QED
    BY <1>9, <2>1, <2>2, <2>3, <2>5, <2>6 DEF FlightFits
<1>20. \A d \in Consumers : d # c => Rests(d)
  BY <1>2, <1>9, <1>12, <1>16 DEF Rests, calls
<1> QED
  BY <1>17, <1>18, <1>19, <1>20, OneLoopSteps

\* A batch of which no job has to wait.
LEMMA BatchIsItself ==
  ASSUME NEW s \in Batches
  PROVE  s \in Sublists(s)
<1>1. PICK n : n = Len(s)
  OBVIOUS
<1>2. s \in Seq(Jobs) /\ n \in Nat /\ n \in 0 .. Len(s)
  BY <1>1, BatchesAreSequences
<1>3. PICK f : f = [i \in 1 .. n |-> i]
  OBVIOUS
<1>4. f \in Rising(n, Len(s))
  BY <1>1, <1>3 DEF Rising
<1>5. s = [i \in 1 .. n |-> s[f[i]]]
  BY <1>1, <1>2, <1>3
<1>6. PICK m : m = Len(s)
  OBVIOUS
<1>7. s \in {[i \in 1 .. n |-> s[g[i]]] : g \in Rising(n, m)}
  BY <1>4, <1>5, <1>6
<1>8. Sublists(s) = UNION {{[i \in 1 .. k |-> s[g[i]]] : g \in Rising(k, m)} : k \in 0 .. m}
  BY <1>6 DEF Sublists
<1> QED
  BY <1>2, <1>6, <1>7, <1>8

LEMMA EnqueuesKeepRunner ==
  ASSUME RunnerInv, NEW p \in Producers, EnqueueNow(p) \/ ProducerStep(p), UNCHANGED runner
  PROVE  RunnerInv'
<1>0. Typed /\ RunnerTyped
  BY DEF RunnerInv
<1>1. Typed' /\ UNCHANGED <<held, arg>>
  <2>1. ASSUME NEW j \in Jobs, Enqueue(p, j, FALSE)
        PROVE  Typed' /\ UNCHANGED <<held, arg>>
    BY <1>0, <2>1, EnqueueDoes
  <2>2. ASSUME NEW s \in Batches, EnqueueBatch(p, s, s)
        PROVE  Typed' /\ UNCHANGED <<held, arg>>
    <3>1. s \in Sublists(s)
      BY BatchIsItself
    <3> QED
      BY <1>0, <2>2, <3>1, EnqueueBatchDoes
  <2>3. CASE ProducerStep(p)
    BY <1>0, <2>3, EnqueueRingDoes, EnqueueNextDoes DEF ProducerStep
  <2> QED
    BY <2>1, <2>2, <2>3 DEF EnqueueNow
<1>2. RunnerTyped'
  BY <1>0 DEF RunnerTyped, runner, outcomes
<1> QED
  BY <1>1, <1>2, RestKeepsRunner DEF runner

LEMMA RunnerInvAtFirst ==
  ASSUME RunnerInit
  PROVE  RunnerInv
<1>1. Typed
  BY TypedAtFirst DEF RunnerInit
<1>2. <<>> \in Seq(Batch) /\ <<>> \in Seq(Jobs) /\ Len(<<>>) = 0
  OBVIOUS
<1>3. RunnerTyped
  BY <1>2 DEF RunnerInit, RunnerTyped, Loops
<1>4. ASSUME NEW c \in Consumers
      PROVE  FlightFits(c)
  <2>1. /\ flight[c] = <<>> /\ loop[c] = "off" /\ \A j \in Jobs : held[c][j] = 0
    BY DEF RunnerInit, Init
  <2>2. SizeOf(<<>>) = 0 /\ Flat(<<>>) = <<>>
    BY BatchesAre
  <2>3. \A j \in Jobs : held[c][j] = Occurrences(j, Flat(flight[c]))
    BY <2>1, <2>2, OccurrencesOfNone
  <2>4. 0 <= Concurrency
    BY RunnerAssumption
  <2> QED
    BY <1>2, <2>1, <2>2, <2>3, <2>4 DEF FlightFits
<1> QED
  BY <1>1, <1>3, <1>4 DEF RunnerInv

LEMMA RunnerInvKept ==
  ASSUME RunnerInv, [RunnerNext]_<<vars, runner>>
  PROVE  RunnerInv'
<1>1. ASSUME NEW c \in Consumers, Process(c) \/ LoopStep(c) \/ OutcomeStep(c) \/ HandlerEnd(c)
      PROVE  RunnerInv'
  BY <1>1, DequeuesKeepRunner, MovesKeepRunner, OutcomesKeepRunner, HandlersKeepRunner DEF LoopStep
<1>2. CASE Stop
  <2>1. Typed /\ RunnerTyped
    BY DEF RunnerInv
  <2>2. Typed' /\ UNCHANGED <<loop, flight, batchwise, arg, held>>
    BY <1>2, <2>1, NothingDoes DEF Stop, vars, calls
  <2>3. RunnerTyped'
    BY <1>2, <2>1 DEF Stop, RunnerTyped, outcomes
  <2> QED
    BY <2>2, <2>3, RestKeepsRunner
<1>3. CASE UNCHANGED <<vars, runner>>
  <2>1. Typed /\ RunnerTyped
    BY DEF RunnerInv
  <2>2. Typed' /\ UNCHANGED <<loop, flight, batchwise, arg, held>>
    BY <1>3, <2>1, NothingDoes DEF runner, vars, calls
  <2>3. RunnerTyped'
    BY <1>3, <2>1 DEF runner, RunnerTyped, outcomes
  <2> QED
    BY <2>2, <2>3, RestKeepsRunner
<1>4. ASSUME NEW p \in Producers, EnqueueNow(p) \/ ProducerStep(p), UNCHANGED runner
      PROVE  RunnerInv'
  BY <1>4, EnqueuesKeepRunner
<1> QED
  BY <1>1, <1>2, <1>3, <1>4 DEF RunnerNext

\* The variables of the loops hold what they are for, and no loop ever runs more than
\* Concurrency handlers (processBatch(): batches): it decides how many jobs to ask for
\* before it awaits them, and what it asked for still fits when they come.
THEOREM RunnerIsTyped == RunnerSpec => []RunnerTypeOK
<1>1. RunnerInit => RunnerInv
  BY RunnerInvAtFirst
<1>2. RunnerInv /\ [RunnerNext]_<<vars, runner>> => RunnerInv'
  BY RunnerInvKept
<1>3. RunnerInv => RunnerTypeOK
  <2> SUFFICES ASSUME RunnerInv PROVE RunnerTypeOK
    OBVIOUS
  <2>0. RunnerTyped
    BY DEF RunnerInv
  <2>1. ASSUME NEW c \in Consumers
        PROVE  IF batchwise[c] THEN Len(flight[c]) <= Concurrency
                               ELSE Cardinality(Handlers(c)) <= Concurrency
    <3>1. FlightFits(c) /\ flight[c] \in Seq(Batch)
      BY <2>0 DEF RunnerInv, RunnerTyped
    <3>2. PICK s : s = Flat(flight[c])
      OBVIOUS
    <3>3. s \in Seq(Jobs) /\ SizeOf(flight[c]) \in Nat /\ Len(s) <= SizeOf(flight[c])
      BY <3>1, <3>2, BatchesAre, FlatIsWithin
    <3>4. Cardinality(Handlers(c)) = Len(s)
      BY <3>1, <3>2, <3>3, HandlersAreCounted DEF FlightFits
    <3>5. Len(s) \in Nat /\ Concurrency \in Nat
      BY <3>3, RunnerAssumption
    <3> QED
      BY <3>1, <3>3, <3>4, <3>5 DEF FlightFits
  <2>2. flight \in [Consumers -> Seq([size : Nat, left : Seq(Jobs)])]
    <3>1. ASSUME NEW s \in Seq(Batch)
          PROVE  s \in Seq([size : Nat, left : Seq(Jobs)])
      <4>1. PICK Y : Y = [size : Nat, left : Seq(Jobs)]
        OBVIOUS
      <4>2. Batch \subseteq Y
        BY <4>1 DEF Batch
      <4>3. \A i \in 1 .. Len(s) : s[i] \in Y
        BY <4>2
      <4>4. s \in Seq(Y)
        BY <4>3
      <4> QED
        BY <4>1, <4>4
    <3> QED
      BY <2>0, <3>1 DEF RunnerTyped
  <2> QED
    BY <2>0, <2>1, <2>2 DEF RunnerTyped, RunnerTypeOK, ConcurrencyBound
<1> QED
  BY <1>1, <1>2, <1>3, PTL DEF RunnerSpec

-----------------------------------------------------------------------------
(* Whose a job is *)

\* Every distance from a slot is that of some slot.
LEMMA SlotAt ==
  ASSUME NEW h \in Indices, NEW k \in Indices
  PROVE  \E i \in Indices : Offset(i, h) = k
<1>1. PICK N : N = RingSlots
  OBVIOUS
<1>2. N \in Nat /\ h \in Int /\ k \in Int /\ 0 <= h /\ h < N /\ 0 <= k /\ k < N
  BY <1>1 DEF Indices
<1>3. PICK i : i = IF h + k < N THEN h + k ELSE h + k - N
  OBVIOUS
<1>4. i \in Int /\ 0 <= i /\ i < N
  BY <1>2, <1>3
<1>5. i \in Indices
  BY <1>1, <1>2, <1>4 DEF Indices
<1>6. Offset(i, h) = IF i >= h THEN i - h ELSE i - h + N
  BY <1>1, <1>5, OffsetIs
<1>7. (IF i >= h THEN i - h ELSE i - h + N) = k
  BY <1>2, <1>3, <1>4
<1> QED
  BY <1>5, <1>6, <1>7

\* A push takes no job out of the ring, and if there is room for all it leaves none out.
LEMMA PushKeepsJobs ==
  ASSUME RingOK, NEW s \in Seq(Jobs), RingPush(s)
  PROVE  /\ \A k \in Jobs : InRing(k) => InRing(k)'
         /\ Len(s) <= RingSlots - 1 - Size => \A k \in Range(s) : InRing(k)'
<1>1. head \in Indices /\ tail \in Indices /\ Size \in Indices
  BY SizeIs DEF RingOK
<1>2. PICK z, N, n, l : z = Size /\ N = RingSlots /\ n = MinOf(Len(s), RingSlots - 1 - Size) /\ l = Len(s)
  OBVIOUS
<1>3. /\ head \in Int /\ tail \in Int /\ z \in Int /\ 0 <= z /\ z < N /\ 0 <= head /\ head < N
      /\ 0 <= tail /\ tail < N /\ N \in Nat /\ l \in Nat
  BY <1>1, <1>2 DEF Indices
<1>4. n \in Nat /\ n <= N - 1 - z /\ n <= l /\ (l <= N - 1 - z => n = l)
  <2>1. n = IF l < N - 1 - z THEN l ELSE N - 1 - z
    BY <1>2 DEF MinOf
  <2> QED
    BY <1>3, <2>1
<1>5. slots' = [i \in Indices |-> IF Offset(i, tail) + 1 <= n THEN s[Offset(i, tail) + 1] ELSE slots[i]]
  BY <1>2 DEF RingPush, Offset
<1>6. z = IF tail >= head THEN tail - head ELSE tail - head + N
  BY <1>1, <1>2, SizeIs, OffsetIs
<1>7. ASSUME NEW k \in Jobs, InRing(k)
      PROVE  InRing(k)'
  <2>1. PICK i \in Indices : slots[i] = k
    BY <1>7 DEF InRing
  <2>2. k # NoJob
    OBVIOUS
  <2>3. Offset(i, head) < z
    BY <1>2, <2>1, <2>2 DEF RingOK, RingHoldsSize, Offset
  <2>4. PICK a, b : a = Offset(i, tail) /\ b = Offset(i, head)
    OBVIOUS
  <2>5. /\ a = IF i >= tail THEN i - tail ELSE i - tail + N
        /\ b = IF i >= head THEN i - head ELSE i - head + N
    BY <1>1, <1>2, <2>4, OffsetIs
  <2>6. i \in Int /\ 0 <= i /\ i < N
    BY <1>2 DEF Indices
  <2>7. ~(a + 1 <= n)
    BY <1>3, <1>4, <1>6, <2>3, <2>4, <2>5, <2>6
  <2>8. slots'[i] = k
    BY <1>5, <2>1, <2>4, <2>7
  <2> QED
    BY <2>8 DEF InRing, Indices
<1>8. ASSUME Len(s) <= RingSlots - 1 - Size, NEW k \in Range(s)
      PROVE  InRing(k)'
  <2>1. PICK m \in 1 .. l : s[m] = k
    BY <1>2 DEF Range
  <2>2. l <= N - 1 - z /\ n = l
    BY <1>2, <1>4, <1>8
  <2>3. m \in Nat /\ m <= n /\ m - 1 \in 0 .. N - 1 /\ (m - 1) + 1 = m
    BY <1>3, <2>1, <2>2
  <2>4. m - 1 \in Indices
    BY <1>2, <2>3 DEF Indices
  <2>5. PICK i \in Indices : Offset(i, tail) = m - 1
    BY <1>1, <2>4, SlotAt
  <2>6. slots'[i] = k
    BY <1>5, <2>1, <2>3, <2>5
  <2> QED
    BY <2>6 DEF InRing, Indices
<1> QED
  BY <1>7, <1>8

\* A pop takes out of the ring only what it returns.
LEMMA PopKeepsJobs ==
  ASSUME RingOK, NEW n \in Nat, n <= Size, RingPop(n), NEW k \in Jobs, InRing(k)
  PROVE  InRing(k)' \/ k \in Range(RingFirst(n))
<1>1. head \in Indices /\ tail \in Indices /\ Size \in Indices
  BY SizeIs DEF RingOK
<1>2. PICK N : N = RingSlots
  OBVIOUS
<1>3. PICK i \in Indices : slots[i] = k
  BY DEF InRing
<1>4. slots' = [m \in Indices |-> IF Offset(m, head) < n THEN NoJob ELSE slots[m]]
  BY DEF RingPop, Offset
<1>5. CASE ~(Offset(i, head) < n)
  <2>1. slots'[i] = k
    BY <1>3, <1>4, <1>5
  <2> QED
    BY <2>1 DEF InRing, Indices
<1>6. CASE Offset(i, head) < n
  <2>1. PICK m : m = Offset(i, head) + 1
    OBVIOUS
  <2>2. Offset(i, head) \in Indices /\ Offset(i, head) = IF i >= head THEN i - head ELSE i - head + N
    BY <1>1, <1>2, OffsetIs
  <2>3. /\ i \in Int /\ 0 <= i /\ i < N /\ head \in Int /\ 0 <= head /\ head < N /\ N \in Nat
    BY <1>1, <1>2 DEF Indices
  <2>4. Offset(i, head) \in Int /\ 0 <= Offset(i, head)
    BY <2>2 DEF Indices
  <2>5. m \in 1 .. n
    BY <1>6, <2>1, <2>4
  <2>6. PICK x : x = head + m - 1
    OBVIOUS
  <2>7. x \in Nat /\ x < 2 * N /\ (IF x < N THEN x ELSE x - N) = i
    BY <2>1, <2>2, <2>3, <2>4, <2>6
  <2>8. x % RingSlots = i
    BY <1>2, <2>7, ModIs
  <2>9. RingFirst(n)[m] = k
    BY <1>3, <2>5, <2>6, <2>8 DEF RingFirst
  <2>10. DOMAIN RingFirst(n) = 1 .. n
    BY DEF RingFirst
  <2> QED
    BY <2>5, <2>9, <2>10 DEF Range
<1> QED
  BY <1>5, <1>6

LEMMA OccursOnce ==
  ASSUME NEW s \in Seq(Jobs), NEW j \in Range(s)
  PROVE  Occurrences(j, s) > 0
<1>1. PICK S : S = {i \in 1 .. Len(s) : s[i] = j}
  OBVIOUS
<1>2. IsFiniteSet(S)
  <2>1. IsFiniteSet(1 .. Len(s))
    BY FS_Interval, LenProperties
  <2> QED
    BY <1>1, <2>1, FS_Subset
<1>3. S # {}
  BY <1>1 DEF Range
<1>4. Cardinality(S) # 0 /\ Cardinality(S) \in Nat
  BY <1>2, <1>3, FS_EmptySet, FS_CardinalityType
<1> QED
  BY <1>1, <1>4 DEF Occurrences

LEMMA RangeOfConcat ==
  ASSUME NEW s \in Seq(Jobs), NEW t \in Seq(Jobs)
  PROVE  Range(s) \cup Range(t) \subseteq Range(s \o t)
<1>1. PICK u : u = s \o t
  OBVIOUS
<1>2. /\ u \in Seq(Jobs) /\ Len(u) = Len(s) + Len(t)
      /\ \A i \in 1 .. Len(s) : u[i] = s[i]
  BY <1>1, ConcatProperties
<1>3. Len(s) \in Nat /\ Len(t) \in Nat /\ DOMAIN u = 1 .. Len(u)
  BY <1>2
<1>4. ASSUME NEW j \in Range(s) PROVE j \in Range(u)
  <2>1. PICK i \in 1 .. Len(s) : s[i] = j
    BY DEF Range
  <2>2. i \in 1 .. Len(u) /\ u[i] = j
    BY <1>2, <1>3, <2>1
  <2> QED
    BY <1>3, <2>2 DEF Range
<1>5. ASSUME NEW j \in Range(t) PROVE j \in Range(u)
  <2>1. PICK i \in 1 .. Len(t) : t[i] = j
    BY DEF Range
  <2>2. /\ Len(s) + i \in 1 .. Len(s) + Len(t) /\ ~(Len(s) + i <= Len(s)) /\ (Len(s) + i) - Len(s) = i
    BY <1>3
  <2>3. u[Len(s) + i] = j
    BY <1>1, <2>1, <2>2
  <2> QED
    BY <1>2, <1>3, <2>2, <2>3 DEF Range
<1> QED
  BY <1>1, <1>4, <1>5

OneLoop == \A b, c \in Consumers : b = c

\* The ring has room for what a dequeue selects beyond its limit.
SurplusFits ==
  \A c \in Consumers : pc[c] = "fill" => Len(todo[c]) - arg[c] <= RingSlots - 1 - Size

HeldBySome(j) == \E c \in Consumers : held[c][j] > 0

Owned(j) == live[j].status = "processing" => HeldBySome(j) \/ InRing(j) \/ OutcomePending(j)

\* When the claim of c is about to be pushed, the jobs it does not deliver are in the ring.
ClaimIsQueued(c) ==
  pc[c] = "claim" => \A i \in 1 .. Len(todo[c]) : i > arg[c] => InRing(todo[c][i])

OwnedInv ==
  /\ RunnerInv
  /\ \A j \in Jobs : Owned(j)
  /\ \A c \in Consumers : ClaimIsQueued(c)

LEMMA OutcomesRemain ==
  ASSUME NEW j, UNCHANGED outcomes, OutcomePending(j)
  PROVE  OutcomePending(j)'
BY DEF OutcomePending, outcomes

LEMMA HoldersRemain ==
  ASSUME NEW j, UNCHANGED held, HeldBySome(j)
  PROVE  HeldBySome(j)'
BY DEF HeldBySome

\* The row of a job and what stands behind it stay.
LEMMA OwnedStays ==
  ASSUME NEW j, Owned(j), live'[j] = live[j], HeldBySome(j) => HeldBySome(j)' \/ OutcomePending(j)',
         InRing(j) => InRing(j)' \/ HeldBySome(j)', OutcomePending(j) => OutcomePending(j)'
  PROVE  Owned(j)'
BY DEF Owned

LEMMA ClaimStays ==
  ASSUME NEW c, ClaimIsQueued(c), todo[c] \in Seq(Jobs), \A k \in Jobs : InRing(k) => InRing(k)',
         (pc'[c] = pc[c] /\ todo'[c] = todo[c] /\ arg'[c] = arg[c]) \/ pc'[c] # "claim"
  PROVE  ClaimIsQueued(c)'
<1>1. CASE pc'[c] # "claim"
  BY <1>1 DEF ClaimIsQueued
<1>2. CASE pc'[c] = pc[c] /\ todo'[c] = todo[c] /\ arg'[c] = arg[c] /\ pc[c] = "claim"
  <2>1. ASSUME NEW i \in 1 .. Len(todo[c]), i > arg[c]
        PROVE  InRing(todo[c][i])'
    <3>1. PICK k \in Jobs : k = todo[c][i]
      OBVIOUS
    <3>2. InRing(k)
      BY <1>2, <2>1, <3>1 DEF ClaimIsQueued
    <3>3. InRing(k)'
      BY <3>2
    <3>4. todo'[c][i] = k
      BY <1>2, <3>1
    <3>5. \E m \in Indices : slots'[m] = k
      BY <3>3 DEF InRing, Indices
    <3> QED
      BY <1>2, <3>1, <3>5 DEF InRing, Indices
  <2> QED
    BY <1>2, <2>1 DEF ClaimIsQueued, InRing, Indices
<1> QED
  BY <1>1, <1>2

\* Producers bring jobs to the rows and the ring and disturb nobody.
LEMMA EnqueuesKeepOwned ==
  ASSUME OwnedInv, NEW p \in Producers, EnqueueNow(p) \/ ProducerStep(p), UNCHANGED runner
  PROVE  OwnedInv'
<1> USE CallerKinds
<1>0. RunnerInv /\ RunnerInv' /\ Typed
  BY EnqueuesKeepRunner DEF OwnedInv, RunnerInv
<1>1. RingOK /\ todo \in [Callers -> Seq(Jobs)] /\ arg \in [Consumers \cup Failers -> Nat]
  BY <1>0 DEF Typed, CallsOK
<1>2. ASSUME NEW j \in Jobs, OutcomePending(j) PROVE OutcomePending(j)'
  BY <1>2, OutcomesRemain DEF runner
<1>3. ASSUME NEW place, NEW s, place # "claim", Moved(p, place, s),
             UNCHANGED <<held, arg>>, \A k \in Jobs : InRing(k) => InRing(k)',
             \A k \in Jobs : live'[k] = live[k] \/ live'[k] = NewRow
      PROVE  OwnedInv'
  <2>1. ASSUME NEW j \in Jobs PROVE Owned(j)'
    <3>1. CASE live'[j] = NewRow
      BY <3>1 DEF Owned, NewRow
    <3>2. CASE live'[j] = live[j]
      BY <1>2, <1>3, <3>2, HoldersRemain, OwnedStays DEF OwnedInv
    <3> QED
      BY <1>3, <3>1, <3>2
  <2>2. ASSUME NEW c \in Consumers PROVE ClaimIsQueued(c)'
    <3>1. ClaimIsQueued(c) /\ todo[c] \in Seq(Jobs)
      BY <1>1 DEF OwnedInv
    <3>2. (pc'[c] = pc[c] /\ todo'[c] = todo[c] /\ arg'[c] = arg[c]) \/ pc'[c] # "claim"
      BY <1>3 DEF Moved
    <3> QED
      BY <1>3, <3>1, <3>2, ClaimStays
  <2> QED
    BY <1>0, <2>1, <2>2 DEF OwnedInv
<1>4. ASSUME NEW j \in Jobs, Inserted(j)
      PROVE  \A k \in Jobs : live'[k] = live[k] \/ live'[k] = NewRow
  BY <1>4 DEF Inserted
<1>5. ASSUME UNCHANGED ring PROVE \A k \in Jobs : InRing(k) => InRing(k)'
  BY <1>5, RingKeepsPlaces
<1>6. ASSUME NEW j \in Jobs, Enqueue(p, j, FALSE)
      PROVE  OwnedInv'
  <2>1. Inserted(j) /\ UNCHANGED <<ring, held, arg>> /\ Moved(p, "enqueue", <<j>>)
    BY <1>0, <1>6, EnqueueDoes
  <2> QED
    BY <1>3, <1>4, <1>5, <2>1
<1>7. ASSUME NEW s \in Batches, EnqueueBatch(p, s, s)
      PROVE  OwnedInv'
  <2>1. s \in Sublists(s)
    BY BatchIsItself
  <2>2. /\ Inserted(s[1]) /\ UNCHANGED <<held, arg>> /\ Moved(p, "enqueueBatch", Tail(s))
        /\ s \in Seq(Jobs) /\ s # <<>>
    BY <1>0, <1>7, <2>1, EnqueueBatchDoes
  <2>3. s[1] \in Jobs /\ RingPush(s)
    BY <1>7, <2>2, TailOf DEF EnqueueBatch
  <2>4. \A k \in Jobs : InRing(k) => InRing(k)'
    BY <1>1, <2>2, <2>3, PushKeepsJobs
  <2> QED
    BY <1>3, <1>4, <2>2, <2>3, <2>4
<1>8. CASE EnqueueRing(p)
  <2>1. UNCHANGED <<rows, held, arg>> /\ Moved(p, "idle", <<>>)
    BY <1>0, <1>8, EnqueueRingDoes
  <2>2. RingPush(todo[p]) /\ todo[p] \in Seq(Jobs)
    BY <1>1, <1>8 DEF EnqueueRing
  <2>3. \A k \in Jobs : InRing(k) => InRing(k)'
    BY <1>1, <2>2, PushKeepsJobs
  <2>4. \A k \in Jobs : live'[k] = live[k]
    BY <2>1 DEF rows
  <2> QED
    BY <1>3, <2>1, <2>3, <2>4
<1>9. CASE EnqueueNext(p)
  <2>1. /\ UNCHANGED <<ring, held, arg>>
        /\ \/ todo[p] = <<>> /\ Moved(p, "idle", <<>>) /\ RowsStay
           \/ /\ todo[p] # <<>> /\ Moved(p, "enqueueBatch", Tail(todo[p]))
              /\ Inserted(todo[p][1])
    BY <1>0, <1>9, EnqueueNextDoes
  <2>2. CASE Moved(p, "idle", <<>>) /\ RowsStay
    <3>1. \A k \in Jobs : live'[k] = live[k]
      BY <2>2 DEF RowsStay
    <3> QED
      BY <1>3, <1>5, <2>1, <2>2, <3>1
  <2>3. CASE todo[p] # <<>> /\ Moved(p, "enqueueBatch", Tail(todo[p])) /\ Inserted(todo[p][1])
    <3>1. todo[p][1] \in Jobs
      BY <1>1, <2>3, TailOf
    <3> QED
      BY <1>3, <1>4, <1>5, <2>1, <2>3, <3>1
  <2> QED
    BY <2>1, <2>2, <2>3
<1> QED
  BY <1>6, <1>7, <1>8, <1>9 DEF EnqueueNow, ProducerStep

\* Whoever handles a job that a step delivers is its owner.
LEMMA DeliveryIsHeld ==
  ASSUME Typed, NEW c \in Consumers, NEW s \in Seq(Jobs), Delivered(c, s), NEW j \in Jobs
  PROVE  /\ HeldBySome(j) => HeldBySome(j)'
         /\ j \in Range(s) => HeldBySome(j)'
<1>1. /\ held'[c][j] = held[c][j] + Occurrences(j, s)
      /\ \A b \in Consumers : b # c => held'[b][j] = held[b][j]
  BY DEF Delivered
<1>2. /\ Occurrences(j, s) \in Nat /\ held[c][j] \in Nat
      /\ j \in Range(s) => Occurrences(j, s) > 0
  BY OccurrencesCount, OccursOnce DEF Typed, HeldOK
<1>3. ASSUME HeldBySome(j) PROVE HeldBySome(j)'
  <2>1. PICK b \in Consumers : held[b][j] > 0
    BY <1>3 DEF HeldBySome
  <2>2. held'[b][j] > 0
    <3>1. CASE b = c
      BY <1>1, <1>2, <2>1, <3>1
    <3>2. CASE b # c
      BY <1>1, <2>1, <3>2
    <3> QED
      BY <3>1, <3>2
  <2> QED
    BY <2>2 DEF HeldBySome
<1>4. ASSUME j \in Range(s) PROVE HeldBySome(j)'
  <2>1. held'[c][j] > 0
    BY <1>1, <1>2, <1>4
  <2> QED
    BY <2>1 DEF HeldBySome
<1> QED
  BY <1>3, <1>4

\* The steps of a dequeue, by the only loop there is.
LEMMA DequeuesKeepOwned ==
  ASSUME OwnedInv, OneLoop, SurplusFits, NEW c \in Consumers,
         LoopRing(c) \/ LoopCall(c) \/ LoopSelect(c) \/ LoopFill(c) \/ LoopClaim(c)
  PROVE  OwnedInv'
<1> USE CallerKinds
<1>0. RunnerInv /\ RunnerInv' /\ Typed
  BY DequeuesKeepRunner DEF OwnedInv, RunnerInv
<1>1. /\ RingOK /\ todo \in [Callers -> Seq(Jobs)] /\ arg \in [Consumers \cup Failers -> Nat]
      /\ ClaimIsQueued(c) /\ \A j \in Jobs : Owned(j)
  BY <1>0 DEF Typed, CallsOK, OwnedInv
<1>2. UNCHANGED outcomes
  BY DEF LoopRing, LoopCall, LoopSelect, LoopFill, LoopClaim, runner
<1>3. ASSUME NEW j, OutcomePending(j) PROVE OutcomePending(j)'
  BY <1>2, <1>3, OutcomesRemain
<1>4. ASSUME \A j \in Jobs : Owned(j)', ClaimIsQueued(c)'
      PROVE  OwnedInv'
  <2>1. \A d \in Consumers : d = c
    BY DEF OneLoop
  <2>2. \A d \in Consumers : ClaimIsQueued(d)'
    BY <1>4, <2>1
  <2> QED
    BY <1>0, <1>4, <2>2 DEF OwnedInv
<1>5. CASE LoopRing(c)
  <2>1. PICK n : n = Room(c)
    OBVIOUS
  <2>2. Room(c) > 0 /\ DequeueRing(c, n)
    BY <1>5, <2>1 DEF LoopRing, Dequeuing
  <2>3. n \in Nat
    BY <1>0, <2>1, <2>2, RoomIs
  <2>4. PICK m, s : m = MinOf(n, Size) /\ s = RingFirst(m)
    OBVIOUS
  <2>5. m \in Nat /\ m <= Size
    <3>1. Size \in Nat
      BY <1>1, SizeIs DEF RingOK, Indices
    <3> QED
      BY <2>3, <2>4, <3>1 DEF MinOf
  <2>6. s \in Seq(Jobs) /\ Delivered(c, s)
    BY <1>0, <2>2, <2>3, <2>4, RingDelivers
  <2>7. pc[c] = "idle" /\ UNCHANGED calls
    BY <1>0, <2>2, <2>3, DequeueRingDoes
  <2>8. Len(s) = m
    BY <2>4, <2>5, RingFirstIsAsLong
  <2>9. RingPop(m) /\ Update(Range(s), "processing", 1)
    BY <2>2, <2>4, <2>8 DEF DequeueRing
  <2>10. \A j \in Jobs : Updated(j, j \in Range(s), "processing", 1)
    <3>1. "processing" \in Statuses /\ 1 \in Nat /\ RowsOK
      BY <1>0 DEF Statuses, Typed
    <3> QED
      BY <2>9, <3>1, UpdateTypes
  <2>11. ASSUME NEW j \in Jobs PROVE Owned(j)'
    <3>1. CASE j \in Range(s)
      BY <1>0, <2>6, <3>1, DeliveryIsHeld DEF Owned
    <3>2. CASE j \notin Range(s)
      <4>1. live'[j] = live[j]
        BY <2>10, <3>2 DEF Updated
      <4>2. HeldBySome(j) => HeldBySome(j)'
        BY <1>0, <2>6, DeliveryIsHeld
      <4>3. InRing(j) => InRing(j)'
        BY <1>1, <2>4, <2>5, <2>9, <3>2, PopKeepsJobs
      <4> QED
        BY <1>1, <1>3, <4>1, <4>2, <4>3, OwnedStays
    <3> QED
      BY <3>1, <3>2
  <2>12. ClaimIsQueued(c)'
    BY <2>7 DEF ClaimIsQueued, calls
  <2> QED
    BY <1>4, <2>11, <2>12
<1>6. CASE LoopCall(c) \/ LoopSelect(c)
  <2>1. UNCHANGED <<rows, ring, held>> /\ pc'[c] # "claim"
    <3>1. CASE LoopCall(c)
      <4>1. PICK n : n = Room(c)
        OBVIOUS
      <4>2. Room(c) > 0 /\ DequeueCall(c, n)
        BY <3>1, <4>1 DEF LoopCall, Dequeuing
      <4>3. n \in Nat
        BY <1>0, <4>1, <4>2, RoomIs
      <4>4. UNCHANGED <<rows, ring, held>> /\ Moved(c, "select", <<>>)
        BY <1>0, <4>2, <4>3, DequeueCallDoes
      <4> QED
        BY <4>4 DEF Moved
    <3>2. CASE LoopSelect(c)
      <4>1. DequeueSelect(c)
        BY <3>2 DEF LoopSelect
      <4>2. UNCHANGED <<rows, ring, held>>
        BY <1>0, <4>1, DequeueSelectDoes
      <4>3. PICK s \in Seq(Jobs) : Moved(c, IF s = <<>> THEN "idle" ELSE "fill", s)
        BY <1>0, <4>1, DequeueSelectDoes
      <4>4. pc'[c] = IF s = <<>> THEN "idle" ELSE "fill"
        BY <4>3 DEF Moved
      <4> QED
        BY <4>2, <4>4
    <3> QED
      BY <1>6, <3>1, <3>2
  <2>2. ASSUME NEW j \in Jobs PROVE Owned(j)'
    <3>1. live'[j] = live[j] /\ (InRing(j) => InRing(j)') /\ (HeldBySome(j) => HeldBySome(j)')
      BY <2>1, RingKeepsPlaces, HoldersRemain DEF rows
    <3> QED
      BY <1>1, <1>3, <3>1, OwnedStays
  <2>3. ClaimIsQueued(c)'
    BY <2>1 DEF ClaimIsQueued
  <2> QED
    BY <1>4, <2>2, <2>3
<1>7. CASE LoopFill(c)
  <2>1. DequeueFill(c)
    BY <1>7 DEF LoopFill
  <2>2. PICK s : s = SubSeq(todo[c], arg[c] + 1, Len(todo[c]))
    OBVIOUS
  <2>3. /\ pc[c] = "fill" /\ Moved(c, "claim", todo[c]) /\ UNCHANGED <<rows, held, arg>>
        /\ s \in Seq(Jobs)
    BY <1>0, <2>1, <2>2, DequeueFillDoes
  <2>4. RingPush(s)
    BY <2>1, <2>2 DEF DequeueFill
  <2>5. PICK t, a, l : t = todo[c] /\ a = arg[c] /\ l = Len(todo[c])
    OBVIOUS
  <2>6. t \in Seq(Jobs) /\ a \in Nat /\ l = Len(t) /\ l \in Nat
    BY <1>1, <2>5
  <2>7. /\ Len(s) = IF a + 1 <= l THEN l - a ELSE 0
        /\ \A i \in 1 .. l - a : s[i] = t[a + i]
    <3>1. \A i \in a + 1 .. l : t[i] \in Jobs
      BY <2>6
    <3>2. s = SubSeq(t, a + 1, l)
      BY <2>2, <2>5
    <3>3. /\ a + 1 \in Int /\ l \in Int /\ l - (a + 1) + 1 = l - a
          /\ \A i : (a + 1) + i - 1 = a + i \/ i \notin 1 .. l - a
      BY <2>6
    <3>4. /\ Len(s) = IF a + 1 <= l THEN l - (a + 1) + 1 ELSE 0
          /\ \A i \in 1 .. l - (a + 1) + 1 : s[i] = t[(a + 1) + i - 1]
      BY <3>1, <3>2, <3>3, SubSeqProperties
    <3>5. ASSUME NEW i \in 1 .. l - a PROVE s[i] = t[a + i]
      BY <3>3, <3>4
    <3> QED
      BY <3>3, <3>4, <3>5
  <2>8. Len(s) <= RingSlots - 1 - Size
    <3>1. l - a <= RingSlots - 1 - Size
      BY <2>3, <2>5 DEF SurplusFits
    <3>2. Size \in Indices
      BY <1>1, SizeIs DEF RingOK
    <3>3. 0 <= RingSlots - 1 - Size
      BY <3>2 DEF Indices
    <3> QED
      BY <2>7, <3>1, <3>3
  <2>9. (\A k \in Jobs : InRing(k) => InRing(k)') /\ \A k \in Range(s) : InRing(k)'
    BY <1>1, <2>3, <2>4, <2>8, PushKeepsJobs
  <2>10. ASSUME NEW j \in Jobs PROVE Owned(j)'
    <3>1. live'[j] = live[j] /\ (HeldBySome(j) => HeldBySome(j)')
      BY <2>3, HoldersRemain DEF rows
    <3> QED
      BY <1>1, <1>3, <2>9, <3>1, OwnedStays
  <2>11. ClaimIsQueued(c)'
    <3>1. todo'[c] = t /\ arg'[c] = a
      BY <2>3, <2>5 DEF Moved
    <3>2. ASSUME NEW i \in 1 .. Len(t), i > a
          PROVE  \E m \in Indices : slots'[m] = t[i]
      <4>1. i - a \in 1 .. l - a /\ a + (i - a) = i /\ a + 1 <= l
        BY <2>6, <3>2
      <4>2. s[i - a] = t[i] /\ i - a \in 1 .. Len(s)
        BY <2>7, <4>1
      <4>3. t[i] \in Range(s)
        BY <2>3, <4>2 DEF Range
      <4>4. PICK k : k = t[i]
        OBVIOUS
      <4>5. InRing(k)'
        BY <2>9, <4>3, <4>4
      <4> QED
        BY <4>4, <4>5 DEF InRing, Indices
    <3> QED
      BY <3>1, <3>2 DEF ClaimIsQueued, InRing, Indices
  <2> QED
    BY <1>4, <2>10, <2>11
<1>8. CASE LoopClaim(c)
  <2>1. DequeueClaim(c)
    BY <1>8 DEF LoopClaim
  <2>2. /\ pc[c] = "claim" /\ Moved(c, "idle", <<>>) /\ UNCHANGED ring
        /\ \A j \in Jobs : Updated(j, j \in Range(todo[c]), "processing", 1)
    BY <1>0, <2>1, DequeueClaimDoes
  <2>3. PICK s \in Seq(Jobs) :
              /\ s = SubSeq(todo[c], 1, MinOf(arg[c], Len(todo[c])))
              /\ (\A i \in 1 .. Len(s) : s[i] = todo[c][i]) /\ Delivered(c, s)
    BY <1>0, <2>1, DequeueClaimDoes
  <2>4. PICK t, a, n : t = todo[c] /\ a = arg[c] /\ n = MinOf(arg[c], Len(todo[c]))
    OBVIOUS
  <2>5. t \in Seq(Jobs) /\ a \in Nat /\ Len(t) \in Nat
    BY <1>1, <2>4
  <2>6. n \in Nat /\ n <= Len(t) /\ (n = a \/ n = Len(t))
    BY <2>4, <2>5 DEF MinOf
  <2>7. Len(s) = n
    <3>1. \A i \in 1 .. n : t[i] \in Jobs
      BY <2>5, <2>6
    <3>2. s = SubSeq(t, 1, n)
      BY <2>3, <2>4
    <3>3. 1 \in Int /\ n \in Int
      BY <2>6
    <3>4. Len(s) = IF 1 <= n THEN n - 1 + 1 ELSE 0
      BY <3>1, <3>2, <3>3, SubSeqProperties
    <3> QED
      BY <2>6, <3>4
  <2>8. ASSUME NEW j \in Jobs PROVE Owned(j)'
    <3>1. CASE j \in Range(t)
      <4>1. PICK i \in 1 .. Len(t) : t[i] = j
        BY <3>1 DEF Range
      <4>2. CASE i <= n
        <5>1. i \in 1 .. Len(s) /\ s[i] = j
          BY <2>3, <2>4, <2>6, <2>7, <4>1, <4>2
        <5>2. j \in Range(s)
          BY <5>1 DEF Range
        <5> QED
          BY <1>0, <2>3, <5>2, DeliveryIsHeld DEF Owned
      <4>3. CASE ~(i <= n)
        <5>1. i > a
          BY <2>5, <2>6, <4>3
        <5>2. InRing(j)
          BY <1>1, <2>2, <2>4, <4>1, <5>1 DEF ClaimIsQueued
        <5>3. InRing(j)'
          BY <2>2, <5>2, RingKeepsPlaces
        <5> QED
          BY <5>3 DEF Owned
      <4> QED
        BY <4>2, <4>3
    <3>2. CASE j \notin Range(t)
      <4>1. live'[j] = live[j]
        BY <2>2, <2>4, <3>2 DEF Updated
      <4>2. (HeldBySome(j) => HeldBySome(j)') /\ (InRing(j) => InRing(j)')
        BY <1>0, <2>2, <2>3, DeliveryIsHeld, RingKeepsPlaces
      <4> QED
        BY <1>1, <1>3, <4>1, <4>2, OwnedStays
    <3> QED
      BY <3>1, <3>2
  <2>9. ClaimIsQueued(c)'
    BY <2>2 DEF ClaimIsQueued, Moved
  <2> QED
    BY <1>4, <2>8, <2>9
<1> QED
  BY <1>5, <1>6, <1>7, <1>8

LEMMA RestKeepsOwned ==
  ASSUME OwnedInv, RunnerInv', \A j \in Jobs : Owned(j)', UNCHANGED <<ring, calls>>
  PROVE  OwnedInv'
<1>1. ASSUME NEW c \in Consumers PROVE ClaimIsQueued(c)'
  <2>1. ClaimIsQueued(c) /\ todo[c] \in Seq(Jobs)
    BY CallerKinds DEF OwnedInv, RunnerInv, Typed, CallsOK
  <2>2. \A k \in Jobs : InRing(k) => InRing(k)'
    BY RingKeepsPlaces
  <2>3. pc'[c] = pc[c] /\ todo'[c] = todo[c] /\ arg'[c] = arg[c]
    BY DEF calls
  <2> QED
    BY <2>1, <2>2, <2>3, ClaimStays
<1> QED
  BY <1>1 DEF OwnedInv

LEMMA IdlersKeepOwned ==
  ASSUME OwnedInv, RunnerInv', UNCHANGED <<vars, outcomes>>
  PROVE  OwnedInv'
<1>1. UNCHANGED <<rows, ring, calls, held>>
  BY DEF vars
<1>2. ASSUME NEW j \in Jobs PROVE Owned(j)'
  <2>1. live'[j] = live[j] /\ (InRing(j) => InRing(j)') /\ (HeldBySome(j) => HeldBySome(j)')
    BY <1>1, RingKeepsPlaces, HoldersRemain DEF rows
  <2>2. OutcomePending(j) => OutcomePending(j)'
    BY OutcomesRemain
  <2> QED
    BY <2>1, <2>2, OwnedStays DEF OwnedInv
<1> QED
  BY <1>1, <1>2, RestKeepsOwned

\* A flush pushes the completions, and whoever flushes owns the failures it took.
LEMMA FlushKeepsOwned ==
  ASSUME OwnedInv, OneLoop, NEW c \in Consumers, NEW by \in Flushers, Flush(c, by)
  PROVE  (\A j \in Jobs : Owned(j)') /\ UNCHANGED <<ring, calls>>
<1>0. Typed /\ RunnerTyped /\ RunnerInv
  BY DEF OwnedInv, RunnerInv
<1>1. /\ Update(Range(completions[c]), "done", 0)
      /\ failing' = [failing EXCEPT ![c][by] = failing[c][by] \o failures[c]]
      /\ UNCHANGED <<ring, calls, held>>
  BY DEF Flush
<1>2. \A j \in Jobs : Updated(j, j \in Range(completions[c]), "done", 0)
  <2>1. "done" \in Statuses /\ 0 \in Nat /\ RowsOK
    BY <1>0 DEF Statuses, Typed
  <2> QED
    BY <1>1, <2>1, UpdateTypes
<1>3. PICK old, took, s : old = failing[c][by] /\ took = failures[c] /\ s = old \o took
  OBVIOUS
<1>4. old \in Seq(Jobs) /\ took \in Seq(Jobs)
  BY <1>0, <1>3 DEF RunnerTyped
<1>5. Range(old) \cup Range(took) \subseteq Range(s)
  BY <1>3, <1>4, RangeOfConcat
<1>6. failing'[c][by] = s /\ \A b \in Flushers : b # by => failing'[c][b] = failing[c][b]
  <2>1. PICK e : e = [failing[c] EXCEPT ![by] = s]
    OBVIOUS
  <2>2. failing' = [failing EXCEPT ![c] = e]
    BY <1>1, <1>3, <2>1
  <2>3. failing'[c] = e
    BY <1>0, <2>2 DEF RunnerTyped
  <2>4. failing[c] \in [Flushers -> Seq(Jobs)]
    BY <1>0 DEF RunnerTyped
  <2>5. e[by] = s /\ \A b \in Flushers : b # by => e[b] = failing[c][b]
    BY <2>1, <2>4
  <2> QED
    BY <2>3, <2>5
<1>7. ASSUME NEW j \in Jobs PROVE Owned(j)'
  <2>1. CASE j \in Range(completions[c])
    <3>1. CASE live[j] # NoRow
      <4>1. live'[j].status = "done"
        <5>1. live'[j] = [status |-> "done", attempts |-> live[j].attempts + 0]
          BY <1>2, <2>1, <3>1 DEF Updated
        <5> QED
          BY <5>1
      <4> QED
        BY <4>1 DEF Owned
    <3>2. CASE live[j] = NoRow
      <4>1. live'[j] = NoRow
        BY <1>2, <3>2 DEF Updated
      <4> QED
        BY <4>1 DEF Owned, NoRow
    <3> QED
      BY <3>1, <3>2
  <2>2. CASE j \notin Range(completions[c])
    <3>1. live'[j] = live[j]
      BY <1>2, <2>2 DEF Updated
    <3>2. (HeldBySome(j) => HeldBySome(j)') /\ (InRing(j) => InRing(j)')
      BY <1>1, RingKeepsPlaces, HoldersRemain
    <3>3. ASSUME OutcomePending(j) PROVE OutcomePending(j)'
      <4>1. \/ j \in Range(failures[c])
            \/ \E b \in Flushers : j \in Range(failing[c][b])
        <5>1. PICK d \in Consumers :
                 \/ j \in Range(completions[d]) \cup Range(failures[d])
                 \/ \E b \in Flushers : j \in Range(failing[d][b])
          BY <3>3 DEF OutcomePending
        <5>2. d = c
          BY DEF OneLoop
        <5> QED
          BY <2>2, <5>1, <5>2
      <4>2. \E b \in Flushers : j \in Range(failing'[c][b])
        <5>1. CASE j \in Range(failures[c])
          BY <1>3, <1>5, <1>6, <5>1
        <5>2. ASSUME NEW b \in Flushers, j \in Range(failing[c][b])
              PROVE  j \in Range(failing'[c][b])
          <6>1. CASE b = by
            BY <1>3, <1>5, <1>6, <5>2, <6>1
          <6>2. CASE b # by
            BY <1>6, <5>2, <6>2
          <6> QED
            BY <6>1, <6>2
        <5> QED
          BY <4>1, <5>1, <5>2
      <4> QED
        BY <4>2 DEF OutcomePending, Range
    <3> QED
      BY <1>0, <3>1, <3>2, <3>3, OwnedStays DEF OwnedInv
  <2> QED
    BY <2>1, <2>2
<1> QED
  BY <1>1, <1>7

LEMMA MovesKeepOwned ==
  ASSUME OwnedInv, OneLoop, NEW c \in Consumers,
         \/ Process(c) \/ LoopFull(c) \/ LoopNone(c) \/ LoopFlushed(c) \/ LoopPoll(c)
         \/ LoopExit(c) \/ LoopDrained(c) \/ LoopEnd(c)
  PROVE  OwnedInv'
<1>0. RunnerInv' /\ "loop" \in Flushers
  BY MovesKeepRunner DEF OwnedInv, Flushers
<1>1. Flush(c, "loop") \/ UNCHANGED <<vars, outcomes>>
  BY DEF Process, LoopFull, LoopNone, LoopFlushed, LoopPoll, LoopExit, LoopDrained, LoopEnd
<1>2. CASE Flush(c, "loop")
  BY <1>0, <1>2, FlushKeepsOwned, RestKeepsOwned
<1>3. CASE UNCHANGED <<vars, outcomes>>
  BY <1>0, <1>3, IdlersKeepOwned
<1> QED
  BY <1>1, <1>2, <1>3

LEMMA OutcomesKeepOwned ==
  ASSUME OwnedInv, OneLoop, NEW c \in Consumers, OutcomeStep(c)
  PROVE  OwnedInv'
<1>0. RunnerInv' /\ RunnerTyped /\ Typed /\ "task" \in Flushers
  BY OutcomesKeepRunner DEF OwnedInv, RunnerInv, Flushers
<1>1. CASE FlushTask(c)
  BY <1>0, <1>1, FlushKeepsOwned, RestKeepsOwned DEF FlushTask
<1>2. ASSUME NEW by \in Flushers, FlushFailure(c, by)
      PROVE  OwnedInv'
  <2>1. /\ failing[c][by] # <<>> /\ Update({Head(failing[c][by])}, "failed", 0)
        /\ failing' = [failing EXCEPT ![c][by] = Tail(failing[c][by])]
        /\ UNCHANGED <<ring, calls, held, completions, failures>>
    BY <1>2 DEF FlushFailure
  <2>2. PICK old, s : old = failing[c][by] /\ s = Tail(old)
    OBVIOUS
  <2>3. old \in Seq(Jobs) /\ old # <<>> /\ Head(old) = old[1]
    BY <1>0, <2>1, <2>2 DEF RunnerTyped
  <2>4. \A j \in Range(old) : j = old[1] \/ j \in Range(s)
    BY <2>2, <2>3, TailOf
  <2>5. \A j \in Jobs : Updated(j, j \in {old[1]}, "failed", 0)
    <3>1. "failed" \in Statuses /\ 0 \in Nat /\ RowsOK
      BY <1>0 DEF Statuses, Typed
    <3>2. Update({old[1]}, "failed", 0)
      BY <2>1, <2>2, <2>3
    <3> QED
      BY <3>1, <3>2, UpdateTypes
  <2>6. failing'[c][by] = s /\ \A b \in Flushers : b # by => failing'[c][b] = failing[c][b]
    <3>1. PICK e : e = [failing[c] EXCEPT ![by] = s]
      OBVIOUS
    <3>2. failing' = [failing EXCEPT ![c] = e]
      BY <2>1, <2>2, <3>1
    <3>3. failing'[c] = e /\ failing[c] \in [Flushers -> Seq(Jobs)]
      BY <1>0, <3>2 DEF RunnerTyped
    <3>4. e[by] = s /\ \A b \in Flushers : b # by => e[b] = failing[c][b]
      BY <3>1, <3>3
    <3> QED
      BY <3>3, <3>4
  <2>7. ASSUME NEW j \in Jobs PROVE Owned(j)'
    <3>1. CASE j = old[1]
      <4>1. live'[j].status = "failed" \/ live'[j] = NoRow
        <5>1. \/ live'[j] = [status |-> "failed", attempts |-> live[j].attempts + 0]
              \/ live'[j] = NoRow
          BY <2>5, <3>1 DEF Updated
        <5> QED
          BY <5>1
      <4> QED
        BY <4>1 DEF Owned, NoRow
    <3>2. CASE j # old[1]
      <4>1. live'[j] = live[j]
        BY <2>5, <3>2 DEF Updated
      <4>2. (HeldBySome(j) => HeldBySome(j)') /\ (InRing(j) => InRing(j)')
        BY <2>1, RingKeepsPlaces, HoldersRemain
      <4>3. ASSUME OutcomePending(j) PROVE OutcomePending(j)'
        <5>1. \/ j \in Range(completions[c]) \cup Range(failures[c])
              \/ \E b \in Flushers : j \in Range(failing[c][b])
          <6>1. PICK d \in Consumers :
                 \/ j \in Range(completions[d]) \cup Range(failures[d])
                 \/ \E b \in Flushers : j \in Range(failing[d][b])
            BY <4>3 DEF OutcomePending
          <6>2. d = c
            BY DEF OneLoop
          <6> QED
            BY <6>1, <6>2
        <5>2. CASE j \in Range(completions[c]) \cup Range(failures[c])
          BY <2>1, <5>2 DEF OutcomePending
        <5>3. ASSUME NEW b \in Flushers, j \in Range(failing[c][b])
              PROVE  j \in Range(failing'[c][b])
          <6>1. CASE b = by
            BY <2>2, <2>4, <2>6, <3>2, <5>3, <6>1
          <6>2. CASE b # by
            BY <2>6, <5>3, <6>2
          <6> QED
            BY <6>1, <6>2
        <5>4. CASE \E b \in Flushers : j \in Range(failing[c][b])
          <6>1. \E b \in Flushers : j \in Range(failing'[c][b])
            BY <5>3, <5>4
          <6> QED
            BY <6>1 DEF OutcomePending, Range
        <5> QED
          BY <5>1, <5>2, <5>4
      <4> QED
        BY <4>1, <4>2, <4>3, OwnedStays DEF OwnedInv
    <3> QED
      BY <3>1, <3>2
  <2> QED
    BY <1>0, <2>1, <2>7, RestKeepsOwned
<1> QED
  BY <1>1, <1>2 DEF OutcomeStep

\* Handlers that end leave the outcomes of their jobs behind.
LEMMA HandlersKeepOwned ==
  ASSUME OwnedInv, NEW c \in Consumers, HandlerEnd(c)
  PROVE  OwnedInv'
<1>0. Typed /\ RunnerTyped /\ RunnerInv /\ RunnerInv'
  BY HandlersKeepRunner DEF OwnedInv, RunnerInv
<1>1. ASSUME NEW b \in 1 .. Len(flight[c]), NEW over \in Seq(Jobs), NEW rest, NEW ok \in BOOLEAN,
             HandlersEnd(c, b, over, rest, ok)
      PROVE  OwnedInv'
  <2>1. /\ held' = [held EXCEPT ![c] = [j \in Jobs |-> held[c][j] - Occurrences(j, over)]]
        /\ UNCHANGED <<rows, ring, calls, failing>>
    BY <1>1 DEF HandlersEnd, Schedule, ScheduleFailure
  <2>2. PICK e : e = [j \in Jobs |-> held[c][j] - Occurrences(j, over)]
    OBVIOUS
  <2>3. held'[c] = e /\ \A d \in Consumers : d # c => held'[d] = held[d]
    BY <1>0, <2>1, <2>2 DEF Typed, HeldOK
  <2>4. PICK done, lost : done = completions[c] /\ lost = failures[c]
    OBVIOUS
  <2>5. done \in Seq(Jobs) /\ lost \in Seq(Jobs)
    BY <1>0, <2>4 DEF RunnerTyped
  <2>6. /\ \A d \in Consumers : d # c => completions'[d] = completions[d] /\ failures'[d] = failures[d]
        /\ \/ completions'[c] = done \o over /\ failures'[c] = lost
           \/ completions'[c] = done /\ failures'[c] = lost \o over
    <3>1. CASE ok
      <4>1. completions' = [completions EXCEPT ![c] = done \o over] /\ failures' = failures
        BY <1>1, <2>4, <3>1 DEF HandlersEnd, Schedule
      <4> QED
        BY <1>0, <2>4, <4>1 DEF RunnerTyped
    <3>2. CASE ~ok
      <4>1. failures' = [failures EXCEPT ![c] = lost \o over] /\ completions' = completions
        BY <1>1, <2>4, <3>2 DEF HandlersEnd, ScheduleFailure
      <4> QED
        BY <1>0, <2>4, <4>1 DEF RunnerTyped
    <3> QED
      BY <3>1, <3>2
  <2>7. Range(done) \cup Range(lost) \cup Range(over) \subseteq Range(completions'[c]) \cup Range(failures'[c])
    BY <2>5, <2>6, RangeOfConcat
  <2>8. ASSUME NEW j \in Jobs PROVE Owned(j)'
    <3>1. OutcomePending(j) => OutcomePending(j)'
      <4>1. SUFFICES ASSUME NEW d \in Consumers,
                            \/ j \in Range(completions[d]) \cup Range(failures[d])
                            \/ \E by \in Flushers : j \in Range(failing[d][by])
                     PROVE  OutcomePending(j)'
        BY DEF OutcomePending
      <4>2. CASE \E by \in Flushers : j \in Range(failing[d][by])
        <5>1. \E by \in Flushers : j \in Range(failing'[d][by])
          BY <2>1, <4>2
        <5> QED
          BY <5>1 DEF OutcomePending, Range
      <4>3. CASE j \in Range(completions[d]) \cup Range(failures[d])
        <5>1. j \in Range(completions'[d]) \cup Range(failures'[d])
          BY <2>4, <2>6, <2>7, <4>3
        <5> QED
          BY <5>1 DEF OutcomePending, Range
      <4> QED
        BY <4>1, <4>2, <4>3
    <3>2. HeldBySome(j) => HeldBySome(j)' \/ OutcomePending(j)'
      <4>1. SUFFICES ASSUME NEW d \in Consumers, held[d][j] > 0
                     PROVE  HeldBySome(j)' \/ OutcomePending(j)'
        BY DEF HeldBySome
      <4>2. CASE d # c
        BY <2>3, <4>1, <4>2 DEF HeldBySome
      <4>3. CASE d = c /\ j \in Range(over)
        <5>1. j \in Range(completions'[c]) \cup Range(failures'[c])
          BY <2>7, <4>3
        <5> QED
          BY <5>1 DEF OutcomePending, Range
      <4>4. CASE d = c /\ j \notin Range(over)
        <5>1. Occurrences(j, over) = 0
          BY <4>4, OccurrencesCount
        <5>2. held[c][j] \in Nat
          BY <1>0 DEF Typed, HeldOK
        <5>3. held'[c][j] = held[c][j] - Occurrences(j, over)
          BY <2>2, <2>3
        <5>4. held'[c][j] > 0
          BY <4>1, <4>4, <5>1, <5>2, <5>3
        <5> QED
          BY <5>4 DEF HeldBySome
      <4> QED
        BY <4>2, <4>3, <4>4
    <3>3. live'[j] = live[j] /\ (InRing(j) => InRing(j)')
      BY <2>1, RingKeepsPlaces DEF rows
    <3> QED
      BY <3>1, <3>2, <3>3, OwnedStays DEF OwnedInv
  <2> QED
    BY <1>0, <2>1, <2>8, RestKeepsOwned
<1>2. PICK b \in 1 .. Len(flight[c]), ok \in BOOLEAN, over \in Seq(Jobs), rest \in Seq(Jobs) :
        HandlersEnd(c, b, over, rest, ok)
  BY <1>0, HandlersOf
<1> QED
  BY <1>1, <1>2

\* A set of jobs in the ring or held is what the property calls busy.
LEMMA OwnedIsBusy ==
  ASSUME NEW j \in Jobs, Owned(j), live[j].status = "processing"
  PROVE  Busy(j) \/ OutcomePending(j)
BY DEF Owned, HeldBySome, InRing, Busy

LEMMA OwnedInvAtFirst ==
  ASSUME RunnerInit
  PROVE  OwnedInv
<1>1. RunnerInv
  BY RunnerInvAtFirst
<1>2. ASSUME NEW j \in Jobs PROVE Owned(j)
  <2>1. live[j] = NoRow \/ live[j] = NewRow
    BY DEF RunnerInit, Init
  <2> QED
    BY <2>1 DEF Owned, NoRow, NewRow
<1>3. ASSUME NEW c \in Consumers PROVE ClaimIsQueued(c)
  <2>1. pc[c] = "idle"
    BY CallerKinds DEF RunnerInit, Init
  <2> QED
    BY <2>1 DEF ClaimIsQueued
<1> QED
  BY <1>1, <1>2, <1>3 DEF OwnedInv

LEMMA OwnedInvKept ==
  ASSUME OwnedInv, OneLoop, SurplusFits, [RunnerNext]_<<vars, runner>>
  PROVE  OwnedInv'
<1>0. RunnerInv'
  BY RunnerInvKept DEF OwnedInv
<1>1. ASSUME NEW c \in Consumers, Process(c) \/ LoopStep(c) \/ OutcomeStep(c) \/ HandlerEnd(c)
      PROVE  OwnedInv'
  BY <1>1, DequeuesKeepOwned, MovesKeepOwned, OutcomesKeepOwned, HandlersKeepOwned DEF LoopStep
<1>2. CASE Stop \/ UNCHANGED <<vars, runner>>
  <2>1. UNCHANGED <<vars, outcomes>>
    BY <1>2 DEF Stop, runner
  <2> QED
    BY <1>0, <2>1, IdlersKeepOwned
<1>3. ASSUME NEW p \in Producers, EnqueueNow(p) \/ ProducerStep(p), UNCHANGED runner
      PROVE  OwnedInv'
  BY <1>3, EnqueuesKeepOwned
<1> QED
  BY <1>1, <1>2, <1>3 DEF RunnerNext

\* With one loop, and a ring that has room for what a dequeue claims beyond its limit, a
\* row that says "processing" always has somebody behind it.  Both hypotheses are needed:
\* a second loop may empty the ring of the surplus of the first before the first has
\* claimed it, and dequeueBatch() drops what does not fit.
THEOREM RunnerDropsNothing == OneLoop /\ RunnerSpec /\ []SurplusFits => []ProcessingIsOwned
<1> SUFFICES ASSUME OneLoop PROVE RunnerSpec /\ []SurplusFits => []ProcessingIsOwned
  OBVIOUS
<1>1. RunnerInit => OwnedInv
  BY OwnedInvAtFirst
<1>2. OwnedInv /\ SurplusFits /\ [RunnerNext]_<<vars, runner>> => OwnedInv'
  BY OwnedInvKept
<1>3. OwnedInv => ProcessingIsOwned
  BY OwnedIsBusy DEF OwnedInv, ProcessingIsOwned
<1> QED
  BY <1>1, <1>2, <1>3, PTL DEF RunnerSpec

-----------------------------------------------------------------------------
(* A loop that drains a backlog *)

\* A dequeue asks for no more than the limit, and selects at most twice what it asked for.
Drains(c) ==
  /\ pc[c] \in {"select", "fill"} => Size = 0 /\ arg[c] <= Limit
  /\ pc[c] = "fill" => Len(todo[c]) <= 2 * arg[c]

LEMMA DrainStays ==
  ASSUME NEW c, Drains(c), UNCHANGED <<ring, calls>>
  PROVE  Drains(c)'
BY DEF Drains, ring, calls, Size

LEMMA SelectIsBounded ==
  ASSUME Typed, NEW c \in Consumers, DequeueSelect(c)
  PROVE  /\ UNCHANGED ring /\ pc[c] = "select" /\ pc'[c] \in {"idle", "fill"}
         /\ pc'[c] = "fill" => arg'[c] = arg[c] /\ Len(todo'[c]) <= 2 * arg[c]
<1> USE CallerKinds
<1>1. PICK found, s :
        /\ found \in SUBSET Jobs /\ s \in Arrangements(found, MinOf(2 * arg[c], Cardinality(found)))
        /\ todo' = [todo EXCEPT ![c] = s]
        /\ pc' = [pc EXCEPT ![c] = IF s = <<>> THEN "idle" ELSE "fill"]
        /\ arg' = [arg EXCEPT ![c] = IF s = <<>> THEN 0 ELSE arg[c]]
        /\ UNCHANGED ring /\ pc[c] = "select"
  <2>1. PICK onDisk, buffered :
          /\ onDisk = {j \in Jobs : stored[j].status = "pending" /\ j \notin waiting}
          /\ buffered = {j \in Jobs : stored[j] = NoRow /\ Shows(j, "pending") /\ j \notin waiting}
    OBVIOUS
  <2>2. PICK D \in SUBSET onDisk :
          \E s \in Arrangements({j \in D : Shows(j, "pending")} \cup buffered,
                         MinOf(2 * arg[c], Cardinality({j \in D : Shows(j, "pending")} \cup buffered))) :
                    /\ todo' = [todo EXCEPT ![c] = s]
                    /\ pc' = [pc EXCEPT ![c] = IF s = <<>> THEN "idle" ELSE "fill"]
                    /\ arg' = [arg EXCEPT ![c] = IF s = <<>> THEN 0 ELSE arg[c]]
    BY <2>1 DEF DequeueSelect
  <2>3. PICK found : found = {j \in D : Shows(j, "pending")} \cup buffered
    OBVIOUS
  <2>4. found \in SUBSET Jobs
    BY <2>1, <2>3
  <2>5. UNCHANGED ring /\ pc[c] = "select"
    BY DEF DequeueSelect
  <2> QED
    BY <2>2, <2>3, <2>4, <2>5
<1>2. PICK a, n : a = arg[c] /\ n = MinOf(2 * arg[c], Cardinality(found))
  OBVIOUS
<1>3. a \in Nat /\ n \in Nat /\ n <= 2 * a
  <2>1. Cardinality(found) \in Nat
    BY <1>1, JobsAreCounted
  <2>2. a \in Nat /\ 2 * a \in Nat
    BY <1>2 DEF Typed, CallsOK
  <2> QED
    BY <1>2, <2>1, <2>2 DEF MinOf
<1>4. Len(s) = n
  <2>1. s \in [1 .. n -> found]
    BY <1>1, <1>2 DEF Arrangements
  <2> QED
    BY <1>3, <2>1
<1>5. todo'[c] = s /\ pc'[c] \in {"idle", "fill"} /\ (s # <<>> => arg'[c] = a)
      /\ (pc'[c] = "fill" => s # <<>>)
  BY <1>1, <1>2 DEF Typed, CallsOK
<1> QED
  BY <1>1, <1>2, <1>3, <1>4, <1>5

\* With nobody who enqueues, the ring is empty from the call of a dequeue to its surplus.
LEMMA DrainsKept ==
  ASSUME RunnerInv, OneLoop, Producers = {}, \A c \in Consumers : Drains(c),
         [RunnerNext]_<<vars, runner>>
  PROVE  \A c \in Consumers : Drains(c)'
<1> USE CallerKinds
<1>0. Typed
  BY DEF RunnerInv
<1>1. ASSUME UNCHANGED <<ring, calls>> PROVE \A c \in Consumers : Drains(c)'
  BY <1>1, DrainStays
<1>2. ASSUME NEW c \in Consumers, Drains(c)' PROVE \A d \in Consumers : Drains(d)'
  <2>1. \A d \in Consumers : d = c
    BY DEF OneLoop
  <2> QED
    BY <1>2, <2>1
<1>3. ASSUME NEW c \in Consumers, LoopStep(c) PROVE \A d \in Consumers : Drains(d)'
  <2>1. CASE LoopRing(c)
    <3>1. PICK n : n = Room(c)
      OBVIOUS
    <3>2. Room(c) > 0 /\ DequeueRing(c, n)
      BY <2>1, <3>1 DEF LoopRing, Dequeuing
    <3>3. n \in Nat
      BY <3>1, <3>2, RoomIs
    <3>4. pc[c] = "idle" /\ UNCHANGED calls
      BY <1>0, <3>2, <3>3, DequeueRingDoes
    <3> QED
      BY <1>2, <3>4 DEF Drains, calls
  <2>2. CASE LoopCall(c)
    <3>1. PICK n : n = Room(c)
      OBVIOUS
    <3>2. Room(c) > 0 /\ DequeueCall(c, n)
      BY <2>2, <3>1 DEF LoopCall, Dequeuing
    <3>3. n \in Nat
      BY <3>1, <3>2, RoomIs
    <3>4. /\ pc' = [pc EXCEPT ![c] = "select"] /\ arg' = [arg EXCEPT ![c] = n]
          /\ Size = 0 /\ UNCHANGED ring
      BY <3>2 DEF DequeueCall
    <3>5. pc'[c] = "select" /\ arg'[c] = n
      BY <1>0, <3>4 DEF Typed, CallsOK
    <3>6. n <= Limit
      <4>1. CASE batchwise[c]
        BY <3>1, <3>2, <4>1, QueueAssumption DEF Room
      <4>2. CASE ~batchwise[c]
        <5>1. n = MinOf(Limit, Concurrency - InFlight(c))
          BY <3>1, <4>2 DEF Room
        <5>2. flight[c] \in Seq(Batch)
          BY DEF RunnerInv, RunnerTyped
        <5>3. InFlight(c) \in Nat
          BY <5>2, BatchesAre, InFlightIsFold
        <5> QED
          BY <5>1, <5>3, QueueAssumption, RunnerAssumption DEF MinOf
      <4> QED
        BY <4>1, <4>2
    <3>7. Size' = 0
      BY <3>4 DEF ring, Size
    <3> QED
      BY <1>2, <3>5, <3>6, <3>7 DEF Drains
  <2>3. CASE LoopSelect(c)
    <3>1. /\ UNCHANGED ring /\ pc[c] = "select" /\ pc'[c] \in {"idle", "fill"}
          /\ pc'[c] = "fill" => arg'[c] = arg[c] /\ Len(todo'[c]) <= 2 * arg[c]
      BY <1>0, <2>3, SelectIsBounded DEF LoopSelect
    <3>2. Size' = 0 /\ arg[c] <= Limit
      BY <3>1 DEF Drains, ring, Size
    <3> QED
      BY <1>2, <3>1, <3>2 DEF Drains
  <2>4. CASE LoopFill(c) \/ LoopClaim(c)
    <3>1. Moved(c, "claim", todo[c]) \/ Moved(c, "idle", <<>>)
      BY <1>0, <2>4, DequeueFillDoes, DequeueClaimDoes DEF LoopFill, LoopClaim
    <3>2. pc'[c] \notin {"select", "fill"}
      BY <3>1 DEF Moved
    <3> QED
      BY <1>2, <3>2 DEF Drains
  <2>5. CASE \/ LoopFull(c) \/ LoopNone(c) \/ LoopFlushed(c) \/ LoopPoll(c)
             \/ LoopExit(c) \/ LoopDrained(c) \/ LoopEnd(c)
    <3>1. UNCHANGED <<ring, calls>>
      BY <2>5 DEF LoopFull, LoopNone, LoopFlushed, LoopPoll, LoopExit, LoopDrained, LoopEnd, Flush, vars
    <3> QED
      BY <1>1, <3>1
  <2> QED
    BY <1>3, <2>1, <2>2, <2>3, <2>4, <2>5 DEF LoopStep
<1>4. ASSUME NEW c \in Consumers, Process(c) \/ OutcomeStep(c) \/ HandlerEnd(c)
      PROVE  \A d \in Consumers : Drains(d)'
  <2>1. CASE Process(c) \/ OutcomeStep(c)
    <3>1. UNCHANGED <<ring, calls>>
      BY <2>1 DEF Process, OutcomeStep, FlushTask, FlushFailure, Flush, vars
    <3> QED
      BY <1>1, <3>1
  <2>2. CASE HandlerEnd(c)
    <3>1. PICK b \in 1 .. Len(flight[c]), ok \in BOOLEAN, over \in Seq(Jobs), rest \in Seq(Jobs) :
            HandlersEnd(c, b, over, rest, ok)
      BY <2>2, HandlersOf
    <3>2. UNCHANGED <<ring, calls>>
      BY <3>1 DEF HandlersEnd
    <3> QED
      BY <1>1, <3>2
  <2> QED
    BY <1>4, <2>1, <2>2
<1>5. CASE Stop \/ UNCHANGED <<vars, runner>>
  <2>1. UNCHANGED <<ring, calls>>
    BY <1>5 DEF Stop, vars
  <2> QED
    BY <1>1, <2>1
<1> QED
  BY <1>3, <1>4, <1>5 DEF RunnerNext

LEMMA DrainsFit ==
  ASSUME RunnerInv, Limit < RingSlots, \A c \in Consumers : Drains(c)
  PROVE  SurplusFits
<1>1. ASSUME NEW c \in Consumers, pc[c] = "fill"
      PROVE  Len(todo[c]) - arg[c] <= RingSlots - 1 - Size
  <2>1. PICK l, a : l = Len(todo[c]) /\ a = arg[c]
    OBVIOUS
  <2>2. Size = 0 /\ a <= Limit /\ l <= 2 * a
    BY <1>1, <2>1 DEF Drains
  <2>3. l \in Nat /\ a \in Nat
    <3>1. todo[c] \in Seq(Jobs) /\ a \in Nat
      BY <2>1, CallerKinds DEF RunnerInv, Typed, CallsOK
    <3> QED
      BY <2>1, <3>1
  <2>4. l - a <= RingSlots - 1
    BY <2>2, <2>3, QueueAssumption
  <2> QED
    BY <2>1, <2>2, <2>4, QueueAssumption
<1> QED
  BY <1>1 DEF SurplusFits

\* One loop that drains a backlog with nobody who enqueues meanwhile drops nothing if the
\* ring holds as many jobs as a call of dequeueBatch() may ask for: what the call selects
\* beyond its limit finds an empty ring.
THEOREM DrainDropsNothing ==
  ASSUME OneLoop, Producers = {}, Limit < RingSlots
  PROVE  RunnerSpec => []ProcessingIsOwned
<1>1. RunnerInit => OwnedInv /\ \A c \in Consumers : Drains(c)
  <2> SUFFICES ASSUME RunnerInit PROVE OwnedInv /\ \A c \in Consumers : Drains(c)
    OBVIOUS
  <2>1. \A c \in Consumers : pc[c] = "idle"
    BY CallerKinds DEF RunnerInit, Init
  <2> QED
    BY <2>1, OwnedInvAtFirst DEF Drains
<1>2. (OwnedInv /\ \A c \in Consumers : Drains(c)) /\ [RunnerNext]_<<vars, runner>>
        => OwnedInv' /\ (\A c \in Consumers : Drains(c))'
  <2> SUFFICES ASSUME OwnedInv, \A c \in Consumers : Drains(c), [RunnerNext]_<<vars, runner>>
               PROVE  OwnedInv' /\ \A c \in Consumers : Drains(c)'
    OBVIOUS
  <2>1. RunnerInv
    BY DEF OwnedInv
  <2>2. SurplusFits
    BY <2>1, DrainsFit
  <2> QED
    BY <2>1, <2>2, DrainsKept, OwnedInvKept
<1>3. OwnedInv => ProcessingIsOwned
  BY OwnedIsBusy DEF OwnedInv, ProcessingIsOwned
<1> QED
  BY <1>1, <1>2, <1>3, PTL DEF RunnerSpec
=============================================================================
