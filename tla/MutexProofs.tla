---------------------------- MODULE MutexProofs -----------------------------
(***************************************************************************)
(* Theorems about Mutex, for every set of callers.                         *)
(***************************************************************************)
EXTENDS Mutex, SequenceTheorems, TLAPS

\* What a removal at i leaves of a sequence.
LEMMA RemoveAtFacts ==
  ASSUME NEW S, NEW s \in Seq(S), NEW i \in 1 .. Len(s)
  PROVE  /\ RemoveAt(s, i) \in Seq(S)
         /\ Len(RemoveAt(s, i)) = Len(s) - 1
         /\ \A j \in 1 .. Len(s) - 1 :
              RemoveAt(s, i)[j] = IF j < i THEN s[j] ELSE s[j + 1]
<1> DEFINE l == SubSeq(s, 1, i - 1)
           r == SubSeq(s, i + 1, Len(s))
<1>1. /\ l \in Seq(S) /\ Len(l) = i - 1
      /\ \A j \in 1 .. i - 1 : l[j] = s[j]
  <2>1. \A j \in 1 .. i - 1 : s[j] \in S
    OBVIOUS
  <2>2. /\ 1 \in Int /\ i - 1 \in Int /\ (i - 1) - 1 + 1 = i - 1
        /\ \A j \in 1 .. i - 1 : 1 + j - 1 = j
    OBVIOUS
  <2> QED
    BY <2>1, <2>2, SubSeqProperties
<1>2. /\ r \in Seq(S) /\ Len(r) = Len(s) - i
      /\ \A j \in 1 .. Len(s) - i : r[j] = s[i + j]
  <2>1. i + 1 \in Int /\ Len(s) \in Int /\ \A j \in i + 1 .. Len(s) : s[j] \in S
    OBVIOUS
  <2>2. /\ r \in Seq(S)
        /\ Len(r) = IF i + 1 <= Len(s) THEN Len(s) - (i + 1) + 1 ELSE 0
        /\ \A j \in 1 .. Len(s) - (i + 1) + 1 : r[j] = s[(i + 1) + j - 1]
    BY <2>1, SubSeqProperties
  <2>3. \A j \in 1 .. Len(s) - i : (i + 1) + j - 1 = i + j
    OBVIOUS
  <2> HIDE DEF r
  <2> QED
    BY <2>2, <2>3
<1>3. RemoveAt(s, i) = l \o r
  BY DEF RemoveAt
<1>4. /\ l \o r \in Seq(S)
      /\ Len(l \o r) = Len(l) + Len(r)
      /\ \A j \in 1 .. Len(l) + Len(r) :
           (l \o r)[j] = IF j <= Len(l) THEN l[j] ELSE r[j - Len(l)]
  <2> HIDE DEF l, r
  <2> QED
    BY <1>1, <1>2, ConcatProperties
<1> HIDE DEF l, r
<1> QED
  BY <1>1, <1>2, <1>3, <1>4

\* The inductive invariant.  MutualExclusion alone does not survive a release: a
\* hand-off is safe because the queue holds exactly the waiters, each once, and a
\* fast-path acquire is safe because "locked" is raised while anybody holds; nobody
\* waits for a lock that nobody holds.
IInv ==
  /\ TypeOK
  /\ MutualExclusion
  /\ QueueIsWaiters
  /\ NoLostWakeup
  /\ locked <=> \E p \in Callers : status[p] = "holding"

\* A new Mutex, with nobody in the queue, meets the invariant.
THEOREM InitInvariant == Init => IInv
<1> SUFFICES ASSUME Init PROVE IInv
  OBVIOUS
<1>1. queue \in Seq(Callers) /\ Len(queue) = 0
  BY DEF Init
<1>2. \A p \in Callers : status[p] = "out"
  BY DEF Init
<1>3. TypeOK
  BY <1>1 DEF Init, TypeOK
<1>4. MutualExclusion /\ ~ \E p \in Callers : status[p] = "holding"
  BY <1>2 DEF MutualExclusion
<1>5. QueueIsWaiters /\ NoLostWakeup
  BY <1>1, <1>2 DEF QueueIsWaiters, NoLostWakeup
<1> QED
  BY <1>3, <1>4, <1>5 DEF Init, IInv

\* No acquire, hand-off, release or timeout of Mutex.ts breaks the invariant.
THEOREM StepInvariant == IInv /\ [Next]_vars => IInv'
<1> SUFFICES ASSUME IInv, [Next]_vars PROVE IInv'
  OBVIOUS
<1> USE DEF IInv, TypeOK, MutualExclusion, QueueIsWaiters, NoLostWakeup
<1>1. ASSUME NEW p \in Callers, AcquireFree(p) PROVE IInv'
  BY <1>1 DEF AcquireFree
<1>2. ASSUME NEW p \in Callers, AcquireQueued(p) PROVE IInv'
  <2>1. /\ queue' \in Seq(Callers) /\ Len(queue') = Len(queue) + 1
        /\ queue'[Len(queue) + 1] = p
        /\ \A j \in 1 .. Len(queue) : queue'[j] = queue[j]
    BY <1>2, AppendProperties DEF AcquireQueued
  <2>2. \A j \in 1 .. Len(queue) : queue[j] # p
    BY <1>2 DEF AcquireQueued
  <2> QED
    BY <1>2, <2>1, <2>2 DEF AcquireQueued
<1>3. ASSUME NEW p \in Callers, HandOff(p) PROVE IInv'
  <2> DEFINE h == Head(queue)
  <2>1. /\ h = queue[1] /\ h \in Callers /\ Len(queue) >= 1
        /\ queue' \in Seq(Callers) /\ Len(queue') = Len(queue) - 1
        /\ \A j \in 1 .. Len(queue') : queue'[j] = queue[j + 1]
    BY <1>3, HeadTailProperties DEF HandOff
  <2>2. status[h] = "waiting"
    BY <2>1
  <2>3. status' = [status EXCEPT ![p] = "out", ![h] = "holding"] /\ locked' = locked
    BY <1>3 DEF HandOff
  <2>4. status[p] = "holding" /\ \A q \in Callers : status[q] = "holding" => q = p
    BY <1>3 DEF HandOff
  <2> HIDE DEF h
  <2>5. \A q \in Callers : status'[q] = "holding" <=> q = h
    BY <2>1, <2>2, <2>3, <2>4
  <2>6. \A q \in Callers : status'[q] = "waiting" <=> status[q] = "waiting" /\ q # h
    BY <2>1, <2>2, <2>3, <2>4
  <2>7. TypeOK'
    BY <2>1, <2>3
  <2>8. QueueIsWaiters'
    <3>1. ASSUME NEW q \in Callers, status'[q] = "waiting"
          PROVE  \E j \in 1 .. Len(queue') : queue'[j] = q
      <4>1. PICK k \in 1 .. Len(queue) : queue[k] = q
        BY <2>6, <3>1
      <4>2. k # 1
        BY <2>1, <2>6, <3>1, <4>1
      <4>3. k - 1 \in 1 .. Len(queue') /\ (k - 1) + 1 = k
        BY <2>1, <4>2
      <4> QED
        BY <2>1, <4>1, <4>3
    <3>2. ASSUME NEW q \in Callers, NEW j \in 1 .. Len(queue'), queue'[j] = q
          PROVE  status'[q] = "waiting"
      BY <2>1, <2>6, <3>2
    <3>3. \A j, k \in 1 .. Len(queue') : queue'[j] = queue'[k] => j = k
      BY <2>1
    <3> QED
      BY <3>1, <3>2, <3>3
  <2> QED
    <3>1. locked' /\ h \in Callers
      BY <2>1, <2>3, <2>4
    <3>2. MutualExclusion' /\ \E q \in Callers : status'[q] = "holding"
      BY <2>5, <3>1
    <3> QED
      BY <2>7, <2>8, <3>1, <3>2
<1>4. ASSUME NEW p \in Callers, Free(p) PROVE IInv'
  <2>1. /\ queue = <<>> /\ queue' = queue /\ Len(queue) = 0 /\ locked' = FALSE
        /\ status' = [status EXCEPT ![p] = "out"]
    BY <1>4 DEF Free
  <2>2. \A q \in Callers : status'[q] = "out"
    BY <1>4, <2>1 DEF Free
  <2>3. TypeOK' /\ MutualExclusion' /\ NoLostWakeup'
    BY <2>1, <2>2
  <2>4. Len(queue') = 0
    BY <2>1
  <2>5. QueueIsWaiters'
    BY <2>2, <2>4
  <2>6. locked' <=> \E q \in Callers : status'[q] = "holding"
    BY <2>1, <2>2
  <2> QED
    BY <2>3, <2>5, <2>6
<1>5. ASSUME NEW p \in Callers, Timeout(p) PROVE IInv'
  <2>1. PICK i \in 1 .. Len(queue) :
          /\ queue[i] = p
          /\ queue' = RemoveAt(queue, i)
          /\ status' = [status EXCEPT ![p] = "out"]
          /\ UNCHANGED locked
    BY <1>5 DEF Timeout
  <2>2. queue \in Seq(Callers) /\ status \in [Callers -> {"out", "waiting", "holding"}]
    OBVIOUS
  <2>3. /\ \A q \in Callers : status[q] = "waiting" <=> \E j \in 1 .. Len(queue) : queue[j] = q
        /\ \A j, k \in 1 .. Len(queue) : queue[j] = queue[k] => j = k
    OBVIOUS
  <2>4. status[p] = "waiting"
    BY <2>1
  <2>5. TypeOK /\ MutualExclusion /\ NoLostWakeup /\ IInv
    OBVIOUS
  <2> HIDE DEF IInv, TypeOK, MutualExclusion, QueueIsWaiters, NoLostWakeup
  <2>6. /\ queue' \in Seq(Callers)
        /\ Len(queue') = Len(queue) - 1
        /\ \A j \in 1 .. Len(queue) - 1 :
             queue'[j] = IF j < i THEN queue[j] ELSE queue[j + 1]
    BY <2>1, <2>2, RemoveAtFacts
  <2>7. Len(queue) \in Nat
    BY <2>2
  <2>8. \A q \in Callers : status'[q] = "waiting" <=> status[q] = "waiting" /\ q # p
    BY <2>1, <2>2, <2>4
  <2>9. ASSUME NEW q \in Callers, status'[q] = "waiting"
        PROVE  \E j \in 1 .. Len(queue') : queue'[j] = q
    <3>1. PICK k \in 1 .. Len(queue) : queue[k] = q /\ k # i
      BY <2>1, <2>3, <2>8, <2>9
    <3>2. CASE k < i
      <4>1. k \in 1 .. Len(queue') /\ queue'[k] = q
        BY <2>6, <2>7, <3>1, <3>2
      <4> QED
        BY <4>1
    <3>3. CASE k > i
      <4>1. k - 1 \in 1 .. Len(queue') /\ ~(k - 1 < i) /\ (k - 1) + 1 = k
        BY <2>6, <2>7, <3>3
      <4>2. queue'[k - 1] = q
        BY <2>6, <3>1, <4>1
      <4> QED
        BY <4>1, <4>2
    <3> QED
      BY <2>7, <3>1, <3>2, <3>3
  <2>10. ASSUME NEW q \in Callers, NEW j \in 1 .. Len(queue'), queue'[j] = q
         PROVE  status'[q] = "waiting"
    <3>1. PICK k \in 1 .. Len(queue) : k # i /\ queue[k] = q
      BY <2>6, <2>7, <2>10
    <3> QED
      BY <2>1, <2>3, <2>8, <3>1
  <2>11. \A j, k \in 1 .. Len(queue') : queue'[j] = queue'[k] => j = k
    <3> SUFFICES ASSUME NEW j \in 1 .. Len(queue'), NEW k \in 1 .. Len(queue'),
                        queue'[j] = queue'[k]
                 PROVE  j = k
      OBVIOUS
    <3> QED
      BY <2>3, <2>6, <2>7
  <2>12. QueueIsWaiters'
    BY <2>9, <2>10, <2>11 DEF QueueIsWaiters
  <2>13. TypeOK'
    BY <2>1, <2>2, <2>5, <2>6 DEF TypeOK
  <2>14. MutualExclusion' /\ NoLostWakeup'
    BY <2>1, <2>2, <2>4, <2>5 DEF MutualExclusion, NoLostWakeup
  <2>15. locked' <=> \E q \in Callers : status'[q] = "holding"
    BY <2>1, <2>2, <2>4, <2>5 DEF IInv
  <2> QED
    BY <2>12, <2>13, <2>14, <2>15 DEF IInv
<1>6. CASE UNCHANGED vars
  BY <1>6 DEF vars
<1> QED
  BY <1>1, <1>2, <1>3, <1>4, <1>5, <1>6 DEF Next, Acquire, Release

\* At most one caller is ever inside a section the mutex guards, whatever the number
\* of callers, hand-offs and timeouts.
THEOREM MutexIsExclusive == Spec => []MutualExclusion
<1>1. IInv => MutualExclusion
  BY DEF IInv
<1> QED
  BY <1>1, InitInvariant, StepInvariant, PTL DEF Spec

\* While somebody waits, somebody holds the lock: no release forgets a waiter.
THEOREM MutexLosesNoWakeup == Spec => []NoLostWakeup
<1>1. IInv => NoLostWakeup
  BY DEF IInv
<1> QED
  BY <1>1, InitInvariant, StepInvariant, PTL DEF Spec

\* Who gets the lock while p waits was itself waiting, ahead of p.
LEMMA GrantsFromTheFront ==
  ASSUME IInv, Next, NEW p \in Callers, NEW q \in Callers,
         status[p] = "waiting", status'[p] = "waiting",
         status[q] # "holding", status'[q] = "holding"
  PROVE  status[q] = "waiting" /\ Ahead(q, p)
<1>1. PICK r \in Callers : Acquire(r) \/ Release(r) \/ Timeout(r)
  BY DEF Next
<1>2. status \in [Callers -> {"out", "waiting", "holding"}] /\ queue \in Seq(Callers)
  BY DEF IInv, TypeOK
<1>3. CASE AcquireFree(r)
  <2>1. ~ \E o \in Callers : status[o] = "holding"
    BY <1>3 DEF AcquireFree, IInv
  <2> QED
    BY <2>1 DEF IInv, NoLostWakeup
<1>4. CASE AcquireQueued(r) \/ Free(r) \/ Timeout(r)
  BY <1>2, <1>4 DEF AcquireQueued, Free, Timeout
<1>5. CASE HandOff(r)
  <2>1. q = Head(queue) /\ p # q
    BY <1>2, <1>5 DEF HandOff
  <2>2. PICK j \in 1 .. Len(queue) : queue[j] = p
    BY DEF IInv, QueueIsWaiters
  <2>3. Len(queue) >= 1 /\ queue[1] = q
    BY <1>2, <2>1, <2>2
  <2>4. 1 \in 1 .. Len(queue) /\ 1 < j
    BY <2>1, <2>2, <2>3
  <2>5. status[q] = "waiting"
    BY <2>2, <2>3, <2>4 DEF IInv, QueueIsWaiters
  <2> QED
    BY <2>2, <2>3, <2>4, <2>5 DEF Ahead
<1> QED
  BY <1>1, <1>3, <1>4, <1>5 DEF Acquire, Release

\* Nobody gets in front of p while p waits: an acquire appends, a hand-off takes the
\* head and a timeout removes one place, which keep the order of the others.
LEMMA OrderIsKept ==
  ASSUME IInv, Next, NEW p \in Callers, NEW q \in Callers,
         status[p] = "waiting", status'[p] = "waiting", Ahead(q, p)'
  PROVE  Ahead(q, p)
<1>1. PICK r \in Callers : Acquire(r) \/ Release(r) \/ Timeout(r)
  BY DEF Next
<1>2. queue \in Seq(Callers) /\ Len(queue) \in Nat
  BY DEF IInv, TypeOK
<1>3. PICK i \in 1 .. Len(queue'), j \in 1 .. Len(queue') :
        i < j /\ queue'[i] = q /\ queue'[j] = p
  BY DEF Ahead
<1>4. CASE AcquireFree(r) \/ Free(r)
  BY <1>3, <1>4 DEF AcquireFree, Free, Ahead
<1>5. CASE AcquireQueued(r)
  <2>1. /\ Len(queue') = Len(queue) + 1 /\ queue'[Len(queue) + 1] = r
        /\ \A k \in 1 .. Len(queue) : queue'[k] = queue[k]
    BY <1>2, <1>5, AppendProperties DEF AcquireQueued
  <2>2. p # r
    BY <1>5 DEF AcquireQueued
  <2>3. i \in 1 .. Len(queue) /\ j \in 1 .. Len(queue)
    BY <1>2, <1>3, <2>1, <2>2
  <2> QED
    BY <1>3, <2>1, <2>3 DEF Ahead
<1>6. CASE HandOff(r)
  <2>1. /\ Len(queue') = Len(queue) - 1
        /\ \A k \in 1 .. Len(queue') : queue'[k] = queue[k + 1]
    BY <1>2, <1>6, HeadTailProperties DEF HandOff
  <2>2. i + 1 \in 1 .. Len(queue) /\ j + 1 \in 1 .. Len(queue) /\ i + 1 < j + 1
    BY <1>2, <1>3, <2>1
  <2>3. queue[i + 1] = q /\ queue[j + 1] = p
    BY <1>3, <2>1
  <2> QED
    BY <2>2, <2>3 DEF Ahead
<1>7. CASE Timeout(r)
  <2>1. PICK n \in 1 .. Len(queue) : queue' = RemoveAt(queue, n)
    BY <1>7 DEF Timeout
  <2>2. /\ Len(queue') = Len(queue) - 1
        /\ \A k \in 1 .. Len(queue) - 1 :
             queue'[k] = IF k < n THEN queue[k] ELSE queue[k + 1]
    BY <1>2, <2>1, RemoveAtFacts
  <2> DEFINE At(k) == IF k < n THEN k ELSE k + 1
  <2>3. At(i) \in 1 .. Len(queue) /\ At(j) \in 1 .. Len(queue) /\ At(i) < At(j)
    BY <1>2, <1>3, <2>2
  <2>4. queue[At(i)] = q /\ queue[At(j)] = p
    BY <1>2, <1>3, <2>2
  <2> HIDE DEF At
  <2> QED
    BY <2>3, <2>4 DEF Ahead
<1> QED
  BY <1>1, <1>4, <1>5, <1>6, <1>7 DEF Acquire, Release

\* Queued callers are served in the order of the queue, and the queue keeps its order:
\* nobody overtakes a waiter, for every set of callers.
THEOREM MutexIsFair == Spec => NoOvertaking
<1> DEFINE Waits(p) == status[p] = "waiting" /\ status'[p] = "waiting"
           Fair == \A p, q \in Callers :
                     Waits(p) =>
                       /\ status[q] # "holding" /\ status'[q] = "holding" =>
                            status[q] = "waiting" /\ Ahead(q, p)
                       /\ Ahead(q, p)' => Ahead(q, p)
<1>1. IInv /\ Next => Fair
  BY GrantsFromTheFront, OrderIsKept
<1>2. IInv /\ [Next]_vars => [Fair]_vars
  BY <1>1
<1> QED
  BY <1>2, InitInvariant, StepInvariant, PTL DEF Spec, NoOvertaking
=============================================================================
