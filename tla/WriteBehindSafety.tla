------------------------- MODULE WriteBehindSafety --------------------------
(***************************************************************************)
(* What the readers and writers of WriteBehind rely on, for all shards,    *)
(* tables, operations and activations, and every bound on buffers and      *)
(* faults: bounded buffers, reads that see every accepted write, commits   *)
(* that are durable as a whole and read as a whole.                        *)
(***************************************************************************)
EXTENDS WriteBehindProofs, FiniteSetTheorems

LEMMA Kinds ==
  /\ Workers \subseteq Procs /\ Readers \subseteq Procs /\ Flushers \subseteq Procs
  /\ Reapers \subseteq Procs /\ Timers \subseteq Flushers /\ Stoppers \subseteq Flushers
  BY DEF Procs, Flushers

-----------------------------------------------------------------------------
(* Backpressure *)

Stalled(s) ==
  {w \in Workers : pc[w] \in {"stalled", "commitStalled"} /\ work[w].stalledOn = s}

\* The inductive invariant: who pushed a buffer past its limit waits for room in it.
Overshoot == \A s \in Shards : activeSize[s] <= MaxBuffer + Cardinality(Stalled(s))

LEMMA StalledIsFinite ==
  ASSUME NEW s
  PROVE  /\ IsFiniteSet(Stalled(s)) /\ Cardinality(Stalled(s)) \in Nat
         /\ Cardinality(Stalled(s)) <= Cardinality(Workers) /\ Cardinality(Workers) \in Nat
<1>1. Stalled(s) \in SUBSET Workers
  BY DEF Stalled
<1> QED
  BY <1>1, WorkersAssumption, FS_Subset, FS_CardinalityType

LEMMA StalledIsFiniteNext ==
  ASSUME NEW s
  PROVE  IsFiniteSet(Stalled(s)') /\ Cardinality(Stalled(s)') \in Nat
<1>1. Stalled(s)' \in SUBSET Workers
  BY DEF Stalled
<1> QED
  BY <1>1, WorkersAssumption, FS_Subset, FS_CardinalityType

\* Nobody stops waiting, and no buffer grows.
LEMMA OvershootStays ==
  ASSUME TypeInv, Overshoot,
         \A w \in Workers : pc[w] \in {"stalled", "commitStalled"} =>
                              pc'[w] = pc[w] /\ work'[w].stalledOn = work[w].stalledOn,
         \A s \in Shards : activeSize'[s] \in Nat /\ activeSize'[s] <= activeSize[s]
  PROVE  Overshoot'
<1> SUFFICES ASSUME NEW s \in Shards
             PROVE  activeSize'[s] <= MaxBuffer + Cardinality(Stalled(s)')
  BY DEF Overshoot
<1>1. Stalled(s) \in SUBSET Stalled(s)'
  BY DEF Stalled
<1>2. Cardinality(Stalled(s)) <= Cardinality(Stalled(s)')
  BY <1>1, StalledIsFiniteNext, FS_Subset
<1>3. activeSize[s] <= MaxBuffer + Cardinality(Stalled(s)) /\ activeSize[s] \in Nat
  BY DEF Overshoot, TypeInv, StoreOK
<1> QED
  BY <1>2, <1>3, StalledIsFinite, StalledIsFiniteNext, BoundsAssumption

\* A push past the limit makes its caller wait.
LEMMA OvershootPush ==
  ASSUME TypeInv, Overshoot, NEW w \in Workers, NEW op \in Ops, NEW l \in Work,
         NEW next, NEW stall \in {"stalled", "commitStalled"},
         pc[w] \notin {"stalled", "commitStalled"}, next \notin {"stalled", "commitStalled"},
         AppendActive(op), AwaitRoom(w, op, l, next, stall)
  PROVE  Overshoot'
<1> SUFFICES ASSUME NEW s \in Shards
             PROVE  activeSize'[s] <= MaxBuffer + Cardinality(Stalled(s)')
  BY DEF Overshoot
<1> DEFINE c == ShardOf[op]
<1>1. c \in Shards /\ w \in Procs /\ MaxBuffer \in Nat
  BY OpsAssumption, BoundsAssumption, Kinds
<1>2. /\ activeSize' = [activeSize EXCEPT ![c] = @ + 1] /\ activeSize \in [Shards -> Nat]
      /\ activeSize[s] <= MaxBuffer + Cardinality(Stalled(s))
  BY DEF AppendActive, Overshoot, TypeInv, StoreOK
<1>3. CASE activeSize'[c] > MaxBuffer
  <2>1. /\ pc' = [pc EXCEPT ![w] = stall]
        /\ work' = [work EXCEPT ![w] = [l EXCEPT !.stalledOn = c]]
    BY <1>3 DEF AwaitRoom, Overloaded
  <2>2. /\ pc'[w] = stall /\ work'[w].stalledOn = c
        /\ \A v \in Workers : v # w => pc'[v] = pc[v] /\ work'[v] = work[v]
    BY <1>1, <2>1, Kinds DEF TypeInv, LocalsOK, Work
  <2>3. CASE s = c
    <3>1. Stalled(s)' = Stalled(s) \cup {w} /\ w \notin Stalled(s)
      BY <2>2, <2>3 DEF Stalled
    <3>2. Cardinality(Stalled(s)') = Cardinality(Stalled(s)) + 1
      BY <3>1, StalledIsFinite, FS_AddElement
    <3> QED
      BY <1>1, <1>2, <2>3, <3>2, StalledIsFinite
  <2>4. CASE s # c
    <3>1. Stalled(s)' = Stalled(s)
      BY <2>2, <2>4 DEF Stalled
    <3> QED
      BY <1>1, <1>2, <2>4, <3>1
  <2> QED
    BY <2>3, <2>4
<1>4. CASE ~(activeSize'[c] > MaxBuffer)
  <2>1. pc' = [pc EXCEPT ![w] = next] /\ work' = [work EXCEPT ![w] = l]
    BY <1>4 DEF AwaitRoom, Overloaded
  <2>2. Stalled(s)' = Stalled(s)
    BY <1>1, <2>1, Kinds DEF Stalled, TypeInv, LocalsOK
  <2>3. CASE s = c
    BY <1>1, <1>2, <1>4, <2>2, <2>3, StalledIsFinite
  <2>4. CASE s # c
    BY <1>1, <1>2, <2>2, <2>4
  <2> QED
    BY <2>3, <2>4
<1> QED
  BY <1>3, <1>4

\* Who resumes has found room.
LEMMA OvershootResume ==
  ASSUME TypeInv, Overshoot, NEW w \in Workers, Resume(w)
  PROVE  Overshoot'
<1> SUFFICES ASSUME NEW s \in Shards
             PROVE  activeSize'[s] <= MaxBuffer + Cardinality(Stalled(s)')
  BY DEF Overshoot
<1>1. activeSize' = activeSize /\ activeSize[s] \in Nat /\ MaxBuffer \in Nat
  BY BoundsAssumption DEF Resume, buffers, TypeInv, StoreOK
<1>2. CASE work[w].stalledOn = s
  BY <1>1, <1>2, StalledIsFiniteNext DEF Resume, Overloaded
<1>3. CASE work[w].stalledOn # s
  <2>1. \A v \in Workers : v # w => pc'[v] = pc[v] /\ work'[v] = work[v]
    BY Kinds DEF Resume, TypeInv, LocalsOK
  <2>2. w \notin Stalled(s) /\ w \notin Stalled(s)'
    BY <1>3, Kinds DEF Stalled, Resume, TypeInv, LocalsOK
  <2>3. Stalled(s)' = Stalled(s)
    BY <2>1, <2>2 DEF Stalled
  <2> QED
    BY <1>1, <2>3 DEF Overshoot
<1> QED
  BY <1>2, <1>3

LEMMA OvershootStep == TypeInv /\ TypeInv' /\ Overshoot /\ [Next]_vars => Overshoot'
<1> SUFFICES ASSUME TypeInv, TypeInv', Overshoot, [Next]_vars PROVE Overshoot'
  OBVIOUS
<1>w. /\ pc \in [Procs -> PCs] /\ work \in [Workers -> Work] /\ activeSize \in [Shards -> Nat]
      /\ activeSize' \in [Shards -> Nat]
  BY DEF TypeInv, LocalsOK, StoreOK
<1> USE Kinds DEF buffers, agents, locals
<1>1. ASSUME NEW w \in Workers, NEW op \in Ops, Push(w, op) PROVE Overshoot'
  BY <1>1, OvershootPush, Empties DEF Push
<1>2. ASSUME NEW w \in Workers, CommitPush(w) PROVE Overshoot'
  <2>1. work[w].ops \in Seq(Ops) /\ work[w].ops # <<>> /\ work[w] \in Work
    BY <1>w, <1>2 DEF CommitPush, Work
  <2>2. Head(work[w].ops) \in Ops /\ Tail(work[w].ops) \in Seq(Ops)
    BY <2>1, HeadTailProperties
  <2>3. [work[w] EXCEPT !.ops = Tail(@)] \in Work
    BY <2>1, <2>2, WorkUpdates
  <2> QED
    BY <1>2, <2>2, <2>3, OvershootPush DEF CommitPush
<1>3. ASSUME NEW w \in Workers, NEW a \in Agents, NEW op \in Ops, AgentPush(w, a, op)
      PROVE  Overshoot'
  BY <1>w, <1>3, OvershootStays DEF AgentPush, AwaitRoom
<1>4. ASSUME NEW w \in Workers, Resume(w) PROVE Overshoot'
  BY <1>4, OvershootResume
<1>5. ASSUME NEW w \in Workers, NEW a \in Agents, BeginCall(w, a) \/ CommitCall(w, a)
      PROVE  Overshoot'
  BY <1>w, <1>5, OvershootStays DEF BeginCall, CommitCall
<1>6. ASSUME NEW w \in Workers, BeginWork(w) \/ CommitTake(w) \/ CommitEnd(w)
      PROVE  Overshoot'
  BY <1>w, <1>6, OvershootStays DEF BeginWork, CommitTake, CommitEnd
<1>7. ASSUME NEW p \in Procs \ Workers, NEW l, pc' = [pc EXCEPT ![p] = l], work' = work,
             \A s \in Shards : activeSize'[s] <= activeSize[s]
      PROVE  Overshoot'
  BY <1>w, <1>7, OvershootStays
<1>8. ASSUME NEW r \in Readers, NEW c \in Shards, NEW a \in Agents \cup {NoAgent},
             NEW b \in BOOLEAN, ReadCall(r, c, a, b)
      PROVE  Overshoot'
  <2>1. r \in Procs \ Workers
    BY ProcsAssumption
  <2>2. pc' = [pc EXCEPT ![r] = "read"] /\ work' = work /\ activeSize' = activeSize
    BY <1>8 DEF ReadCall
  <2>3. \A s \in Shards : activeSize'[s] <= activeSize[s]
    BY <1>w, <2>2
  <2> QED
    BY <1>7, <2>1, <2>2, <2>3
<1>9. ASSUME NEW r \in Readers, ReadDisk(r) \/ ReadMerge(r) PROVE Overshoot'
  BY <1>w, <1>7, <1>9, ProcsAssumption DEF ReadDisk, ReadMerge
<1>10. ASSUME NEW p \in Reapers, SweepCall(p) \/ Sweep(p) PROVE Overshoot'
  BY <1>w, <1>7, <1>10, ProcsAssumption DEF SweepCall, Sweep
<1>11. ASSUME NEW f \in Flushers, FlushCall(f) \/ StopCall(f) \/ StopEnd(f) \/ FlushEnter(f)
                                  \/ FlushBegin(f) \/ FlushCommit(f) \/ FlushClear(f)
       PROVE  Overshoot'
  BY <1>w, <1>7, <1>11, ProcsAssumption
  DEF FlushCall, StopCall, StopEnd, FlushEnter, FlushBegin, FlushCommit, FlushClear
<1>12. ASSUME NEW f \in Flushers, FlushEnd(f) \/ FlushFail(f) \/ FlushTimeout(f)
       PROVE  Overshoot'
  BY <1>w, <1>7, <1>12, ProcsAssumption DEF FlushEnd, FlushFail, FlushTimeout
<1>13. ASSUME NEW f \in Flushers, FlushSwap(f) PROVE Overshoot'
  <2>1. \A s \in Shards : activeSize'[s] <= activeSize[s]
    BY <1>w, <1>13 DEF FlushSwap, SwapToInFlight
  <2> QED
    BY <1>w, <1>7, <1>13, <2>1, ProcsAssumption DEF FlushSwap
<1>14. ASSUME NEW p \in Procs, StateTimeout(p) PROVE Overshoot'
  <2>1. \A w \in Workers : pc[w] \in {"stalled", "commitStalled"} =>
                             pc'[w] = pc[w] /\ work'[w] = work[w]
    BY <1>w, <1>14 DEF StateTimeout
  <2> QED
    BY <1>w, <1>14, <2>1, OvershootStays DEF StateTimeout
<1>15. CASE Crash
  <2>1. \A s \in Shards : activeSize'[s] = 0
    BY <1>15 DEF Crash
  <2> QED
    BY <2>1, StalledIsFiniteNext, BoundsAssumption DEF Overshoot
<1>16. CASE UNCHANGED vars
  BY <1>w, <1>16, OvershootStays DEF vars
<1> QED
  BY <1>1, <1>2, <1>3, <1>4, <1>5, <1>6, <1>8, <1>9, <1>10, <1>11, <1>12, <1>13, <1>14,
     <1>15, <1>16
  DEF Next, Calls, Steps, Faults, WorkerStep, ReaderStep, FlushStep

\* However many workers push and commit: each overshoots the limit of a buffer by one
\* operation at most.
THEOREM PoolIsBounded == Spec => []BoundedBuffer
<1>1. Init => Overshoot
  BY StalledIsFinite, BoundsAssumption DEF Init, Overshoot
<1>2. Init => TypeInv
  BY TypeInit
<1>3. TypeInv /\ Overshoot => BoundedBuffer
  BY StalledIsFinite, BoundsAssumption DEF Overshoot, BoundedBuffer, TypeInv, StoreOK
<1>4. TypeInv /\ [Next]_vars => TypeInv'
  BY TypeStep
<1> QED
  BY <1>1, <1>2, <1>3, <1>4, OvershootStep, PTL DEF Spec

-----------------------------------------------------------------------------
(* Sets of operations in a buffer *)

LEMMA OpsInConcat ==
  ASSUME NEW a \in [Tables -> Seq(Ops)], NEW b \in [Tables -> Seq(Ops)],
         NEW c, \A t \in Tables : c[t] = a[t] \o b[t]
  PROVE  OpsIn(c) = OpsIn(a) \cup OpsIn(b)
<1>1. \A t \in Tables : Range(c[t]) = Range(a[t]) \cup Range(b[t])
  <2> TAKE t \in Tables
  <2>1. a[t] \in Seq(Ops) /\ b[t] \in Seq(Ops) /\ c[t] = a[t] \o b[t]
    OBVIOUS
  <2> QED
    BY <2>1, RangeConcatenation
<1>2. ASSUME NEW o \in OpsIn(c) PROVE o \in OpsIn(a) \cup OpsIn(b)
  <2>1. PICK t \in Tables : o \in Range(c[t])
    BY <1>2, Zenon DEF OpsIn
  <2>2. o \in Range(a[t]) \/ o \in Range(b[t])
    BY <1>1, <2>1, Zenon
  <2>3. CASE o \in Range(a[t])
    BY <2>3, Zenon DEF OpsIn
  <2>4. CASE o \in Range(b[t])
    BY <2>4, Zenon DEF OpsIn
  <2> QED
    BY <2>2, <2>3, <2>4
<1>3. ASSUME NEW o \in OpsIn(a) \cup OpsIn(b) PROVE o \in OpsIn(c)
  <2>1. PICK t \in Tables : o \in Range(a[t]) \cup Range(b[t])
    BY <1>3, Zenon DEF OpsIn
  <2>2. o \in Range(c[t])
    BY <1>1, <2>1, Zenon
  <2> QED
    BY <2>2, Zenon DEF OpsIn
<1> QED
  BY <1>2, <1>3, Zenon

LEMMA RangeOfAppend ==
  ASSUME NEW q \in Seq(Ops), NEW op \in Ops
  PROVE  Range(Append(q, op)) = Range(q) \cup {op}
<1>1. Append(q, op) = q \o <<op>> /\ <<op>> \in Seq(Ops)
  BY AppendIsConcat
<1>2. Range(q \o <<op>>) = Range(q) \cup Range(<<op>>)
  BY <1>1, RangeConcatenation
<1>3. Range(<<op>>) = {op}
  BY DEF Range
<1> QED
  BY <1>1, <1>2, <1>3

LEMMA RangeOfEmpty == Range(<<>>) = {}
  BY DEF Range

LEMMA NoOpsInNoOps == \A s \in Shards : OpsIn(NoOps[s]) = {}
  BY RangeOfEmpty DEF NoOps, OpsIn

LEMMA RangeOfTail ==
  ASSUME NEW q \in Seq(Ops), q # <<>>
  PROVE  Range(q) = {Head(q)} \cup Range(Tail(q))
<1>1. /\ Len(Tail(q)) = Len(q) - 1 /\ Tail(q) \in Seq(Ops)
      /\ \A i \in 1 .. Len(Tail(q)) : Tail(q)[i] = q[i + 1]
  BY HeadTailProperties
<1>2. Len(q) \in Nat \ {0} /\ Head(q) = q[1]
  BY EmptySeq
<1>3. /\ Range(q) = {q[i] : i \in 1 .. Len(q)}
      /\ Range(Tail(q)) = {Tail(q)[i] : i \in 1 .. Len(Tail(q))}
  BY <1>1, RangeEquality
<1>4. ASSUME NEW o \in Range(q) PROVE o \in {Head(q)} \cup Range(Tail(q))
  <2>1. PICK i \in 1 .. Len(q) : o = q[i]
    BY <1>3
  <2>2. CASE i = 1
    BY <1>2, <2>1, <2>2
  <2>3. CASE i # 1
    <3>1. i - 1 \in 1 .. Len(Tail(q)) /\ (i - 1) + 1 = i
      BY <1>1, <1>2, <2>1, <2>3
    <3> QED
      BY <1>1, <1>3, <2>1, <3>1
  <2> QED
    BY <2>2, <2>3
<1>5. ASSUME NEW o \in Range(Tail(q)) PROVE o \in Range(q)
  <2>1. PICK i \in 1 .. Len(Tail(q)) : o = Tail(q)[i]
    BY <1>3
  <2>2. i + 1 \in 1 .. Len(q) /\ o = q[i + 1]
    BY <1>1, <1>2, <2>1
  <2> QED
    BY <1>3, <2>2
<1>6. Head(q) \in Range(q)
  BY <1>2, <1>3
<1> QED
  BY <1>4, <1>5, <1>6

LEMMA OpsInAppend ==
  ASSUME NEW b \in [Tables -> Seq(Ops)], NEW d \in Tables, NEW op \in Ops
  PROVE  OpsIn([b EXCEPT ![d] = Append(@, op)]) = OpsIn(b) \cup {op}
<1> DEFINE c == [b EXCEPT ![d] = Append(@, op)]
<1>1. Range(Append(b[d], op)) = Range(b[d]) \cup {op}
  BY RangeOfAppend
<1>2. \A t \in Tables : Range(c[t]) = IF t = d THEN Range(b[d]) \cup {op} ELSE Range(b[t])
  BY <1>1
<1> HIDE DEF c
<1>3. ASSUME NEW o \in OpsIn(c) PROVE o \in OpsIn(b) \cup {op}
  <2>1. PICK t \in Tables : o \in Range(c[t])
    BY <1>3, Zenon DEF OpsIn
  <2>2. o \in Range(b[t]) \/ o = op
    BY <1>2, <2>1
  <2>3. CASE o \in Range(b[t])
    <3>1. o \in OpsIn(b)
      BY <2>3, Zenon DEF OpsIn
    <3> QED
      BY <3>1
  <2> QED
    BY <2>2, <2>3
<1>4. ASSUME NEW o \in OpsIn(b) \cup {op} PROVE o \in OpsIn(c)
  <2>1. CASE o \in OpsIn(b)
    <3>1. PICK t \in Tables : o \in Range(b[t])
      BY <2>1, Zenon DEF OpsIn
    <3>2. o \in Range(c[t])
      BY <1>2, <3>1
    <3> QED
      BY <3>2, Zenon DEF OpsIn
  <2>2. CASE o = op
    <3>1. o \in Range(c[d])
      BY <1>2, <2>2
    <3> QED
      BY <3>1, Zenon DEF OpsIn
  <2> QED
    BY <1>4, <2>1, <2>2
<1>5. OpsIn(c) = OpsIn(b) \cup {op}
  <2>1. OpsIn(c) \subseteq OpsIn(b) \cup {op} /\ OpsIn(b) \cup {op} \subseteq OpsIn(c)
    BY <1>3, <1>4
  <2> QED
    BY <2>1
<1> QED
  BY <1>5 DEF c

-----------------------------------------------------------------------------
(* Reads *)

\* The inductive invariant: until a reader has merged its rows, nothing is committed
\* to its shard.
Reading ==
  \A r \in Readers : pc[r] = "merge" =>
    /\ view[r].rows = OpsIn(disk[view[r].shard])
    /\ \A f \in Flushers : pc[f] = "transaction" => current[f] # view[r].shard

LEMMA ReadingStays ==
  ASSUME Reading,
         \A r \in Readers : pc'[r] = "merge" =>
           /\ pc[r] = "merge" /\ view'[r] = view[r]
           /\ OpsIn(disk'[view[r].shard]) = OpsIn(disk[view[r].shard]),
         \A f \in Flushers : pc'[f] = "transaction" =>
           pc[f] = "transaction" /\ current'[f] = current[f]
  PROVE  Reading'
  BY DEF Reading

LEMMA ReadingStep == TypeInv /\ Reading /\ [Next]_vars => Reading'
<1> SUFFICES ASSUME TypeInv, Reading, [Next]_vars PROVE Reading'
  OBVIOUS
<1>w. pc \in [Procs -> PCs] /\ view \in [Readers -> View]
  BY DEF TypeInv, LocalsOK
<1> USE Kinds DEF agents, locals
<1>1. ASSUME NEW p \in Procs, NEW l \in PCs \ {"merge", "transaction"},
             pc' = [pc EXCEPT ![p] = l],
             \A r \in Readers \ {p} : view'[r] = view[r],
             \A f \in Flushers \ {p} : current'[f] = current[f], disk' = disk
      PROVE  Reading'
  BY <1>w, <1>1, ReadingStays
<1>2. ASSUME NEW w \in Workers, NEW op \in Ops, Push(w, op) PROVE Reading'
  <2>1. PICK l \in {"idle", "stalled"} : pc' = [pc EXCEPT ![w] = l]
    BY <1>2 DEF Push, AwaitRoom
  <2> QED
    BY <1>1, <1>2, <2>1 DEF Push, PCs
<1>3. ASSUME NEW w \in Workers, CommitPush(w) PROVE Reading'
  <2>1. PICK l \in {"committing", "commitStalled"} : pc' = [pc EXCEPT ![w] = l]
    BY <1>3 DEF CommitPush, AwaitRoom
  <2> QED
    BY <1>1, <1>3, <2>1 DEF CommitPush, PCs
<1>4. ASSUME NEW w \in Workers, NEW a \in Agents, NEW op \in Ops, AgentPush(w, a, op)
      PROVE  Reading'
  <2>1. PICK l \in {"idle", "stalled"} : pc' = [pc EXCEPT ![w] = l]
    BY <1>4 DEF AgentPush, AwaitRoom
  <2> QED
    BY <1>1, <1>4, <2>1 DEF AgentPush, PCs
<1>5. ASSUME NEW w \in Workers, NEW a \in Agents, BeginCall(w, a) \/ CommitCall(w, a)
      PROVE  Reading'
  BY <1>1, <1>5 DEF BeginCall, CommitCall, PCs
<1>6. ASSUME NEW w \in Workers, BeginWork(w) \/ CommitTake(w) \/ CommitEnd(w) \/ Resume(w)
      PROVE  Reading'
  <2>1. PICK l \in {"idle", "committing"} : pc' = [pc EXCEPT ![w] = l]
    BY <1>6 DEF BeginWork, CommitTake, CommitEnd, Resume
  <2> QED
    BY <1>1, <1>6, <2>1 DEF BeginWork, CommitTake, CommitEnd, Resume, PCs
<1>7. ASSUME NEW r \in Readers, NEW c \in Shards, NEW a \in Agents \cup {NoAgent},
             NEW b \in BOOLEAN, ReadCall(r, c, a, b)
      PROVE  Reading'
  <2>1. \A q \in Readers \ {r} : view'[q] = view[q]
    BY <1>w, <1>7 DEF ReadCall
  <2> QED
    BY <1>1, <1>7, <2>1 DEF ReadCall, PCs
<1>8. ASSUME NEW r \in Readers, ReadDisk(r) PROVE Reading'
  <2>1. /\ view' = [view EXCEPT ![r].rows = OpsIn(disk[view[r].shard])]
        /\ pc' = [pc EXCEPT ![r] = "merge"] /\ disk' = disk /\ current' = current
        /\ ConnectionFree(view[r].shard)
    BY <1>8 DEF ReadDisk
  <2>2. r \notin Flushers
    BY ProcsAssumption
  <2>3. /\ view'[r].rows = OpsIn(disk[view[r].shard]) /\ view'[r].shard = view[r].shard
        /\ \A q \in Readers \ {r} : view'[q] = view[q]
    BY <1>w, <2>1 DEF View
  <2> QED
    BY <1>w, <2>1, <2>2, <2>3 DEF Reading, ConnectionFree
<1>9. ASSUME NEW r \in Readers, ReadMerge(r) PROVE Reading'
  <2>1. \A q \in Readers \ {r} : view'[q] = view[q]
    BY <1>w, <1>9 DEF ReadMerge
  <2> QED
    BY <1>1, <1>9, <2>1 DEF ReadMerge, PCs
<1>10. ASSUME NEW p \in Reapers, SweepCall(p) \/ Sweep(p) PROVE Reading'
  BY <1>1, <1>10 DEF SweepCall, Sweep, PCs
<1>11. ASSUME NEW f \in Flushers, FlushCall(f) \/ StopCall(f) \/ StopEnd(f) \/ FlushEnter(f)
                                  \/ FlushSwap(f)
       PROVE  Reading'
  BY <1>1, <1>11 DEF FlushCall, StopCall, StopEnd, FlushEnter, FlushSwap, PCs
<1>12. ASSUME NEW f \in Flushers, FlushEnd(f) \/ FlushFail(f) \/ FlushTimeout(f)
                                  \/ FlushClear(f)
       PROVE  Reading'
  <2>1. PICK l \in {"idle", "closing", "shards"} : pc' = [pc EXCEPT ![f] = l]
    BY <1>12 DEF FlushEnd, FlushFail, FlushTimeout, FlushClear, AfterFlush
  <2>2. \A g \in Flushers \ {f} : current'[g] = current[g]
    BY <1>12 DEF FlushEnd, FlushFail, FlushTimeout, FlushClear, TypeInv, LocalsOK
  <2> QED
    BY <1>1, <1>12, <2>1, <2>2 DEF FlushEnd, FlushFail, FlushTimeout, FlushClear, PCs
<1>13. ASSUME NEW f \in Flushers, FlushBegin(f) PROVE Reading'
  <2>1. PICK s \in round[f] : ConnectionFree(s) /\ current' = [current EXCEPT ![f] = s]
    BY <1>13 DEF FlushBegin
  <2>2. /\ pc' = [pc EXCEPT ![f] = "transaction"] /\ disk' = disk /\ view' = view
        /\ current'[f] = s /\ \A g \in Flushers \ {f} : current'[g] = current[g]
    BY <1>13, <2>1 DEF FlushBegin, TypeInv, LocalsOK
  <2> QED
    BY <1>w, <2>1, <2>2, ProcsAssumption DEF Reading, ConnectionFree
<1>14. ASSUME NEW f \in Flushers, FlushCommit(f) PROVE Reading'
  <2>1. /\ pc[f] = "transaction" /\ pc' = [pc EXCEPT ![f] = "committed"]
        /\ view' = view /\ current' = current
        /\ \A s \in Shards : s # current[f] => disk'[s] = disk[s]
    BY <1>14 DEF FlushCommit, TypeInv, StoreOK
  <2>2. \A r \in Readers : pc'[r] = "merge" =>
          pc[r] = "merge" /\ view[r].shard \in Shards /\ view[r].shard # current[f]
    BY <1>w, <2>1 DEF Reading, TypeInv, Frames
  <2> QED
    BY <1>w, <2>1, <2>2, ReadingStays
<1>15. ASSUME NEW p \in Procs, StateTimeout(p) PROVE Reading'
  <2>1. PICK l \in {"idle", "closing"} : pc' = [pc EXCEPT ![p] = l]
    BY <1>15 DEF StateTimeout, AfterFlush
  <2>2. \A r \in Readers \ {p} : view'[r] = view[r]
    BY <1>15 DEF StateTimeout
  <2> QED
    BY <1>1, <1>15, <2>1, <2>2 DEF StateTimeout, PCs
<1>16. CASE Crash
  BY <1>16 DEF Crash, Reading
<1>17. CASE UNCHANGED vars
  BY <1>17, ReadingStays DEF vars
<1> QED
  BY <1>2, <1>3, <1>4, <1>5, <1>6, <1>7, <1>8, <1>9, <1>10, <1>11, <1>12, <1>13, <1>14,
     <1>15, <1>16, <1>17
  DEF Next, Calls, Steps, Faults, WorkerStep, ReaderStep, FlushStep

LEMMA ReadingInit == Init => Reading
  BY Kinds DEF Init, Reading

\* What a scan or a status query merges.
LEMMA BufferedOps ==
  ASSUME NEW b, NEW i
  PROVE  OpsIn(b) = Buffered(b, i, FALSE) /\ OpsIn(b) \subseteq Buffered(b, i, TRUE)
<1> DEFINE used == {t \in Tables : b[t] # <<>>}
           listed(t) == {op \in i : TableOf[op] = t}
<1>1. \A t \in Tables : b[t] = <<>> => Range(b[t]) = {}
  BY RangeOfEmpty
<1>2. ASSUME NEW o \in OpsIn(b) PROVE \E t \in used : o \in Range(b[t])
  <2>1. PICK t \in Tables : o \in Range(b[t])
    BY <1>2, Zenon DEF OpsIn
  <2> QED
    BY <1>1, <2>1
<1>3. ASSUME NEW o, NEW t \in used, o \in Range(b[t]) PROVE o \in OpsIn(b)
  BY <1>3, Zenon DEF OpsIn
<1>4. Buffered(b, i, FALSE) = UNION {Range(b[t]) : t \in used}
  BY DEF Buffered
<1>5. Buffered(b, i, TRUE) = UNION {Range(b[t]) \cup listed(t) : t \in used}
  BY DEF Buffered
<1> HIDE DEF used, listed
<1>6. OpsIn(b) = Buffered(b, i, FALSE)
  <2>1. OpsIn(b) \subseteq Buffered(b, i, FALSE)
    BY <1>2, <1>4, Zenon
  <2>2. Buffered(b, i, FALSE) \subseteq OpsIn(b)
    BY <1>3, <1>4, Zenon
  <2> QED
    BY <2>1, <2>2
<1>7. OpsIn(b) \subseteq Buffered(b, i, TRUE)
  <2>1. ASSUME NEW o \in OpsIn(b) PROVE o \in Buffered(b, i, TRUE)
    <3>1. PICK t \in used : o \in Range(b[t])
      BY <1>2
    <3>2. o \in Range(b[t]) \cup listed(t)
      BY <3>1
    <3> QED
      BY <1>5, <3>2, Zenon
  <2> QED
    BY <2>1
<1> QED
  BY <1>6, <1>7

LEMMA MergedOps ==
  ASSUME TypeInv, Reading, NEW r \in Readers, pc[r] = "merge"
  PROVE  /\ view[r].shard \in Shards
         /\ OpsIn(disk[view[r].shard]) \subseteq Merged(r)
         /\ OpsIn(inFlight[view[r].shard]) \subseteq Merged(r)
         /\ OpsIn(active[view[r].shard]) \subseteq Merged(r)
<1>1. view[r].shard \in Shards /\ view[r].byStatus \in BOOLEAN
  BY DEF TypeInv, Frames, LocalsOK, View
<1>2. view[r].rows = OpsIn(disk[view[r].shard])
  BY DEF Reading
<1> DEFINE s == view[r].shard
<1>3. \A buffer, idx : OpsIn(buffer) \subseteq Buffered(buffer, idx, view[r].byStatus)
  <2> TAKE buffer, idx
  <2>1. /\ OpsIn(buffer) = Buffered(buffer, idx, FALSE)
        /\ OpsIn(buffer) \subseteq Buffered(buffer, idx, TRUE)
    BY BufferedOps
  <2>2. CASE view[r].byStatus = TRUE
    BY <2>1, <2>2
  <2>3. CASE view[r].byStatus = FALSE
    BY <2>1, <2>3
  <2> QED
    BY <1>1, <2>2, <2>3
<1>4. view[r].rows \subseteq Merged(r)
  BY Zenon DEF Merged
<1>5. Buffered(inFlight[s], inFlightIndex[s], view[r].byStatus) \subseteq Merged(r)
  BY Zenon DEF Merged
<1>6. Buffered(active[s], index[s], view[r].byStatus) \subseteq Merged(r)
  BY Zenon DEF Merged
<1>7. /\ OpsIn(inFlight[s]) \subseteq Buffered(inFlight[s], inFlightIndex[s], view[r].byStatus)
      /\ OpsIn(active[s]) \subseteq Buffered(active[s], index[s], view[r].byStatus)
  BY <1>3
<1> HIDE DEF s
<1>8. OpsIn(inFlight[s]) \subseteq Merged(r) /\ OpsIn(active[s]) \subseteq Merged(r)
  BY <1>5, <1>6, <1>7, Zenon
<1> QED
  BY <1>1, <1>2, <1>4, <1>8 DEF s

\* For every pool: a read shows every operation its shard accepted before the read
\* merges, unless a failed flush abandoned the shard.
THEOREM PoolReadsItsWrites == Spec => []ReadYourWrites
<1>1. PoolInv /\ [Next]_vars => PoolInv'
  BY ConservedStep, TypeStep, MutexStep DEF PoolInv
<1>2. PoolInv /\ Reading => ReadYourWrites
  <2> SUFFICES ASSUME PoolInv, Reading, NEW r \in Readers, pc[r] = "merge",
                      view[r].shard \notin broken
               PROVE  OpsIn(log[view[r].shard]) \subseteq Merged(r)
    BY DEF ReadYourWrites
  <2> DEFINE s == view[r].shard
  <2>1. /\ s \in Shards /\ OpsIn(disk[s]) \subseteq Merged(r)
        /\ OpsIn(inFlight[s]) \subseteq Merged(r) /\ OpsIn(active[s]) \subseteq Merged(r)
    BY MergedOps DEF PoolInv
  <2> HIDE DEF s
  <2>2. /\ disk[s] \in [Tables -> Seq(Ops)] /\ active[s] \in [Tables -> Seq(Ops)]
        /\ Pending(s) \in [Tables -> Seq(Ops)]
    BY <2>1 DEF PoolInv, TypeInv, StoreOK, Pending, NoOps
  <2>3. OpsIn(Pending(s)) \subseteq OpsIn(inFlight[s])
    BY <2>1, NoOpsInNoOps DEF Pending
  <2> DEFINE dp == [t \in Tables |-> disk[s][t] \o Pending(s)[t]]
  <2>4. dp \in [Tables -> Seq(Ops)] /\ OpsIn(dp) = OpsIn(disk[s]) \cup OpsIn(Pending(s))
    <3>1. \A t \in Tables : disk[s][t] \o Pending(s)[t] \in Seq(Ops)
      BY <2>2, ConcatProperties
    <3>2. \A t \in Tables : dp[t] = disk[s][t] \o Pending(s)[t]
      OBVIOUS
    <3>3. dp \in [Tables -> Seq(Ops)]
      BY <3>1
    <3> HIDE DEF dp
    <3> QED
      BY <2>2, <3>2, <3>3, OpsInConcat
  <2>5. \A t \in Tables : log[s][t] = dp[t] \o active[s][t]
    BY <2>1 DEF s, PoolInv, Conserved
  <2> HIDE DEF dp
  <2>6. OpsIn(log[s]) = OpsIn(dp) \cup OpsIn(active[s])
    BY <2>2, <2>4, <2>5, OpsInConcat
  <2>7. OpsIn(log[s]) \subseteq Merged(r)
    BY <2>1, <2>3, <2>4, <2>6
  <2> QED
    BY <2>7 DEF s
<1>3. PoolInv => TypeInv
  BY DEF PoolInv
<1> QED
  BY <1>1, <1>2, <1>3, PoolInit, ReadingInit, ReadingStep, PTL DEF Spec

-----------------------------------------------------------------------------
(* stop() *)

\* A shard whose count is zero has nothing to swap.
Counted == \A s \in Shards : activeSize[s] = 0 => OpsIn(active[s]) = {}

InRound == {"shards", "transaction", "committed"}

\* Operations the round of x still has to write for shard s.
Unwritten(x, s) ==
  IF s \in round[x] /\ ~(pc[x] = "committed" /\ current[x] = s)
  THEN OpsIn(inFlight[s]) ELSE {}

\* Where the operations that stop() owes to shard s are: accepted, then in its round
\* or on disk, then on disk.
Owing(x, s) ==
  /\ pc[x] \in {"flush", "swap"} => Here(owed, s) \subseteq OpsIn(log[s])
  /\ pc[x] \in InRound => Here(owed, s) \subseteq OpsIn(disk[s]) \cup Unwritten(x, s)
  /\ pc[x] \in {"closing", "closed"} /\ timeouts = 0 => Here(owed, s) \subseteq OpsIn(disk[s])

\* Operations are kept where they belong.
Placed ==
  \A s \in Shards :
    \A op \in OpsIn(active[s]) \cup OpsIn(inFlight[s]) \cup OpsIn(disk[s]) \cup OpsIn(log[s]) :
      ShardOf[op] = s

StopInv == Counted /\ Placed /\ \A x \in Stoppers, s \in Shards \ broken : Owing(x, s)

LEMMA OpsPushed ==
  ASSUME TypeInv, NEW op \in Ops, AppendActive(op)
  PROVE  /\ \A s \in Shards : OpsIn(active'[s]) = IF s = ShardOf[op]
                                                  THEN OpsIn(active[s]) \cup {op}
                                                  ELSE OpsIn(active[s])
         /\ \A s \in Shards : OpsIn(log'[s]) = IF s = ShardOf[op]
                                               THEN OpsIn(log[s]) \cup {op}
                                               ELSE OpsIn(log[s])
<1>1. /\ active \in [Shards -> [Tables -> Seq(Ops)]]
      /\ log \in [Shards -> [Tables -> Seq(Ops)]]
  BY DEF TypeInv, StoreOK
<1>2. /\ active' = [active EXCEPT ![ShardOf[op]][TableOf[op]] = Append(@, op)]
      /\ log' = [log EXCEPT ![ShardOf[op]][TableOf[op]] = Append(@, op)]
  BY DEF AppendActive
<1>3. ShardOf[op] \in Shards /\ TableOf[op] \in Tables
  BY OpsAssumption
<1>4. ASSUME NEW s \in Shards, s = ShardOf[op]
      PROVE  /\ OpsIn(active'[s]) = OpsIn(active[s]) \cup {op}
             /\ OpsIn(log'[s]) = OpsIn(log[s]) \cup {op}
  <2>1. /\ active'[s] = [active[s] EXCEPT ![TableOf[op]] = Append(@, op)]
        /\ log'[s] = [log[s] EXCEPT ![TableOf[op]] = Append(@, op)]
    BY <1>1, <1>2, <1>4
  <2>2. active[s] \in [Tables -> Seq(Ops)] /\ log[s] \in [Tables -> Seq(Ops)]
    BY <1>1
  <2>3. OpsIn([active[s] EXCEPT ![TableOf[op]] = Append(@, op)]) = OpsIn(active[s]) \cup {op}
    BY <1>3, <2>2, OpsInAppend
  <2>4. OpsIn([log[s] EXCEPT ![TableOf[op]] = Append(@, op)]) = OpsIn(log[s]) \cup {op}
    BY <1>3, <2>2, OpsInAppend
  <2> QED
    BY <2>1, <2>3, <2>4
<1>5. ASSUME NEW s \in Shards, s # ShardOf[op]
      PROVE  active'[s] = active[s] /\ log'[s] = log[s]
  BY <1>1, <1>2, <1>5
<1> QED
  BY <1>4, <1>5

LEMMA CountedStep == TypeInv /\ Counted /\ [Next]_vars => Counted'
<1> SUFFICES ASSUME TypeInv, Counted, [Next]_vars PROVE Counted'
  OBVIOUS
<1>1. CASE UNCHANGED <<active, activeSize>>
  BY <1>1 DEF Counted
<1>2. ASSUME NEW op \in Ops, AppendActive(op) PROVE Counted'
  <2>1. /\ activeSize \in [Shards -> Nat]
        /\ activeSize' = [activeSize EXCEPT ![ShardOf[op]] = @ + 1]
    BY <1>2 DEF TypeInv, StoreOK, AppendActive
  <2>2. ASSUME NEW s \in Shards, activeSize'[s] = 0 PROVE OpsIn(active'[s]) = {}
    <3>1. s # ShardOf[op] /\ activeSize[s] = 0
      BY <2>1, <2>2, OpsAssumption
    <3>2. OpsIn(active'[s]) = OpsIn(active[s])
      BY <1>2, <3>1, OpsPushed
    <3> QED
      BY <3>1, <3>2 DEF Counted
  <2> QED
    BY <2>2 DEF Counted, OpsIn
<1>3. ASSUME NEW f \in Flushers, FlushSwap(f) PROVE Counted'
  BY <1>3, NoOpsInNoOps DEF FlushSwap, SwapToInFlight, Counted
<1>4. CASE Crash
  BY <1>4, NoOpsInNoOps DEF Crash, Counted
<1>5. ASSUME NEW w \in Workers, CommitPush(w) PROVE Counted'
  <2>1. work[w].ops \in Seq(Ops) /\ work[w].ops # <<>>
    BY <1>5 DEF CommitPush, TypeInv, LocalsOK, Work
  <2>2. Head(work[w].ops) \in Ops
    BY <2>1, HeadTailProperties
  <2> QED
    BY <1>2, <1>5, <2>2 DEF CommitPush
<1>6. CASE Calls
  BY <1>1, <1>2, <1>6
  DEF Calls, Push, AgentPush, BeginCall, CommitCall, ReadCall, FlushCall, StopCall, SweepCall,
      buffers
<1>7. CASE Steps
  BY <1>1, <1>3, <1>5, <1>7
  DEF Steps, WorkerStep, ReaderStep, FlushStep, BeginWork, CommitTake, CommitEnd, Resume,
      ReadDisk, ReadMerge, FlushEnter, FlushBegin, FlushCommit, FlushClear, FlushEnd, StopEnd,
      Sweep, buffers
<1>8. CASE Faults
  BY <1>1, <1>4, <1>8 DEF Faults, FlushFail, FlushTimeout, StateTimeout, buffers
<1>9. CASE UNCHANGED vars
  BY <1>1, <1>9 DEF vars, buffers
<1> QED
  BY <1>6, <1>7, <1>8, <1>9 DEF Next

LEMMA PlacedStep == TypeInv /\ Placed /\ [Next]_vars => Placed'
<1> SUFFICES ASSUME TypeInv, Placed, [Next]_vars PROVE Placed'
  OBVIOUS
<1>1. CASE UNCHANGED <<active, inFlight, disk, log>>
  BY <1>1 DEF Placed
<1>2. ASSUME NEW op \in Ops, AppendActive(op), UNCHANGED <<inFlight, disk>> PROVE Placed'
  <2>1. inFlight' = inFlight /\ disk' = disk
    BY <1>2
  <2>2. ASSUME NEW s \in Shards,
               NEW o \in OpsIn(active'[s]) \cup OpsIn(inFlight'[s])
                         \cup OpsIn(disk'[s]) \cup OpsIn(log'[s])
        PROVE  ShardOf[o] = s
    <3>1. \/ o \in OpsIn(active[s]) \cup OpsIn(inFlight[s]) \cup OpsIn(disk[s]) \cup OpsIn(log[s])
          \/ o = op /\ s = ShardOf[op]
      <4>1. /\ OpsIn(active'[s]) = IF s = ShardOf[op] THEN OpsIn(active[s]) \cup {op}
                                                     ELSE OpsIn(active[s])
            /\ OpsIn(log'[s]) = IF s = ShardOf[op] THEN OpsIn(log[s]) \cup {op}
                                                  ELSE OpsIn(log[s])
        BY <1>2, OpsPushed
      <4>2. CASE s = ShardOf[op]
        BY <2>1, <2>2, <4>1, <4>2
      <4>3. CASE s # ShardOf[op]
        BY <2>1, <2>2, <4>1, <4>3
      <4> QED
        BY <4>2, <4>3
    <3> QED
      BY <3>1 DEF Placed
  <2> QED
    BY <2>2, Zenon DEF Placed, OpsIn
<1>3. ASSUME NEW f \in Flushers, FlushSwap(f) PROVE Placed'
  <2>1. UNCHANGED <<disk, log>>
    BY <1>3 DEF FlushSwap, history
  <2>2. \A s \in Shards : \/ active'[s] = active[s] /\ inFlight'[s] = inFlight[s]
                          \/ active'[s] = NoOps[s] /\ inFlight'[s] = active[s]
    BY <1>3 DEF FlushSwap, SwapToInFlight
  <2> QED
    BY <2>1, <2>2, NoOpsInNoOps DEF Placed
<1>4. ASSUME NEW f \in Flushers, FlushCommit(f) PROVE Placed'
  <2>1. PICK c \in Shards : c = current[f]
    BY <1>4 DEF FlushCommit, TypeInv, Frames, LocalsOK
  <2>2. /\ disk \in [Shards -> [Tables -> Seq(Ops)]] /\ inFlight[c] \in [Tables -> Seq(Ops)]
        /\ disk' = [disk EXCEPT ![c] = [t \in Tables |-> disk[c][t] \o inFlight[c][t]]]
        /\ UNCHANGED <<active, inFlight, log>>
    BY <1>4, <2>1 DEF FlushCommit, TypeInv, StoreOK, buffers, history
  <2>3. \A t \in Tables : disk'[c][t] = disk[c][t] \o inFlight[c][t]
    BY <2>2
  <2>4. OpsIn(disk'[c]) = OpsIn(disk[c]) \cup OpsIn(inFlight[c])
    BY <2>2, <2>3, OpsInConcat
  <2>5. \A s \in Shards \ {c} : disk'[s] = disk[s]
    BY <2>2
  <2> QED
    BY <2>2, <2>4, <2>5 DEF Placed
<1>5. ASSUME NEW f \in Flushers, FlushClear(f) PROVE Placed'
  <2>1. UNCHANGED <<active, disk, log>>
    BY <1>5 DEF FlushClear, history
  <2>2. \A s \in Shards : inFlight'[s] = inFlight[s] \/ inFlight'[s] = NoOps[s]
    BY <1>5 DEF FlushClear, ClearInFlight, TypeInv, StoreOK
  <2> QED
    BY <2>1, <2>2, NoOpsInNoOps DEF Placed
<1>6. CASE Crash
  <2>1. active' = NoOps /\ inFlight' = NoOps /\ disk' = disk /\ log' = disk
    BY <1>6 DEF Crash
  <2> QED
    BY <2>1, NoOpsInNoOps DEF Placed
<1>7. ASSUME NEW w \in Workers, CommitPush(w) PROVE Placed'
  <2>1. work[w].ops \in Seq(Ops) /\ work[w].ops # <<>>
    BY <1>7 DEF CommitPush, TypeInv, LocalsOK, Work
  <2>2. Head(work[w].ops) \in Ops
    BY <2>1, HeadTailProperties
  <2> QED
    BY <1>2, <1>7, <2>2 DEF CommitPush
<1>8. CASE Calls
  BY <1>1, <1>2, <1>8
  DEF Calls, Push, AgentPush, BeginCall, CommitCall, ReadCall, FlushCall, StopCall, SweepCall,
      buffers, history
<1>9. CASE Steps
  BY <1>1, <1>3, <1>4, <1>5, <1>7, <1>9
  DEF Steps, WorkerStep, ReaderStep, FlushStep, BeginWork, CommitTake, CommitEnd, Resume,
      ReadDisk, ReadMerge, FlushEnter, FlushBegin, FlushEnd, StopEnd, Sweep, buffers, history
<1>10. CASE Faults
  BY <1>1, <1>6, <1>10 DEF Faults, FlushFail, FlushTimeout, StateTimeout, buffers, history
<1>11. CASE UNCHANGED vars
  BY <1>1, <1>11 DEF vars, buffers, history
<1> QED
  BY <1>8, <1>9, <1>10, <1>11 DEF Next

\* What a stop() owes is not disturbed by a step of somebody else.
LEMMA OwingStays ==
  ASSUME NEW x \in Stoppers, NEW s \in Shards, s \notin broken => Owing(x, s),
         broken \subseteq broken', owed' = owed, timeouts' = 0 => timeouts = 0,
         pc'[x] = pc[x], round'[x] = round[x], current'[x] = current[x],
         OpsIn(log[s]) \subseteq OpsIn(log'[s]), OpsIn(disk[s]) \subseteq OpsIn(disk'[s]),
         pc[x] \in InRound => inFlight'[s] = inFlight[s]
  PROVE  s \notin broken' => Owing(x, s)'
<1> SUFFICES ASSUME s \notin broken' PROVE Owing(x, s)'
  OBVIOUS
<1>1. Owing(x, s)
  OBVIOUS
<1>2. pc[x] \in InRound => Unwritten(x, s)' = Unwritten(x, s)
  BY DEF Unwritten, OpsIn
<1>3. pc'[x] \in InRound => Here(owed', s) \subseteq OpsIn(disk'[s]) \cup Unwritten(x, s)'
  BY <1>1, <1>2 DEF Owing
<1>4. pc'[x] \in {"flush", "swap"} => Here(owed', s) \subseteq OpsIn(log'[s])
  BY <1>1 DEF Owing
<1>5. pc'[x] \in {"closing", "closed"} /\ timeouts' = 0 => Here(owed', s) \subseteq OpsIn(disk'[s])
  BY <1>1 DEF Owing
<1> QED
  BY <1>3, <1>4, <1>5 DEF Owing, OpsIn, Here

\* A step of p that writes nothing to the disk and leaves the round of a stop() alone.
LEMMA OwingQuiet ==
  ASSUME TypeInv, StopInv, NEW p \in Procs, NEW l \in PCs, pc' = [pc EXCEPT ![p] = l],
         broken' = broken, owed' = owed, timeouts' = 0 => timeouts = 0,
         UNCHANGED <<inFlight, disk, round, current>>,
         \A s \in Shards : OpsIn(log[s]) \subseteq OpsIn(log'[s]),
         p \in Stoppers => \A s \in Shards \ broken : Owing(p, s)'
  PROVE  \A x \in Stoppers, s \in Shards \ broken' : Owing(x, s)'
<1>1. ASSUME NEW x \in Stoppers, NEW s \in Shards, s \notin broken' PROVE Owing(x, s)'
  <2>1. CASE x = p
    BY <1>1, <2>1
  <2>2. CASE x # p
    <3>1. pc'[x] = pc[x] /\ round'[x] = round[x] /\ current'[x] = current[x]
      BY <2>2, Kinds DEF TypeInv, LocalsOK
    <3>2. /\ s \notin broken => Owing(x, s)
          /\ OpsIn(log[s]) \subseteq OpsIn(log'[s]) /\ OpsIn(disk[s]) \subseteq OpsIn(disk'[s])
          /\ inFlight'[s] = inFlight[s]
      BY DEF StopInv
    <3> QED
      BY <1>1, <3>1, <3>2, OwingStays
  <2> QED
    BY <2>1, <2>2
<1> QED
  BY <1>1

\* Only the holder of flushMutex is in a round.
LEMMA RoundIsAlone ==
  ASSUME PoolInv, NEW f \in Flushers, pc[f] \in InSection
  PROVE  \A x \in Stoppers : x # f => pc[x] \notin InRound
<1>1. ASSUME NEW x \in Stoppers, pc[x] \in InRound PROVE x = f
  <2>1. pc[x] \in InSection /\ x \in Flushers /\ x \in Procs /\ f \in Procs
    BY <1>1, Kinds DEF InRound, InSection
  <2>2. fStatus[x] = "holding" /\ fStatus[f] = "holding"
    BY <2>1 DEF PoolInv, Control
  <2> QED
    BY <2>1, <2>2, OneHolder DEF PoolInv
<1> QED
  BY <1>1

\* A step of a flusher f in its round.
LEMMA OwingRound ==
  ASSUME PoolInv, StopInv, NEW f \in Flushers, pc[f] \in InSection, NEW l,
         pc' = [pc EXCEPT ![f] = l],
         broken \subseteq broken', owed' = owed, timeouts' = timeouts, log' = log,
         \A g \in Flushers \ {f} : round'[g] = round[g] /\ current'[g] = current[g],
         \A s \in Shards : OpsIn(disk[s]) \subseteq OpsIn(disk'[s]),
         f \in Stoppers => \A s \in Shards \ broken' : Owing(f, s)'
  PROVE  \A x \in Stoppers, s \in Shards \ broken' : Owing(x, s)'
<1>1. ASSUME NEW x \in Stoppers, NEW s \in Shards, s \notin broken' PROVE Owing(x, s)'
  <2>1. CASE x = f
    BY <1>1, <2>1
  <2>2. CASE x # f
    <3>1. pc'[x] = pc[x] /\ round'[x] = round[x] /\ current'[x] = current[x]
      BY <2>2, Kinds DEF PoolInv, TypeInv, LocalsOK
    <3>2. /\ s \notin broken => Owing(x, s)
          /\ OpsIn(log[s]) \subseteq OpsIn(log'[s]) /\ OpsIn(disk[s]) \subseteq OpsIn(disk'[s])
          /\ pc[x] \notin InRound
      BY <2>2, RoundIsAlone DEF StopInv
    <3> QED
      BY <1>1, <3>1, <3>2, OwingStays
  <2> QED
    BY <2>1, <2>2
<1> QED
  BY <1>1

\* The swap of a stop() takes everything accepted and not yet written.
LEMMA StopSwaps ==
  ASSUME PoolInv, StopInv, NEW x \in Stoppers, FlushSwap(x), NEW s \in Shards \ broken
  PROVE  Owing(x, s)'
<1>1. /\ pc[x] = "swap" /\ pc' = [pc EXCEPT ![x] = "shards"] /\ disk' = disk /\ owed' = owed
      /\ x \in Flushers /\ x \in Procs
  BY Kinds DEF FlushSwap, history
<1>2. \A g \in Flushers : round[g] = {}
  <2>1. ASSUME NEW g \in Flushers, round[g] # {} PROVE FALSE
    <3>1. pc[g] \in InSection \ {"swap"}
      BY <2>1 DEF PoolInv, Control
    <3>2. fStatus[g] = "holding" /\ fStatus[x] = "holding"
      BY <1>1, <3>1 DEF PoolInv, Control, InSection
    <3>3. g = x
      BY <1>1, <3>2, OneHolder, Kinds DEF PoolInv
    <3> QED
      BY <1>1, <3>1, <3>3
  <2> QED
    BY <2>1
<1>3. inFlight[s] = NoOps[s]
  BY <1>2 DEF PoolInv, Control
<1>4. Pending(s) = NoOps[s]
  BY <1>3 DEF Pending
<1>5. OpsIn(log[s]) \subseteq OpsIn(disk[s]) \cup OpsIn(active[s])
  <2>1. /\ disk[s] \in [Tables -> Seq(Ops)] /\ active[s] \in [Tables -> Seq(Ops)]
    BY DEF PoolInv, TypeInv, StoreOK
  <2>2. \A t \in Tables : log[s][t] = disk[s][t] \o active[s][t]
    <3> TAKE t \in Tables
    <3>1. log[s][t] = disk[s][t] \o <<>> \o active[s][t]
      BY <1>4 DEF PoolInv, Conserved, NoOps
    <3> QED
      BY <2>1, <3>1, ConcatEmptySeq
  <2> QED
    BY <2>1, <2>2, OpsInConcat
<1>6. Here(owed, s) \subseteq OpsIn(disk[s]) \cup OpsIn(active[s])
  BY <1>1, <1>5 DEF StopInv, Owing
<1>7. pc'[x] = "shards"
  BY <1>1 DEF PoolInv, TypeInv, LocalsOK
<1>8. Here(owed', s) \subseteq OpsIn(disk'[s]) \cup Unwritten(x, s)'
  <2>1. CASE activeSize[s] > 0
    <3>1. inFlight'[s] = active[s] /\ s \in round'[x]
      BY <1>1, <2>1 DEF FlushSwap, SwapToInFlight, PoolInv, TypeInv, LocalsOK
    <3>2. Unwritten(x, s)' = OpsIn(inFlight'[s])
      BY <1>7, <3>1 DEF Unwritten, OpsIn
    <3> QED
      BY <1>1, <1>6, <3>1, <3>2
  <2>2. CASE activeSize[s] = 0
    <3>1. OpsIn(active[s]) = {}
      BY <2>2 DEF StopInv, Counted
    <3> QED
      BY <1>1, <1>6, <3>1
  <2>3. activeSize[s] \in Nat
    BY DEF PoolInv, TypeInv, StoreOK
  <2> QED
    BY <2>1, <2>2, <2>3
<1> QED
  BY <1>7, <1>8 DEF Owing, OpsIn, Here, InRound

\* stop() owes what is accepted when it is called.
LEMMA StopOwes ==
  ASSUME PoolInv, StopInv, NEW x \in Stoppers, StopCall(x)
  PROVE  \A y \in Stoppers, s \in Shards \ broken' : Owing(y, s)'
<1>1. /\ \A y \in Stoppers : pc[y] = "idle"
      /\ pc' = [pc EXCEPT ![x] = "flush"] /\ log' = log
      /\ owed' = UNION {OpsIn(log[s]) : s \in Shards}
  BY DEF StopCall, Stopping
<1>2. \A y \in Stoppers : pc'[y] \in {"idle", "flush"}
  BY <1>1, Kinds DEF PoolInv, TypeInv, LocalsOK
<1>3. \A s \in Shards : Here(owed', s) \subseteq OpsIn(log'[s])
  BY <1>1 DEF Here, StopInv, Placed
<1> QED
  BY <1>2, <1>3 DEF Owing, Here, OpsIn, InRound

LEMMA StopCommits ==
  ASSUME PoolInv, StopInv, NEW x \in Stoppers, FlushCommit(x), NEW s \in Shards \ broken
  PROVE  Owing(x, s)'
<1>1. PICK c \in Shards : c = current[x] /\ c \in round[x]
  BY Kinds DEF FlushCommit, PoolInv, TypeInv, Frames, LocalsOK
<1>2. /\ pc[x] = "transaction" /\ pc' = [pc EXCEPT ![x] = "committed"] /\ owed' = owed
      /\ disk' = [disk EXCEPT ![c] = [t \in Tables |-> disk[c][t] \o inFlight[c][t]]]
      /\ inFlight' = inFlight /\ round' = round /\ current' = current
  BY <1>1 DEF FlushCommit, history, locals, buffers
<1>3. pc'[x] = "committed"
  BY <1>2, Kinds DEF PoolInv, TypeInv, LocalsOK
<1>4. /\ disk \in [Shards -> [Tables -> Seq(Ops)]] /\ disk[c] \in [Tables -> Seq(Ops)]
      /\ inFlight[c] \in [Tables -> Seq(Ops)]
  BY DEF PoolInv, TypeInv, StoreOK
<1>5. Here(owed, s) \subseteq OpsIn(disk[s]) \cup Unwritten(x, s)
  BY <1>2 DEF StopInv, Owing, InRound
<1>6. Here(owed', s) \subseteq OpsIn(disk'[s]) \cup Unwritten(x, s)'
  <2>1. CASE s = c
    <3>1. \A t \in Tables : disk'[c][t] = disk[c][t] \o inFlight[c][t]
      BY <1>2, <1>4
    <3>2. OpsIn(disk'[c]) = OpsIn(disk[c]) \cup OpsIn(inFlight[c])
      BY <1>4, <3>1, OpsInConcat
    <3>3. Unwritten(x, s) = OpsIn(inFlight[c])
      BY <1>1, <1>2, <2>1 DEF Unwritten
    <3> QED
      BY <1>2, <1>5, <2>1, <3>2, <3>3
  <2>2. CASE s # c
    <3>1. disk'[s] = disk[s]
      BY <1>2, <1>4, <2>2
    <3>2. Unwritten(x, s)' = Unwritten(x, s)
      BY <1>1, <1>2, <2>2 DEF Unwritten, OpsIn
    <3> QED
      BY <1>2, <1>5, <3>1, <3>2
  <2> QED
    BY <2>1, <2>2
<1> QED
  BY <1>3, <1>6 DEF Owing, OpsIn, Here, InRound

LEMMA StopClears ==
  ASSUME PoolInv, StopInv, NEW x \in Stoppers, FlushClear(x), NEW s \in Shards \ broken
  PROVE  Owing(x, s)'
<1>1. PICK c \in Shards : c = current[x] /\ c \in round[x]
  BY Kinds DEF FlushClear, PoolInv, TypeInv, Frames, LocalsOK
<1>2. /\ pc[x] = "committed" /\ pc' = [pc EXCEPT ![x] = "shards"] /\ owed' = owed
      /\ disk' = disk /\ inFlight' = [inFlight EXCEPT ![c] = NoOps[c]]
      /\ round' = [round EXCEPT ![x] = @ \ {c}]
  BY <1>1 DEF FlushClear, ClearInFlight, history
<1>3. pc'[x] = "shards" /\ round'[x] = round[x] \ {c}
  BY <1>2, Kinds DEF PoolInv, TypeInv, LocalsOK
<1>4. Here(owed, s) \subseteq OpsIn(disk[s]) \cup Unwritten(x, s)
  BY <1>2 DEF StopInv, Owing, InRound
<1>5. Here(owed', s) \subseteq OpsIn(disk'[s]) \cup Unwritten(x, s)'
  <2>1. CASE s = c
    <3>1. Unwritten(x, s) = {}
      BY <1>1, <1>2, <2>1 DEF Unwritten
    <3> QED
      BY <1>2, <1>4, <3>1
  <2>2. CASE s # c
    <3>1. inFlight'[s] = inFlight[s]
      BY <1>2, <2>2 DEF PoolInv, TypeInv, StoreOK
    <3>2. Unwritten(x, s)' = Unwritten(x, s)
      BY <1>1, <1>3, <2>2, <3>1 DEF Unwritten, OpsIn
    <3> QED
      BY <1>2, <1>4, <3>2
  <2> QED
    BY <2>1, <2>2
<1> QED
  BY <1>3, <1>5 DEF Owing, OpsIn, Here, InRound

LEMMA StopBegins ==
  ASSUME PoolInv, StopInv, NEW x \in Stoppers, FlushBegin(x), NEW s \in Shards \ broken
  PROVE  Owing(x, s)'
<1>1. /\ pc[x] = "shards" /\ pc' = [pc EXCEPT ![x] = "transaction"] /\ owed' = owed
      /\ disk' = disk /\ inFlight' = inFlight /\ round' = round
  BY DEF FlushBegin, history, buffers
<1>2. pc'[x] = "transaction"
  BY <1>1, Kinds DEF PoolInv, TypeInv, LocalsOK
<1>3. Unwritten(x, s)' = Unwritten(x, s)
  BY <1>1, <1>2 DEF Unwritten, OpsIn
<1>4. Here(owed', s) \subseteq OpsIn(disk'[s]) \cup Unwritten(x, s)'
  BY <1>1, <1>3 DEF StopInv, Owing, InRound
<1> QED
  BY <1>2, <1>4 DEF Owing, OpsIn, Here, InRound

\* A flush of stop() that ends leaves nothing of the shards it did not abandon.
LEMMA StopLeavesRound ==
  ASSUME PoolInv, StopInv, NEW x \in Stoppers, FlushEnd(x) \/ FlushFail(x),
         NEW s \in Shards \ broken'
  PROVE  Owing(x, s)'
<1>1. /\ pc[x] \in InRound /\ pc' = [pc EXCEPT ![x] = "closing"] /\ owed' = owed
      /\ disk' = disk
  BY DEF FlushEnd, FlushFail, AfterFlush, history, InRound
<1>2. pc'[x] = "closing"
  BY <1>1, Kinds DEF PoolInv, TypeInv, LocalsOK
<1>3. s \notin broken /\ s \notin round[x]
  BY DEF FlushEnd, FlushFail, history
<1>4. Here(owed', s) \subseteq OpsIn(disk'[s])
  BY <1>1, <1>3 DEF StopInv, Owing, Unwritten
<1> QED
  BY <1>2, <1>4 DEF Owing, OpsIn, Here, InRound

LEMMA OwingStep ==
  PoolInv /\ StopInv /\ [Next]_vars => \A x \in Stoppers, s \in Shards \ broken' : Owing(x, s)'
<1> SUFFICES ASSUME PoolInv, StopInv, [Next]_vars
             PROVE  \A x \in Stoppers, s \in Shards \ broken' : Owing(x, s)'
  OBVIOUS
<1>t. TypeInv /\ timeouts \in Nat
  BY DEF PoolInv, TypeInv, HistoryOK
<1>d. UNCHANGED disk => \A s \in Shards : OpsIn(disk[s]) \subseteq OpsIn(disk'[s])
  OBVIOUS
<1>l. UNCHANGED log => \A s \in Shards : OpsIn(log[s]) \subseteq OpsIn(log'[s])
  OBVIOUS
<1>g. \A op \in Ops : AppendActive(op) =>
        \A s \in Shards : OpsIn(log[s]) \subseteq OpsIn(log'[s])
  BY <1>t, OpsPushed
<1>o. (Workers \cup Readers \cup Reapers \cup Timers) \cap Stoppers = {}
  BY ProcsAssumption DEF Flushers
<1>p. \A x \in Stoppers, s \in Shards \ broken : Owing(x, s)
  BY DEF StopInv
<1> USE Kinds DEF buffers, agents, locals, history, faults
<1>1. ASSUME NEW w \in Workers, NEW op \in Ops, Push(w, op)
      PROVE  \A x \in Stoppers, s \in Shards \ broken' : Owing(x, s)'
  <2>1. PICK l \in {"idle", "stalled"} : pc' = [pc EXCEPT ![w] = l]
    BY <1>1 DEF Push, AwaitRoom
  <2> QED
    BY <1>t, <1>g, <1>o, <1>1, <2>1, OwingQuiet DEF Push, PCs
<1>2. ASSUME NEW w \in Workers, CommitPush(w)
      PROVE  \A x \in Stoppers, s \in Shards \ broken' : Owing(x, s)'
  <2>1. PICK l \in {"committing", "commitStalled"} : pc' = [pc EXCEPT ![w] = l]
    BY <1>2 DEF CommitPush, AwaitRoom
  <2>2. work[w].ops \in Seq(Ops) /\ work[w].ops # <<>>
    BY <1>2 DEF CommitPush, PoolInv, TypeInv, LocalsOK, Work
  <2>3. Head(work[w].ops) \in Ops
    BY <2>2, HeadTailProperties
  <2> QED
    BY <1>t, <1>g, <1>o, <1>2, <2>1, <2>3, OwingQuiet DEF CommitPush, PCs
<1>3. ASSUME NEW w \in Workers, NEW a \in Agents, NEW op \in Ops, AgentPush(w, a, op)
      PROVE  \A x \in Stoppers, s \in Shards \ broken' : Owing(x, s)'
  <2>1. PICK l \in {"idle", "stalled"} : pc' = [pc EXCEPT ![w] = l]
    BY <1>3 DEF AgentPush, AwaitRoom
  <2> QED
    BY <1>t, <1>l, <1>o, <1>3, <2>1, OwingQuiet DEF AgentPush, PCs
<1>4. ASSUME NEW w \in Workers, NEW a \in Agents, BeginCall(w, a) \/ CommitCall(w, a)
      PROVE  \A x \in Stoppers, s \in Shards \ broken' : Owing(x, s)'
  BY <1>t, <1>l, <1>o, <1>4, OwingQuiet DEF BeginCall, CommitCall, PCs
<1>5. ASSUME NEW w \in Workers, BeginWork(w) \/ CommitTake(w) \/ CommitEnd(w) \/ Resume(w)
      PROVE  \A x \in Stoppers, s \in Shards \ broken' : Owing(x, s)'
  <2>1. PICK l \in {"idle", "committing"} : pc' = [pc EXCEPT ![w] = l]
    BY <1>5 DEF BeginWork, CommitTake, CommitEnd, Resume
  <2> QED
    BY <1>t, <1>l, <1>o, <1>5, <2>1, OwingQuiet
    DEF BeginWork, CommitTake, CommitEnd, Resume, PCs
<1>6. ASSUME NEW r \in Readers, NEW c \in Shards, NEW a \in Agents \cup {NoAgent},
             NEW b \in BOOLEAN, ReadCall(r, c, a, b)
      PROVE  \A x \in Stoppers, s \in Shards \ broken' : Owing(x, s)'
  BY <1>t, <1>l, <1>o, <1>6, OwingQuiet DEF ReadCall, PCs
<1>7. ASSUME NEW r \in Readers, ReadDisk(r) \/ ReadMerge(r)
      PROVE  \A x \in Stoppers, s \in Shards \ broken' : Owing(x, s)'
  BY <1>t, <1>l, <1>o, <1>7, OwingQuiet DEF ReadDisk, ReadMerge, PCs
<1>8. ASSUME NEW p \in Reapers, SweepCall(p) \/ Sweep(p)
      PROVE  \A x \in Stoppers, s \in Shards \ broken' : Owing(x, s)'
  BY <1>t, <1>l, <1>o, <1>8, OwingQuiet DEF SweepCall, Sweep, PCs
<1>9. ASSUME NEW f \in Timers, FlushCall(f)
      PROVE  \A x \in Stoppers, s \in Shards \ broken' : Owing(x, s)'
  BY <1>t, <1>l, <1>o, <1>9, OwingQuiet DEF FlushCall, PCs
<1>10. ASSUME NEW y \in Stoppers, StopCall(y)
       PROVE  \A x \in Stoppers, s \in Shards \ broken' : Owing(x, s)'
  BY <1>10, StopOwes
<1>11. ASSUME NEW y \in Stoppers, StopEnd(y)
       PROVE  \A x \in Stoppers, s \in Shards \ broken' : Owing(x, s)'
  <2>1. /\ pc' = [pc EXCEPT ![y] = "closed"] /\ pc[y] = "closing" /\ disk' = disk
        /\ pc'[y] = "closed" /\ owed' = owed /\ timeouts' = timeouts
    BY <1>11 DEF StopEnd, PoolInv, TypeInv, LocalsOK
  <2>2. \A s \in Shards \ broken : Owing(y, s)'
    BY <1>p, <2>1 DEF Owing, OpsIn, Here, InRound
  <2> QED
    BY <1>t, <1>l, <1>11, <2>1, <2>2, OwingQuiet DEF StopEnd, PCs
<1>12. ASSUME NEW f \in Flushers, FlushEnter(f)
       PROVE  \A x \in Stoppers, s \in Shards \ broken' : Owing(x, s)'
  <2>1. /\ pc' = [pc EXCEPT ![f] = "swap"] /\ pc[f] = "flush" /\ log' = log
        /\ pc'[f] = "swap" /\ owed' = owed
    BY <1>12 DEF FlushEnter, PoolInv, TypeInv, LocalsOK
  <2>2. f \in Stoppers => \A s \in Shards \ broken : Owing(f, s)'
    BY <1>p, <2>1 DEF Owing, OpsIn, Here, InRound
  <2> QED
    BY <1>t, <1>l, <1>12, <2>1, <2>2, OwingQuiet DEF FlushEnter, PCs
<1>13. ASSUME NEW f \in Flushers, FlushSwap(f) \/ FlushBegin(f) \/ FlushClear(f)
       PROVE  \A x \in Stoppers, s \in Shards \ broken' : Owing(x, s)'
  <2>1. PICK l \in PCs : pc' = [pc EXCEPT ![f] = l]
    BY <1>13 DEF FlushSwap, FlushBegin, FlushClear, PCs
  <2>2. \A g \in Flushers \ {f} : round'[g] = round[g] /\ current'[g] = current[g]
    BY <1>13 DEF FlushSwap, FlushBegin, FlushClear, PoolInv, TypeInv, LocalsOK
  <2>3. /\ pc[f] \in InSection /\ UNCHANGED <<disk, broken, owed, timeouts, log>>
    BY <1>13 DEF FlushSwap, FlushBegin, FlushClear, InSection
  <2>4. f \in Stoppers => \A s \in Shards \ broken' : Owing(f, s)'
    BY <1>13, <2>3, StopSwaps, StopBegins, StopClears
  <2> QED
    BY <1>d, <2>1, <2>2, <2>3, <2>4, OwingRound
<1>14. ASSUME NEW f \in Flushers, FlushCommit(f)
       PROVE  \A x \in Stoppers, s \in Shards \ broken' : Owing(x, s)'
  <2>1. PICK c \in Shards : c = current[f]
    BY <1>14 DEF FlushCommit, PoolInv, TypeInv, Frames, LocalsOK
  <2>2. /\ disk \in [Shards -> [Tables -> Seq(Ops)]] /\ inFlight[c] \in [Tables -> Seq(Ops)]
        /\ disk' = [disk EXCEPT ![c] = [t \in Tables |-> disk[c][t] \o inFlight[c][t]]]
        /\ UNCHANGED <<round, current, broken, owed, timeouts, log>>
        /\ pc[f] \in InSection /\ pc' = [pc EXCEPT ![f] = "committed"]
    BY <1>14, <2>1 DEF FlushCommit, PoolInv, TypeInv, StoreOK, InSection
  <2>3. \A t \in Tables : disk'[c][t] = disk[c][t] \o inFlight[c][t]
    BY <2>2
  <2>4. OpsIn(disk'[c]) = OpsIn(disk[c]) \cup OpsIn(inFlight[c])
    BY <2>2, <2>3, OpsInConcat
  <2>5. \A s \in Shards \ {c} : disk'[s] = disk[s]
    BY <2>2
  <2>6. \A s \in Shards : OpsIn(disk[s]) \subseteq OpsIn(disk'[s])
    BY <2>4, <2>5
  <2>7. f \in Stoppers => \A s \in Shards \ broken' : Owing(f, s)'
    BY <1>14, <2>2, StopCommits
  <2> QED
    BY <2>2, <2>6, <2>7, OwingRound
<1>15. ASSUME NEW f \in Flushers, FlushEnd(f) \/ FlushFail(f)
       PROVE  \A x \in Stoppers, s \in Shards \ broken' : Owing(x, s)'
  <2>1. pc' = [pc EXCEPT ![f] = AfterFlush(f)]
    BY <1>15 DEF FlushEnd, FlushFail
  <2>2. \A g \in Flushers \ {f} : round'[g] = round[g] /\ current'[g] = current[g]
    BY <1>15 DEF FlushEnd, FlushFail, PoolInv, TypeInv, LocalsOK
  <2>3. /\ pc[f] \in InSection /\ broken \subseteq broken'
        /\ UNCHANGED <<disk, owed, timeouts, log>>
    BY <1>15 DEF FlushEnd, FlushFail, InSection
  <2>4. f \in Stoppers => \A s \in Shards \ broken' : Owing(f, s)'
    BY <1>15, StopLeavesRound
  <2> QED
    BY <1>d, <2>1, <2>2, <2>3, <2>4, OwingRound
<1>16. ASSUME NEW f \in Flushers, FlushTimeout(f)
       PROVE  \A x \in Stoppers, s \in Shards \ broken' : Owing(x, s)'
  <2>1. PICK l \in {"idle", "closing"} : pc' = [pc EXCEPT ![f] = l]
    BY <1>16 DEF FlushTimeout, AfterFlush
  <2>2. timeouts' # 0 /\ pc'[f] \in {"idle", "closing"}
    BY <1>t, <1>16, <2>1 DEF FlushTimeout, TypeInv, LocalsOK
  <2>3. \A s \in Shards : Owing(f, s)'
    BY <2>2 DEF Owing, InRound
  <2> QED
    BY <1>t, <1>l, <1>16, <2>1, <2>2, <2>3, OwingQuiet DEF FlushTimeout, PCs
<1>17. ASSUME NEW p \in Procs, StateTimeout(p)
       PROVE  \A x \in Stoppers, s \in Shards \ broken' : Owing(x, s)'
  <2>1. PICK l \in {"idle", "closing"} : pc' = [pc EXCEPT ![p] = l]
    BY <1>17 DEF StateTimeout, AfterFlush
  <2>2. timeouts' # 0 /\ pc'[p] \in {"idle", "closing"}
    BY <1>t, <1>17, <2>1 DEF StateTimeout, TypeInv, LocalsOK
  <2>3. \A s \in Shards : Owing(p, s)'
    BY <2>2 DEF Owing, InRound
  <2> QED
    BY <1>t, <1>l, <1>17, <2>1, <2>2, <2>3, OwingQuiet DEF StateTimeout, PCs
<1>18. CASE Crash
  <2>1. \A x \in Stoppers : pc'[x] = "idle"
    BY <1>18 DEF Crash
  <2> QED
    BY <2>1 DEF Owing, InRound
<1>19. CASE UNCHANGED vars
  <2>1. ASSUME NEW x \in Stoppers, NEW s \in Shards, s \notin broken' PROVE Owing(x, s)'
    <3>1. UNCHANGED <<pc, round, current, broken, owed, timeouts, log, disk, inFlight>>
      BY <1>19 DEF vars
    <3>2. s \notin broken => Owing(x, s)
      BY <1>p
    <3> QED
      BY <2>1, <3>1, <3>2, OwingStays
  <2> QED
    BY <2>1
<1> QED
  BY <1>1, <1>2, <1>3, <1>4, <1>5, <1>6, <1>7, <1>8, <1>9, <1>10, <1>11, <1>12, <1>13, <1>14,
     <1>15, <1>16, <1>17, <1>18, <1>19
  DEF Next, Calls, Steps, Faults, WorkerStep, ReaderStep, FlushStep

LEMMA StopInit == Init => StopInv
<1> SUFFICES ASSUME Init PROVE StopInv
  OBVIOUS
<1>1. Counted /\ Placed
  BY NoOpsInNoOps DEF Init, Counted, Placed
<1>2. \A x \in Stoppers, s \in Shards : Owing(x, s)
  BY Kinds DEF Init, Owing, InRound
<1> QED
  BY <1>1, <1>2 DEF StopInv

\* For every pool: when stop() has returned and no acquire timed out, every operation
\* accepted before it was called is on disk, unless a failed flush abandoned its shard.
THEOREM PoolStopPersists == Spec => []StopPersists
<1>1. PoolInv /\ [Next]_vars => PoolInv'
  BY ConservedStep, TypeStep, MutexStep DEF PoolInv
<1>2. PoolInv /\ StopInv /\ [Next]_vars => StopInv'
  BY CountedStep, PlacedStep, OwingStep DEF StopInv, PoolInv
<1>3. StopInv => StopPersists
  BY DEF StopInv, Owing, StopPersists
<1> QED
  BY <1>1, <1>2, <1>3, PoolInit, StopInit, PTL DEF Spec


-----------------------------------------------------------------------------
(* Commits are durable as a whole and read as a whole *)

OnDisk(s) == OpsIn(disk[s])

Flying(s) == OpsIn(inFlight[s])

Buffer(s) == OpsIn(active[s])

Held(a) == Range(shadow[a])

\* What a commit has taken from its shadow and not yet pushed.
Taken(w) ==
  IF pc[w] \in {"committing", "commitStalled"} THEN Range(work[w].ops) ELSE {}

\* Who pushes a commit, or has read the disk, holds stateMutex.
HoldsState ==
  /\ \A w \in Workers : pc[w] \in {"committing", "commitStalled"} => sStatus[w] = "holding"
  /\ \A r \in Readers : pc[r] = "merge" => sStatus[r] = "holding"

\* A fresh operation is nowhere yet.
Known ==
  /\ \A s \in Shards : OnDisk(s) \cup Flying(s) \cup Buffer(s) \subseteq issued
  /\ \A u \in units : u \subseteq issued
  /\ \A a \in Agents : Held(a) \subseteq issued

\* What is in a shadow is nowhere else.
Apart ==
  /\ \A a \in Agents, s \in Shards : Held(a) \cap (OnDisk(s) \cup Flying(s) \cup Buffer(s)) = {}
  /\ \A a \in Agents, u \in units : Held(a) \cap u = {}
  /\ \A a, b \in Agents : a # b => Held(a) \cap Held(b) = {}

OfUnits == \A w \in Workers : Taken(w) \subseteq UNION units

\* The operations of a commit on a shard are durable, in flight or buffered together,
\* except that those in the buffer may be fewer while the commit pushes the others.
Together(u, s) ==
  /\ \/ Here(u, s) \subseteq OnDisk(s)
     \/ /\ Here(u, s) \cap OnDisk(s) = {}
        /\ Here(u, s) \cap Flying(s) = {} \/ Here(u, s) \subseteq Flying(s)
  /\ \/ Here(u, s) \cap Buffer(s) = {}
     \/ Here(u, s) \subseteq Buffer(s)
     \/ \E w \in Workers : Taken(w) \cap u # {}
  /\ \A w \in Workers : Taken(w) \cap u # {} => Here(u, s) \subseteq Buffer(s) \cup Taken(w)

Whole == \A u \in units, s \in Shards : Together(u, s)

Commits == Known /\ Apart /\ OfUnits /\ Whole

CommitInv == HoldsState /\ Commits

-----------------------------------------------------------------------------
(* The holder of stateMutex *)

LEMMA OneStateHolder ==
  MutexInv => \A p, q \in Procs : sStatus[p] = "holding" /\ sStatus[q] = "holding" => p = q
  BY DEF MutexInv, StateP!IInv, StateP!MutualExclusion

\* The holder of stateMutex keeps it while others acquire or time out.
LEMMA StateHolderStays ==
  ASSUME MutexInv, NEW p \in Procs, NEW q \in Procs, p # q, sStatus[q] = "holding",
         \/ State!Acquire(p)
         \/ State!Timeout(p)
         \/ State!Release(p)
         \/ UNCHANGED stateMutex
  PROVE  sStatus'[q] = "holding"
<1>1. sStatus \in [Procs -> {"out", "waiting", "holding"}]
  BY MutexTypes DEF State!TypeOK
<1>2. CASE State!Acquire(p)
  BY <1>1, <1>2 DEF State!Acquire, State!AcquireFree, State!AcquireQueued
<1>3. CASE State!Timeout(p)
  BY <1>1, <1>3 DEF State!Timeout
<1>4. CASE UNCHANGED stateMutex
  BY <1>4 DEF stateMutex
<1>5. CASE State!Release(p)
  BY <1>5, OneStateHolder DEF State!Release, State!HandOff, State!Free
<1> QED
  BY <1>2, <1>3, <1>4, <1>5

Holding == {"committing", "commitStalled", "merge"}

LEMMA HoldsStateMoves ==
  ASSUME TypeInv, MutexInv, HoldsState, NEW p \in Procs, NEW l \in PCs,
         pc' = [pc EXCEPT ![p] = l],
         l \in Holding => sStatus[p] = "holding" /\ UNCHANGED stateMutex,
         \/ State!Acquire(p)
         \/ State!Timeout(p)
         \/ State!Release(p)
         \/ UNCHANGED stateMutex
  PROVE  HoldsState'
<1>1. pc \in [Procs -> PCs]
  BY DEF TypeInv, LocalsOK
<1>2. ASSUME NEW q \in Procs, q \in Workers \/ q \in Readers, pc'[q] \in Holding,
             pc[q] \in Holding => sStatus[q] = "holding"
      PROVE  sStatus'[q] = "holding"
  <2>1. CASE q = p
    BY <1>1, <1>2, <2>1 DEF stateMutex
  <2>2. CASE q # p
    <3>1. sStatus[q] = "holding"
      BY <1>1, <1>2, <2>2
    <3> QED
      BY <2>2, <3>1, StateHolderStays
  <2> QED
    BY <2>1, <2>2
<1>3. ASSUME NEW w \in Workers, pc'[w] \in {"committing", "commitStalled"}
      PROVE  sStatus'[w] = "holding"
  <2>1. w \in Procs /\ pc'[w] \in Holding /\ w \notin Readers
    BY <1>3, Kinds, ProcsAssumption DEF Holding
  <2>2. CASE w = p
    BY <1>1, <2>1, <2>2 DEF stateMutex
  <2>3. CASE w # p
    BY <1>1, <1>3, <2>1, <2>3, <1>2 DEF HoldsState
  <2> QED
    BY <2>2, <2>3
<1>4. ASSUME NEW r \in Readers, pc'[r] = "merge" PROVE sStatus'[r] = "holding"
  <2>1. r \in Procs /\ pc'[r] \in Holding
    BY <1>4, Kinds DEF Holding
  <2>2. CASE r = p
    BY <1>1, <2>1, <2>2 DEF stateMutex
  <2>3. CASE r # p
    BY <1>1, <1>4, <2>1, <2>3, <1>2 DEF HoldsState
  <2> QED
    BY <2>2, <2>3
<1> QED
  BY <1>3, <1>4 DEF HoldsState

LEMMA HoldsStateStep == TypeInv /\ MutexInv /\ HoldsState /\ [Next]_vars => HoldsState'
<1> SUFFICES ASSUME TypeInv, MutexInv, HoldsState, [Next]_vars PROVE HoldsState'
  OBVIOUS
<1> USE Kinds
<1>1. ASSUME NEW w \in Workers, NEW op \in Ops, Push(w, op) PROVE HoldsState'
  <2>1. PICK l \in {"idle", "stalled"} : pc' = [pc EXCEPT ![w] = l]
    BY <1>1 DEF Push, AwaitRoom
  <2> QED
    BY <1>1, <2>1, HoldsStateMoves DEF Push, PCs, Holding
<1>2. ASSUME NEW w \in Workers, NEW a \in Agents, NEW op \in Ops, AgentPush(w, a, op)
      PROVE  HoldsState'
  <2>1. PICK l \in {"idle", "stalled"} : pc' = [pc EXCEPT ![w] = l]
    BY <1>2 DEF AgentPush, AwaitRoom
  <2> QED
    BY <1>2, <2>1, HoldsStateMoves DEF AgentPush, PCs, Holding
<1>3. ASSUME NEW w \in Workers, CommitPush(w) PROVE HoldsState'
  <2>1. PICK l \in {"committing", "commitStalled"} : pc' = [pc EXCEPT ![w] = l]
    BY <1>3 DEF CommitPush, AwaitRoom
  <2>2. sStatus[w] = "holding" /\ UNCHANGED stateMutex
    BY <1>3 DEF CommitPush, HoldsState
  <2> QED
    BY <2>1, <2>2, HoldsStateMoves DEF PCs
<1>4. ASSUME NEW w \in Workers, Resume(w) PROVE HoldsState'
  <2>1. CASE pc[w] = "stalled"
    BY <1>4, <2>1, HoldsStateMoves DEF Resume, PCs, Holding
  <2>2. CASE pc[w] = "commitStalled"
    <3>1. pc' = [pc EXCEPT ![w] = "committing"] /\ UNCHANGED stateMutex
      BY <1>4, <2>2 DEF Resume
    <3> QED
      BY <2>2, <3>1, HoldsStateMoves DEF PCs, HoldsState
  <2> QED
    BY <1>4, <2>1, <2>2 DEF Resume
<1>5. ASSUME NEW w \in Workers, NEW a \in Agents, BeginCall(w, a) \/ CommitCall(w, a)
      PROVE  HoldsState'
  BY <1>5, HoldsStateMoves DEF BeginCall, CommitCall, PCs, Holding
<1>6. ASSUME NEW w \in Workers, BeginWork(w) \/ CommitEnd(w) PROVE HoldsState'
  BY <1>6, HoldsStateMoves DEF BeginWork, CommitEnd, PCs, Holding
<1>7. ASSUME NEW w \in Workers, CommitTake(w) PROVE HoldsState'
  BY <1>7, HoldsStateMoves DEF CommitTake, PCs
<1>8. ASSUME NEW r \in Readers, NEW s \in Shards, NEW a \in Agents \cup {NoAgent},
             NEW b \in BOOLEAN, ReadCall(r, s, a, b)
      PROVE  HoldsState'
  BY <1>8, HoldsStateMoves DEF ReadCall, PCs, Holding
<1>9. ASSUME NEW r \in Readers, ReadDisk(r) PROVE HoldsState'
  BY <1>9, HoldsStateMoves DEF ReadDisk, PCs
<1>10. ASSUME NEW r \in Readers, ReadMerge(r) PROVE HoldsState'
  BY <1>10, HoldsStateMoves DEF ReadMerge, PCs, Holding
<1>11. ASSUME NEW p \in Reapers, SweepCall(p) \/ Sweep(p) PROVE HoldsState'
  BY <1>11, HoldsStateMoves DEF SweepCall, Sweep, PCs, Holding
<1>12. ASSUME NEW f \in Flushers, FlushCall(f) \/ StopCall(f) \/ StopEnd(f) \/ FlushEnter(f)
                                   \/ FlushSwap(f) \/ FlushBegin(f) \/ FlushCommit(f)
                                   \/ FlushClear(f)
       PROVE  HoldsState'
  <2>1. PICK l \in PCs \ Holding : pc' = [pc EXCEPT ![f] = l]
    BY <1>12
    DEF FlushCall, StopCall, StopEnd, FlushEnter, FlushSwap, FlushBegin, FlushCommit,
        FlushClear, PCs, Holding
  <2>2. State!Acquire(f) \/ State!Release(f) \/ UNCHANGED stateMutex
    BY <1>12
    DEF FlushCall, StopCall, StopEnd, FlushEnter, FlushSwap, FlushBegin, FlushCommit,
        FlushClear
  <2> QED
    BY <2>1, <2>2, HoldsStateMoves
<1>13. ASSUME NEW f \in Flushers, FlushEnd(f) \/ FlushFail(f) \/ FlushTimeout(f)
       PROVE  HoldsState'
  <2>1. AfterFlush(f) \in PCs \ Holding
    BY DEF AfterFlush, PCs, Holding
  <2> QED
    BY <1>13, <2>1, HoldsStateMoves DEF FlushEnd, FlushFail, FlushTimeout
<1>14. ASSUME NEW p \in Procs, StateTimeout(p) PROVE HoldsState'
  <2>1. PICK l \in {"idle", "closing"} : pc' = [pc EXCEPT ![p] = l]
    BY <1>14 DEF StateTimeout, AfterFlush
  <2> QED
    BY <1>14, <2>1, HoldsStateMoves DEF StateTimeout, PCs, Holding
<1>15. CASE Crash
  BY <1>15 DEF Crash, HoldsState
<1>16. CASE UNCHANGED vars
  BY <1>16 DEF vars, stateMutex, HoldsState
<1> QED
  BY <1>1, <1>2, <1>3, <1>4, <1>5, <1>6, <1>7, <1>8, <1>9, <1>10, <1>11, <1>12, <1>13, <1>14,
     <1>15, <1>16
  DEF Next, Calls, Steps, Faults, WorkerStep, ReaderStep, FlushStep

-----------------------------------------------------------------------------
(* What a step does to the places an operation can be in *)

\* Nothing moves; shadows may be dropped and operations be issued.
LEMMA NothingMoves ==
  ASSUME Commits, units' = units, issued \subseteq issued',
         \A s \in Shards : OnDisk(s)' = OnDisk(s) /\ Flying(s)' = Flying(s)
                           /\ Buffer(s)' = Buffer(s),
         \A a \in Agents : Held(a)' \subseteq Held(a),
         \A w \in Workers : Taken(w)' = Taken(w)
  PROVE  Commits'
<1>1. Known'
  BY DEF Commits, Known
<1>2. Apart'
  BY DEF Commits, Apart
<1>3. OfUnits'
  BY DEF Commits, OfUnits
<1>4. ASSUME NEW u \in units, NEW s \in Shards PROVE Together(u, s)'
  <2>1. Together(u, s)
    BY DEF Commits, Whole
  <2>2. /\ OnDisk(s)' = OnDisk(s) /\ Flying(s)' = Flying(s) /\ Buffer(s)' = Buffer(s)
    OBVIOUS
  <2> QED
    BY <2>1, <2>2 DEF Together, Here
<1>5. Whole'
  BY <1>4 DEF Whole
<1> QED
  BY <1>1, <1>2, <1>3, <1>5 DEF Commits

\* A fresh operation enters a buffer.
LEMMA FreshPush ==
  ASSUME Commits, units' = units, NEW op \in Ops, op \notin issued, issued' = issued \cup {op},
         \A s \in Shards : OnDisk(s)' = OnDisk(s) /\ Flying(s)' = Flying(s)
                           /\ Buffer(s) \subseteq Buffer(s)'
                           /\ Buffer(s)' \subseteq Buffer(s) \cup {op},
         \A a \in Agents : Held(a)' = Held(a),
         \A w \in Workers : Taken(w)' = Taken(w)
  PROVE  Commits'
<1>1. Known'
  BY DEF Commits, Known
<1>2. Apart'
  BY DEF Commits, Apart, Known
<1>3. OfUnits'
  BY DEF Commits, OfUnits
<1>4. ASSUME NEW u \in units, NEW s \in Shards PROVE Together(u, s)'
  <2>1. Together(u, s) /\ op \notin u
    BY DEF Commits, Whole, Known
  <2>2. /\ OnDisk(s)' = OnDisk(s) /\ Flying(s)' = Flying(s)
        /\ Buffer(s) \subseteq Buffer(s)' /\ Buffer(s)' \subseteq Buffer(s) \cup {op}
    OBVIOUS
  <2>3. Here(u, s) \cap Buffer(s)' = Here(u, s) \cap Buffer(s)
    BY <2>1, <2>2 DEF Here
  <2>4. \A w \in Workers : Taken(w)' \cap u = Taken(w) \cap u
    OBVIOUS
  <2> QED
    BY <2>1, <2>2, <2>3, <2>4 DEF Together, Here
<1>5. Whole'
  BY <1>4 DEF Whole
<1> QED
  BY <1>1, <1>2, <1>3, <1>5 DEF Commits

\* A fresh operation enters a shadow.
LEMMA FreshHeld ==
  ASSUME Commits, units' = units, NEW op \in Ops, op \notin issued, issued' = issued \cup {op},
         NEW a \in Agents, Held(a)' \subseteq Held(a) \cup {op},
         \A b \in Agents \ {a} : Held(b)' = Held(b),
         \A s \in Shards : OnDisk(s)' = OnDisk(s) /\ Flying(s)' = Flying(s)
                           /\ Buffer(s)' = Buffer(s),
         \A w \in Workers : Taken(w)' = Taken(w)
  PROVE  Commits'
<1>1. Known'
  <2>1. \A b \in Agents : Held(b)' \subseteq Held(b) \cup {op}
    OBVIOUS
  <2> QED
    BY <2>1 DEF Commits, Known
<1>2. ASSUME NEW b \in Agents, NEW s \in Shards
      PROVE  Held(b)' \cap (OnDisk(s)' \cup Flying(s)' \cup Buffer(s)') = {}
  <2>1. Held(b)' \subseteq Held(b) \cup {op}
    OBVIOUS
  <2>2. /\ OnDisk(s)' = OnDisk(s) /\ Flying(s)' = Flying(s) /\ Buffer(s)' = Buffer(s)
    OBVIOUS
  <2>3. op \notin OnDisk(s) \cup Flying(s) \cup Buffer(s)
    BY DEF Commits, Known
  <2>4. Held(b) \cap (OnDisk(s) \cup Flying(s) \cup Buffer(s)) = {}
    BY DEF Commits, Apart
  <2> QED
    BY <2>1, <2>2, <2>3, <2>4
<1>3. ASSUME NEW b \in Agents, NEW u \in units PROVE Held(b)' \cap u = {}
  <2>1. Held(b)' \subseteq Held(b) \cup {op} /\ op \notin u /\ Held(b) \cap u = {}
    BY DEF Commits, Known, Apart
  <2> QED
    BY <2>1
<1>4. ASSUME NEW b \in Agents, NEW c \in Agents, b # c PROVE Held(b)' \cap Held(c)' = {}
  <2>1. Held(b) \cap Held(c) = {} /\ op \notin Held(b) /\ op \notin Held(c)
    BY <1>4 DEF Commits, Known, Apart
  <2>2. CASE b = a
    BY <1>4, <2>1, <2>2
  <2>3. CASE b # a
    BY <1>4, <2>1, <2>3
  <2> QED
    BY <2>2, <2>3
<1>5. Apart'
  BY <1>2, <1>3, <1>4 DEF Apart
<1>6. OfUnits'
  BY DEF Commits, OfUnits
<1>7. ASSUME NEW u \in units, NEW s \in Shards PROVE Together(u, s)'
  <2>1. Together(u, s)
    BY DEF Commits, Whole
  <2>2. /\ OnDisk(s)' = OnDisk(s) /\ Flying(s)' = Flying(s) /\ Buffer(s)' = Buffer(s)
    OBVIOUS
  <2> QED
    BY <2>1, <2>2 DEF Together, Here
<1>8. Whole'
  BY <1>7 DEF Whole
<1> QED
  BY <1>1, <1>5, <1>6, <1>8 DEF Commits

\* commitWork() detaches the shadow of its agent.
LEMMA TakeMoves ==
  ASSUME Commits, issued' = issued, NEW w \in Workers, NEW a \in Agents,
         units' = units \cup {Held(a)}, Taken(w)' = Held(a),
         \A v \in Workers \ {w} : Taken(v)' = {},
         \A v \in Workers : Taken(v) = {},
         Held(a)' = {}, \A b \in Agents \ {a} : Held(b)' = Held(b),
         \A s \in Shards : OnDisk(s)' = OnDisk(s) /\ Flying(s)' = Flying(s)
                           /\ Buffer(s)' = Buffer(s)
  PROVE  Commits'
<1>1. \A b \in Agents : Held(b)' \subseteq Held(b)
  OBVIOUS
<1>2. Known'
  BY <1>1 DEF Commits, Known
<1>3. ASSUME NEW b \in Agents, NEW u \in units' PROVE Held(b)' \cap u = {}
  <2>1. CASE u \in units
    BY <1>1, <2>1 DEF Commits, Apart
  <2>2. CASE u = Held(a)
    <3>1. CASE b = a
      BY <3>1
    <3>2. CASE b # a
      BY <2>2, <3>2 DEF Commits, Apart
    <3> QED
      BY <3>1, <3>2
  <2> QED
    BY <2>1, <2>2
<1>4. Apart'
  <2>1. \A b, c \in Agents : b # c => Held(b)' \cap Held(c)' = {}
    BY <1>1 DEF Commits, Apart
  <2>2. \A b \in Agents, s \in Shards :
          Held(b)' \cap (OnDisk(s)' \cup Flying(s)' \cup Buffer(s)') = {}
    BY <1>1 DEF Commits, Apart
  <2> QED
    BY <1>3, <2>1, <2>2 DEF Apart
<1>5. OfUnits'
  BY DEF OfUnits
<1>6. ASSUME NEW u \in units', NEW s \in Shards PROVE Together(u, s)'
  <2>1. /\ OnDisk(s)' = OnDisk(s) /\ Flying(s)' = Flying(s) /\ Buffer(s)' = Buffer(s)
    OBVIOUS
  <2>2. CASE u \in units
    <3>1. Together(u, s) /\ Held(a) \cap u = {}
      BY <2>2 DEF Commits, Whole, Apart
    <3>2. \A v \in Workers : Taken(v)' \cap u = {}
      BY <3>1
    <3> QED
      BY <2>1, <3>1, <3>2 DEF Together, Here
  <2>3. CASE u = Held(a)
    <3>1. Held(a) \cap (OnDisk(s) \cup Flying(s) \cup Buffer(s)) = {}
      BY DEF Commits, Apart
    <3>2. /\ Here(u, s) \cap OnDisk(s)' = {} /\ Here(u, s) \cap Flying(s)' = {}
          /\ Here(u, s) \cap Buffer(s)' = {}
      BY <2>1, <2>3, <3>1 DEF Here
    <3>3. \A v \in Workers : Taken(v)' \cap u # {} => Here(u, s) \subseteq Taken(v)'
      BY <2>3 DEF Here
    <3> QED
      BY <3>2, <3>3 DEF Together, Here
  <2> QED
    BY <2>2, <2>3
<1>7. Whole'
  BY <1>6 DEF Whole
<1> QED
  BY <1>2, <1>4, <1>5, <1>7 DEF Commits

\* commitWork() pushes the next of its operations.
LEMMA PushMoves ==
  ASSUME Commits, issued' = issued, units' = units, NEW w \in Workers, NEW op \in Ops,
         Taken(w) = {op} \cup Taken(w)',
         \A v \in Workers \ {w} : Taken(v)' = Taken(v),
         \A v \in Workers \ {w} : Taken(v) = {},
         \A a \in Agents : Held(a)' = Held(a),
         \A s \in Shards : OnDisk(s)' = OnDisk(s) /\ Flying(s)' = Flying(s)
                           /\ Buffer(s) \subseteq Buffer(s)'
                           /\ Buffer(s)' \subseteq Buffer(s) \cup {op},
         op \in Buffer(ShardOf[op])'
  PROVE  Commits'
<1>1. PICK owner \in units : op \in owner
  BY DEF Commits, OfUnits
<1>2. op \in issued /\ \A a \in Agents : op \notin Held(a)
  BY <1>1 DEF Commits, Known, Apart
<1>3. Known'
  BY <1>2 DEF Commits, Known
<1>4. Apart'
  BY <1>2 DEF Commits, Apart
<1>5. OfUnits'
  BY DEF Commits, OfUnits
<1>6. ASSUME NEW u \in units, NEW s \in Shards PROVE Together(u, s)'
  <2>1. Together(u, s)
    BY DEF Commits, Whole
  <2>2. /\ OnDisk(s)' = OnDisk(s) /\ Flying(s)' = Flying(s)
        /\ Buffer(s) \subseteq Buffer(s)' /\ Buffer(s)' \subseteq Buffer(s) \cup {op}
    OBVIOUS
  <2>3. \A x \in Here(u, s) : x = op => x \in Buffer(s)'
    BY DEF Here
  <2>4. Here(u, s) \subseteq u
    BY DEF Here
  <2>5. ASSUME Taken(w) \cap u # {} PROVE Here(u, s) \subseteq Buffer(s)' \cup Taken(w)'
    <3>1. Here(u, s) \subseteq Buffer(s) \cup Taken(w)
      BY <2>1, <2>5 DEF Together
    <3> QED
      BY <2>2, <2>3, <3>1
  <2>6. \A v \in Workers : Taken(v)' \cap u # {} => v = w /\ Taken(w) \cap u # {}
    OBVIOUS
  <2>7. \/ Here(u, s) \cap Buffer(s)' = {}
        \/ Here(u, s) \subseteq Buffer(s)'
        \/ \E v \in Workers : Taken(v)' \cap u # {}
    <3>1. CASE Taken(w)' \cap u # {}
      BY <3>1
    <3>2. CASE Taken(w)' \cap u = {} /\ op \in u
      <4>1. Here(u, s) \subseteq Buffer(s)' \cup Taken(w)'
        BY <2>5, <3>2
      <4> QED
        BY <2>4, <3>2, <4>1
    <3>3. CASE Taken(w)' \cap u = {} /\ op \notin u
      <4>1. \A v \in Workers : Taken(v) \cap u = {}
        BY <3>3
      <4>2. Here(u, s) \cap Buffer(s) = {} \/ Here(u, s) \subseteq Buffer(s)
        BY <2>1, <4>1 DEF Together
      <4> QED
        BY <2>2, <2>4, <3>3, <4>2
    <3> QED
      BY <3>1, <3>2, <3>3
  <2>8. \A v \in Workers : Taken(v)' \cap u # {} => Here(u, s) \subseteq Buffer(s)' \cup Taken(v)'
    BY <2>5, <2>6
  <2>9. \/ Here(u, s) \subseteq OnDisk(s)'
        \/ /\ Here(u, s) \cap OnDisk(s)' = {}
           /\ Here(u, s) \cap Flying(s)' = {} \/ Here(u, s) \subseteq Flying(s)'
    BY <2>1, <2>2 DEF Together
  <2> QED
    BY <2>7, <2>8, <2>9 DEF Together, Here
<1>7. Whole'
  BY <1>6 DEF Whole
<1> QED
  BY <1>3, <1>4, <1>5, <1>7 DEF Commits

\* With nobody committing, buffers are moved, cleared or written as a whole.
LEMMA BuffersMove ==
  ASSUME Commits, issued' = issued, units' = units,
         \A w \in Workers : Taken(w)' = Taken(w),
         \A a \in Agents : Held(a)' \subseteq Held(a),
         \A s \in Shards :
           \/ OnDisk(s)' = OnDisk(s) /\ Flying(s)' = Flying(s) /\ Buffer(s)' = Buffer(s)
           \/ /\ \A w \in Workers : Taken(w) = {}
              /\ OnDisk(s)' = OnDisk(s) /\ Flying(s)' = Buffer(s) /\ Buffer(s)' = {}
           \/ /\ OnDisk(s)' = OnDisk(s) \cup Flying(s) /\ Flying(s)' = Flying(s)
              /\ Buffer(s)' = Buffer(s)
           \/ OnDisk(s)' = OnDisk(s) /\ Flying(s)' = {} /\ Buffer(s)' = Buffer(s)
  PROVE  Commits'
<1>1. \A s \in Shards : OnDisk(s)' \cup Flying(s)' \cup Buffer(s)'
                          \subseteq OnDisk(s) \cup Flying(s) \cup Buffer(s)
  OBVIOUS
<1>2. Known'
  <2>1. \A s \in Shards : OnDisk(s)' \cup Flying(s)' \cup Buffer(s)' \subseteq issued'
    BY <1>1 DEF Commits, Known
  <2> QED
    BY <2>1 DEF Commits, Known
<1>3. Apart'
  <2>1. ASSUME NEW a \in Agents, NEW s \in Shards
        PROVE  Held(a)' \cap (OnDisk(s)' \cup Flying(s)' \cup Buffer(s)') = {}
    BY <1>1 DEF Commits, Apart
  <2> QED
    BY <2>1 DEF Commits, Apart
<1>4. OfUnits'
  BY DEF Commits, OfUnits
<1>5. ASSUME NEW u \in units, NEW s \in Shards PROVE Together(u, s)'
  <2>1. Together(u, s)
    BY DEF Commits, Whole
  <2>2. CASE OnDisk(s)' = OnDisk(s) /\ Flying(s)' = Flying(s) /\ Buffer(s)' = Buffer(s)
    BY <2>1, <2>2 DEF Together, Here
  <2>3. CASE /\ \A w \in Workers : Taken(w) = {}
             /\ OnDisk(s)' = OnDisk(s) /\ Flying(s)' = Buffer(s) /\ Buffer(s)' = {}
    BY <2>1, <2>3 DEF Together, Here
  <2>4. CASE /\ OnDisk(s)' = OnDisk(s) \cup Flying(s) /\ Flying(s)' = Flying(s)
             /\ Buffer(s)' = Buffer(s)
    BY <2>1, <2>4 DEF Together, Here
  <2>5. CASE OnDisk(s)' = OnDisk(s) /\ Flying(s)' = {} /\ Buffer(s)' = Buffer(s)
    BY <2>1, <2>5 DEF Together, Here
  <2> QED
    BY <2>2, <2>3, <2>4, <2>5
<1>6. Whole'
  BY <1>5 DEF Whole
<1> QED
  BY <1>2, <1>3, <1>4, <1>6 DEF Commits

\* A crash leaves the disk.
LEMMA OnlyDiskStays ==
  ASSUME Commits, issued' = issued, units' = units,
         \A s \in Shards : OnDisk(s)' = OnDisk(s) /\ Flying(s)' = {} /\ Buffer(s)' = {},
         \A a \in Agents : Held(a)' = {},
         \A w \in Workers : Taken(w)' = {}
  PROVE  Commits'
<1>1. Known' /\ Apart' /\ OfUnits'
  BY DEF Commits, Known, Apart, OfUnits
<1>2. ASSUME NEW u \in units, NEW s \in Shards PROVE Together(u, s)'
  <2>1. Together(u, s) /\ OnDisk(s)' = OnDisk(s) /\ Flying(s)' = {} /\ Buffer(s)' = {}
    BY DEF Commits, Whole
  <2> QED
    BY <2>1 DEF Together, Here
<1>3. Whole'
  BY <1>2 DEF Whole
<1> QED
  BY <1>1, <1>3 DEF Commits

-----------------------------------------------------------------------------
(* The actions *)

LEMMA PlacesStay ==
  /\ UNCHANGED disk => \A s \in Shards : OnDisk(s)' = OnDisk(s)
  /\ UNCHANGED inFlight => \A s \in Shards : Flying(s)' = Flying(s)
  /\ UNCHANGED active => \A s \in Shards : Buffer(s)' = Buffer(s)
  /\ UNCHANGED shadow => \A a \in Agents : Held(a)' = Held(a)
  BY DEF OnDisk, Flying, Buffer, Held, OpsIn

\* A process that is in no commit before or after its step changes nobody's.
LEMMA TakenStays ==
  ASSUME TypeInv, NEW p \in Procs, NEW l \in PCs \ {"committing", "commitStalled"},
         pc[p] \notin {"committing", "commitStalled"},
         pc' = [pc EXCEPT ![p] = l],
         \A w \in Workers \ {p} : work'[w].ops = work[w].ops
  PROVE  \A w \in Workers : Taken(w)' = Taken(w)
<1>1. pc \in [Procs -> PCs] /\ Workers \subseteq Procs
  BY Kinds DEF TypeInv, LocalsOK
<1>2. ASSUME NEW w \in Workers PROVE Taken(w)' = Taken(w)
  <2>1. CASE w = p
    BY <1>1, <2>1 DEF Taken
  <2>2. CASE w # p
    BY <1>1, <2>2 DEF Taken
  <2> QED
    BY <2>1, <2>2
<1> QED
  BY <1>2

LEMMA AppendMoves ==
  ASSUME TypeInv, NEW op \in Ops, AppendActive(op)
  PROVE  /\ \A s \in Shards : /\ Buffer(s) \subseteq Buffer(s)'
                              /\ Buffer(s)' \subseteq Buffer(s) \cup {op}
         /\ op \in Buffer(ShardOf[op])'
<1>1. ASSUME NEW s \in Shards
      PROVE  Buffer(s)' = IF s = ShardOf[op] THEN Buffer(s) \cup {op} ELSE Buffer(s)
  BY OpsPushed DEF Buffer
<1> QED
  BY <1>1, OpsAssumption

\* Nobody else is in a commit while somebody holds stateMutex.
LEMMA HolderIsAlone ==
  ASSUME MutexInv, HoldsState, NEW p \in Procs, sStatus[p] = "holding"
  PROVE  \A w \in Workers \ {p} : Taken(w) = {}
<1>1. ASSUME NEW w \in Workers \ {p} PROVE pc[w] \notin {"committing", "commitStalled"}
  BY OneStateHolder, Kinds DEF HoldsState
<1> QED
  BY <1>1 DEF Taken

LEMMA ReleaserHolds ==
  ASSUME NEW p \in Procs, State!Release(p) PROVE sStatus[p] = "holding"
  BY DEF State!Release, State!HandOff, State!Free

LEMMA CommitTakeStep ==
  ASSUME TypeInv, MutexInv, CommitInv, NEW w \in Workers, CommitTake(w) PROVE Commits'
<1>0. PICK a \in Agents : a = work[w].agent
  BY DEF CommitTake, TypeInv, Frames
<1>1. w \in Procs /\ sStatus[w] = "holding" /\ pc[w] = "commit"
  BY Kinds DEF CommitTake
<1>2. /\ pc \in [Procs -> PCs] /\ work \in [Workers -> Work] /\ shadow \in [Agents -> Seq(Ops)]
  BY DEF TypeInv, LocalsOK, StoreOK
<1>3. /\ pc' = [pc EXCEPT ![w] = "committing"]
      /\ work' = [work EXCEPT ![w].ops = shadow[a]]
      /\ units' = units \cup {Held(a)} /\ issued' = issued
      /\ shadow' = [shadow EXCEPT ![a] = <<>>]
      /\ UNCHANGED <<disk, inFlight, active>>
  BY <1>0 DEF CommitTake, buffers, Held
<1>4. \A v \in Workers : Taken(v) = {}
  <2>1. Taken(w) = {}
    BY <1>1 DEF Taken
  <2>2. \A v \in Workers \ {w} : Taken(v) = {}
    BY <1>1, HolderIsAlone DEF CommitInv
  <2> QED
    BY <2>1, <2>2
<1>5. Taken(w)' = Held(a)
  <2>1. pc'[w] = "committing"
    BY <1>1, <1>2, <1>3
  <2>2. work'[w].ops = shadow[a]
    BY <1>2, <1>3 DEF Work
  <2> QED
    BY <2>1, <2>2 DEF Taken, Held
<1>6. \A v \in Workers \ {w} : Taken(v)' = Taken(v)
  BY <1>1, <1>2, <1>3, Kinds DEF Taken
<1>7. Held(a)' = {} /\ \A b \in Agents \ {a} : Held(b)' = Held(b)
  BY <1>1, <1>2, <1>3, RangeOfEmpty DEF Held
<1>8. \A s \in Shards : OnDisk(s)' = OnDisk(s) /\ Flying(s)' = Flying(s)
                        /\ Buffer(s)' = Buffer(s)
  BY <1>3, PlacesStay
<1> QED
  BY <1>1, <1>3, <1>4, <1>5, <1>6, <1>7, <1>8, TakeMoves DEF CommitInv

LEMMA CommitPushStep ==
  ASSUME TypeInv, MutexInv, CommitInv, NEW w \in Workers, CommitPush(w) PROVE Commits'
<1>1. /\ pc[w] = "committing" /\ work[w].ops # <<>> /\ AppendActive(Head(work[w].ops))
      /\ UNCHANGED <<inFlight, disk, shadow>> /\ issued' = issued /\ units' = units
  BY DEF CommitPush, agents
<1>2. /\ pc \in [Procs -> PCs] /\ work \in [Workers -> Work]
      /\ w \in Procs /\ sStatus[w] = "holding"
  BY <1>1, Kinds DEF TypeInv, LocalsOK, CommitInv, HoldsState
<1>3. work[w].ops \in Seq(Ops)
  BY <1>2 DEF Work
<1>4. PICK op \in Ops : /\ op = Head(work[w].ops)
                        /\ Range(work[w].ops) = {op} \cup Range(Tail(work[w].ops))
  BY <1>1, <1>3, HeadTailProperties, RangeOfTail
<1>5. PICK l \in {"committing", "commitStalled"} : pc' = [pc EXCEPT ![w] = l]
  BY DEF CommitPush, AwaitRoom
<1>6. /\ work'[w].ops = Tail(work[w].ops)
      /\ \A v \in Workers \ {w} : work'[v] = work[v]
  <2> DEFINE rest == [work[w] EXCEPT !.ops = Tail(@)]
  <2>1. rest.ops = Tail(work[w].ops) /\ \A s : [rest EXCEPT !.stalledOn = s].ops = rest.ops
    BY <1>2 DEF Work
  <2>2. \E s : work' = [work EXCEPT ![w] = rest]
               \/ work' = [work EXCEPT ![w] = [rest EXCEPT !.stalledOn = s]]
    BY DEF CommitPush, AwaitRoom
  <2> HIDE DEF rest
  <2> QED
    BY <1>2, <2>1, <2>2
<1>7. Taken(w) = {op} \cup Taken(w)'
  BY <1>1, <1>2, <1>4, <1>5, <1>6 DEF Taken
<1>8. \A v \in Workers \ {w} : Taken(v)' = Taken(v)
  BY <1>2, <1>5, <1>6, Kinds DEF Taken
<1>9. \A v \in Workers \ {w} : Taken(v) = {}
  BY <1>2, HolderIsAlone DEF CommitInv
<1>10. /\ \A s \in Shards : OnDisk(s)' = OnDisk(s) /\ Flying(s)' = Flying(s)
       /\ \A a \in Agents : Held(a)' = Held(a)
  BY <1>1, PlacesStay
<1>11. /\ \A s \in Shards : /\ Buffer(s) \subseteq Buffer(s)'
                            /\ Buffer(s)' \subseteq Buffer(s) \cup {op}
       /\ op \in Buffer(ShardOf[op])'
  BY <1>1, <1>4, AppendMoves
<1> QED
  BY <1>1, <1>4, <1>7, <1>8, <1>9, <1>10, <1>11, PushMoves DEF CommitInv

LEMMA PlainPushStep ==
  ASSUME TypeInv, CommitInv, NEW w \in Workers, NEW op \in Ops, Push(w, op) PROVE Commits'
<1>1. PICK l \in {"idle", "stalled"} : pc' = [pc EXCEPT ![w] = l]
  BY DEF Push, AwaitRoom
<1>2. /\ pc[w] = "idle" /\ \A v \in Workers \ {w} : work'[v].ops = work[v].ops
  BY DEF Push, AwaitRoom, TypeInv, LocalsOK
<1>3. \A v \in Workers : Taken(v)' = Taken(v)
  BY <1>1, <1>2, TakenStays, Kinds DEF PCs
<1>4. /\ op \notin issued /\ issued' = issued \cup {op} /\ units' = units /\ AppendActive(op)
      /\ UNCHANGED <<inFlight, disk, shadow>>
  BY DEF Push, agents
<1>5. /\ \A s \in Shards : OnDisk(s)' = OnDisk(s) /\ Flying(s)' = Flying(s)
      /\ \A a \in Agents : Held(a)' = Held(a)
  BY <1>4, PlacesStay
<1>6. \A s \in Shards : /\ Buffer(s) \subseteq Buffer(s)'
                        /\ Buffer(s)' \subseteq Buffer(s) \cup {op}
  BY <1>4, AppendMoves
<1> QED
  BY <1>3, <1>4, <1>5, <1>6, FreshPush DEF CommitInv

LEMMA AgentPushStep ==
  ASSUME TypeInv, CommitInv, NEW w \in Workers, NEW a \in Agents, NEW op \in Ops,
         AgentPush(w, a, op)
  PROVE  Commits'
<1>1. PICK l \in {"idle", "stalled"} : pc' = [pc EXCEPT ![w] = l]
  BY DEF AgentPush, AwaitRoom
<1>2. /\ pc[w] = "idle" /\ \A v \in Workers \ {w} : work'[v].ops = work[v].ops
  BY DEF AgentPush, AwaitRoom, TypeInv, LocalsOK
<1>3. \A v \in Workers : Taken(v)' = Taken(v)
  BY <1>1, <1>2, TakenStays, Kinds DEF PCs
<1>4. /\ op \notin issued /\ issued' = issued \cup {op} /\ units' = units
      /\ UNCHANGED <<active, inFlight, disk>>
      /\ shadow' = [shadow EXCEPT ![a] = Append(@, op)] \/ shadow' = shadow
  BY DEF AgentPush, history
<1>5. \A s \in Shards : OnDisk(s)' = OnDisk(s) /\ Flying(s)' = Flying(s)
                        /\ Buffer(s)' = Buffer(s)
  BY <1>4, PlacesStay
<1>6. shadow \in [Agents -> Seq(Ops)] /\ shadow[a] \in Seq(Ops)
  BY DEF TypeInv, StoreOK
<1>7. Held(a)' \subseteq Held(a) \cup {op} /\ \A b \in Agents \ {a} : Held(b)' = Held(b)
  BY <1>4, <1>6, RangeOfAppend DEF Held
<1> QED
  BY <1>3, <1>4, <1>5, <1>7, FreshHeld DEF CommitInv

LEMMA FlushSwapStep ==
  ASSUME TypeInv, MutexInv, CommitInv, NEW f \in Flushers, FlushSwap(f) PROVE Commits'
<1> DEFINE dirty == {s \in Shards : activeSize[s] > 0}
<1>1. /\ pc[f] = "swap" /\ pc' = [pc EXCEPT ![f] = "shards"] /\ work' = work
      /\ SwapToInFlight(dirty) /\ UNCHANGED <<disk, shadow>> /\ issued' = issued
      /\ units' = units /\ State!Release(f)
  BY DEF FlushSwap, agents, history
<1>2. f \in Procs /\ f \notin Workers
  BY Kinds, ProcsAssumption
<1>3. \A w \in Workers : Taken(w) = {}
  BY <1>1, <1>2, ReleaserHolds, HolderIsAlone DEF CommitInv
<1>4. \A w \in Workers : Taken(w)' = Taken(w)
  BY <1>1, <1>2, TakenStays DEF PCs
<1> HIDE DEF dirty
<1>5. ASSUME NEW s \in Shards
      PROVE  \/ Flying(s)' = Flying(s) /\ Buffer(s)' = Buffer(s)
             \/ Flying(s)' = Buffer(s) /\ Buffer(s)' = {}
  <2>1. CASE s \in dirty
    <3>1. inFlight'[s] = active[s] /\ active'[s] = NoOps[s]
      BY <1>1, <2>1 DEF SwapToInFlight
    <3>2. Flying(s)' = Buffer(s)
      BY <3>1 DEF Flying, Buffer
    <3>3. Buffer(s)' = {}
      BY <3>1, NoOpsInNoOps DEF Buffer
    <3> QED
      BY <3>2, <3>3
  <2>2. CASE s \notin dirty
    <3>1. inFlight'[s] = inFlight[s] /\ active'[s] = active[s]
      BY <1>1, <2>2 DEF SwapToInFlight
    <3> QED
      BY <3>1 DEF Flying, Buffer
  <2> QED
    BY <2>1, <2>2
<1>6. /\ \A s \in Shards : OnDisk(s)' = OnDisk(s)
      /\ \A a \in Agents : Held(a)' = Held(a)
  BY <1>1, PlacesStay
<1> QED
  BY <1>1, <1>3, <1>4, <1>5, <1>6, BuffersMove DEF CommitInv

LEMMA FlushCommitStep ==
  ASSUME TypeInv, CommitInv, NEW f \in Flushers, FlushCommit(f) PROVE Commits'
<1>0. PICK c \in Shards : c = current[f]
  BY DEF FlushCommit, TypeInv, Frames, LocalsOK
<1>1. /\ pc[f] = "transaction" /\ pc' = [pc EXCEPT ![f] = "committed"] /\ work' = work
      /\ disk' = [disk EXCEPT ![c] = [t \in Tables |-> disk[c][t] \o inFlight[c][t]]]
      /\ UNCHANGED <<active, inFlight, shadow>> /\ issued' = issued /\ units' = units
  BY <1>0 DEF FlushCommit, buffers, agents, history, locals
<1>2. /\ f \in Procs /\ f \notin Workers
      /\ disk[c] \in [Tables -> Seq(Ops)] /\ inFlight[c] \in [Tables -> Seq(Ops)]
      /\ disk \in [Shards -> [Tables -> Seq(Ops)]]
  BY <1>1, Kinds, ProcsAssumption DEF TypeInv, Frames, LocalsOK, StoreOK
<1>3. \A w \in Workers : Taken(w)' = Taken(w)
  BY <1>1, <1>2, TakenStays DEF PCs
<1>4. /\ \A s \in Shards : Flying(s)' = Flying(s) /\ Buffer(s)' = Buffer(s)
      /\ \A a \in Agents : Held(a)' = Held(a)
  BY <1>1, PlacesStay
<1>5. OnDisk(c)' = OnDisk(c) \cup Flying(c)
  <2>1. \A t \in Tables : disk'[c][t] = disk[c][t] \o inFlight[c][t]
    BY <1>1, <1>2
  <2>2. OpsIn(disk'[c]) = OpsIn(disk[c]) \cup OpsIn(inFlight[c])
    BY <1>2, <2>1, OpsInConcat
  <2> QED
    BY <2>2 DEF OnDisk, Flying, OpsIn
<1>6. \A s \in Shards \ {c} : OnDisk(s)' = OnDisk(s)
  BY <1>1, <1>2 DEF OnDisk
<1> QED
  BY <1>1, <1>2, <1>3, <1>4, <1>5, <1>6, BuffersMove DEF CommitInv

LEMMA FlushClearStep ==
  ASSUME TypeInv, CommitInv, NEW f \in Flushers, FlushClear(f) PROVE Commits'
<1> DEFINE c == current[f]
<1>1. /\ pc[f] = "committed" /\ pc' = [pc EXCEPT ![f] = "shards"] /\ work' = work
      /\ inFlight' = [inFlight EXCEPT ![c] = NoOps[c]]
      /\ UNCHANGED <<active, disk, shadow>> /\ issued' = issued /\ units' = units
  BY DEF FlushClear, ClearInFlight, agents, history
<1>2. f \in Procs /\ f \notin Workers /\ inFlight \in [Shards -> [Tables -> Seq(Ops)]]
  BY Kinds, ProcsAssumption DEF TypeInv, StoreOK
<1>3. \A w \in Workers : Taken(w)' = Taken(w)
  BY <1>1, <1>2, TakenStays DEF PCs
<1>4. /\ \A s \in Shards : OnDisk(s)' = OnDisk(s) /\ Buffer(s)' = Buffer(s)
      /\ \A a \in Agents : Held(a)' = Held(a)
  BY <1>1, PlacesStay
<1> HIDE DEF c
<1>5. ASSUME NEW s \in Shards PROVE Flying(s)' = Flying(s) \/ Flying(s)' = {}
  <2>1. inFlight'[s] = inFlight[s] \/ inFlight'[s] = NoOps[s]
    BY <1>1, <1>2
  <2> QED
    BY <2>1, NoOpsInNoOps DEF Flying
<1> QED
  BY <1>1, <1>3, <1>4, <1>5, BuffersMove DEF CommitInv

LEMMA CrashStep ==
  ASSUME Commits, Crash PROVE Commits'
<1>1. /\ issued' = issued /\ units' = units /\ disk' = disk /\ active' = NoOps
      /\ inFlight' = NoOps /\ shadow' = [a \in Agents |-> <<>>] /\ pc' = [p \in Procs |-> "idle"]
  BY DEF Crash
<1>2. \A s \in Shards : OnDisk(s)' = OnDisk(s)
  BY <1>1, PlacesStay
<1>3. \A s \in Shards : Flying(s)' = {} /\ Buffer(s)' = {}
  BY <1>1, NoOpsInNoOps DEF Flying, Buffer
<1>4. \A a \in Agents : Held(a)' = {}
  BY <1>1, RangeOfEmpty DEF Held
<1>5. \A w \in Workers : Taken(w)' = {}
  BY <1>1, Kinds DEF Taken
<1> QED
  BY <1>1, <1>2, <1>3, <1>4, <1>5, OnlyDiskStays

\* The other steps move no operation; the reaper drops shadows.
LEMMA QuietSteps ==
  ASSUME TypeInv, CommitInv, UNCHANGED <<disk, inFlight, active, units, issued>>,
         NEW p \in Procs, NEW l \in PCs \ {"committing", "commitStalled"},
         pc[p] \notin {"committing", "commitStalled"}, pc' = [pc EXCEPT ![p] = l],
         \A w \in Workers \ {p} : work'[w].ops = work[w].ops,
         \A a \in Agents : Held(a)' \subseteq Held(a)
  PROVE  Commits'
<1>1. \A w \in Workers : Taken(w)' = Taken(w)
  BY TakenStays
<1>2. \A s \in Shards : OnDisk(s)' = OnDisk(s) /\ Flying(s)' = Flying(s)
                        /\ Buffer(s)' = Buffer(s)
  BY PlacesStay
<1> QED
  BY <1>1, <1>2, NothingMoves DEF CommitInv

LEMMA CommitsStep == TypeInv /\ MutexInv /\ CommitInv /\ [Next]_vars => Commits'
<1> SUFFICES ASSUME TypeInv, MutexInv, CommitInv, [Next]_vars PROVE Commits'
  OBVIOUS
<1>t. /\ pc \in [Procs -> PCs] /\ work \in [Workers -> Work]
      /\ shadow \in [Agents -> Seq(Ops)]
  BY DEF TypeInv, LocalsOK, StoreOK
<1>h. UNCHANGED shadow => \A a \in Agents : Held(a)' \subseteq Held(a)
  BY PlacesStay
<1> USE Kinds DEF buffers, agents, locals, history
<1>1. ASSUME NEW w \in Workers, NEW op \in Ops, Push(w, op) PROVE Commits'
  BY <1>1, PlainPushStep
<1>2. ASSUME NEW w \in Workers, NEW a \in Agents, NEW op \in Ops, AgentPush(w, a, op)
      PROVE  Commits'
  BY <1>2, AgentPushStep
<1>3. ASSUME NEW w \in Workers, CommitTake(w) \/ CommitPush(w) PROVE Commits'
  BY <1>3, CommitTakeStep, CommitPushStep
<1>4. ASSUME NEW f \in Flushers, FlushSwap(f) \/ FlushCommit(f) \/ FlushClear(f) PROVE Commits'
  BY <1>4, FlushSwapStep, FlushCommitStep, FlushClearStep
<1>5. CASE Crash
  BY <1>5, CrashStep DEF CommitInv
<1>6. ASSUME NEW w \in Workers, NEW a \in Agents, BeginCall(w, a) \/ CommitCall(w, a)
      PROVE  Commits'
  <2>1. \A v \in Workers \ {w} : work'[v].ops = work[v].ops
    BY <1>t, <1>6 DEF BeginCall, CommitCall
  <2> QED
    BY <1>h, <1>6, <2>1, QuietSteps DEF BeginCall, CommitCall, PCs
<1>7. ASSUME NEW w \in Workers, BeginWork(w) PROVE Commits'
  <2>1. \A v \in Workers \ {w} : work'[v].ops = work[v].ops
    BY <1>t, <1>7 DEF BeginWork
  <2> QED
    BY <1>h, <1>7, <2>1, QuietSteps DEF BeginWork, PCs
<1>8. ASSUME NEW w \in Workers, CommitEnd(w) \/ Resume(w) PROVE Commits'
  <2>1. Taken(w)' = Taken(w)
    <3>1. CASE CommitEnd(w)
      BY <1>t, <3>1, RangeOfEmpty DEF CommitEnd, Taken, NoWork
    <3>2. CASE Resume(w)
      <4>1. work'[w].ops = work[w].ops
        BY <1>t, <3>2 DEF Resume, Work
      <4>2. pc'[w] = "committing" <=> pc[w] = "commitStalled"
        BY <1>t, <3>2 DEF Resume
      <4>3. pc'[w] # "commitStalled" /\ pc[w] # "committing"
        BY <1>t, <3>2 DEF Resume
      <4> QED
        BY <4>1, <4>2, <4>3 DEF Taken
    <3> QED
      BY <1>8, <3>1, <3>2
  <2>2. \A v \in Workers \ {w} : Taken(v)' = Taken(v)
    BY <1>t, <1>8 DEF CommitEnd, Resume, Taken
  <2>3. UNCHANGED <<disk, inFlight, active, shadow, units, issued>>
    BY <1>8 DEF CommitEnd, Resume
  <2> QED
    BY <1>h, <2>1, <2>2, <2>3, PlacesStay, NothingMoves DEF CommitInv
<1>9. ASSUME NEW p \in Reapers, SweepCall(p) PROVE Commits'
  BY <1>h, <1>9, QuietSteps DEF SweepCall, PCs
<1>10. ASSUME NEW p \in Reapers, Sweep(p) PROVE Commits'
  <2>1. \A a \in Agents : shadow'[a] = shadow[a] \/ shadow'[a] = <<>>
    BY <1>10 DEF Sweep
  <2>2. \A a \in Agents : Held(a)' \subseteq Held(a)
    BY <2>1, RangeOfEmpty DEF Held
  <2> QED
    BY <1>10, <2>2, QuietSteps DEF Sweep, PCs
<1>11. ASSUME NEW r \in Readers, NEW s \in Shards, NEW a \in Agents \cup {NoAgent},
              NEW b \in BOOLEAN, ReadCall(r, s, a, b)
       PROVE  Commits'
  BY <1>h, <1>11, QuietSteps DEF ReadCall, PCs
<1>12. ASSUME NEW r \in Readers, ReadDisk(r) \/ ReadMerge(r) PROVE Commits'
  BY <1>h, <1>12, QuietSteps DEF ReadDisk, ReadMerge, PCs
<1>13. ASSUME NEW f \in Flushers, FlushCall(f) \/ StopCall(f) \/ StopEnd(f) \/ FlushEnter(f)
                                   \/ FlushBegin(f)
       PROVE  Commits'
  BY <1>h, <1>13, QuietSteps
  DEF FlushCall, StopCall, StopEnd, FlushEnter, FlushBegin, PCs
<1>14. ASSUME NEW f \in Flushers, FlushEnd(f) \/ FlushFail(f) \/ FlushTimeout(f)
       PROVE  Commits'
  <2>1. AfterFlush(f) \in PCs \ {"committing", "commitStalled"}
    BY DEF AfterFlush, PCs
  <2> QED
    BY <1>h, <1>14, <2>1, QuietSteps DEF FlushEnd, FlushFail, FlushTimeout
<1>15. ASSUME NEW p \in Procs, StateTimeout(p) PROVE Commits'
  <2>1. PICK l \in {"idle", "closing"} : pc' = [pc EXCEPT ![p] = l]
    BY <1>15 DEF StateTimeout, AfterFlush
  <2>2. \A w \in Workers \ {p} : work'[w].ops = work[w].ops
    BY <1>15 DEF StateTimeout
  <2> QED
    BY <1>h, <1>15, <2>1, <2>2, QuietSteps DEF StateTimeout, PCs
<1>16. CASE UNCHANGED vars
  <2>1. \A w \in Workers : Taken(w)' = Taken(w)
    BY <1>16 DEF vars, Taken
  <2> QED
    BY <1>h, <1>16, <2>1, PlacesStay, NothingMoves DEF vars, CommitInv
<1> QED
  BY <1>1, <1>2, <1>3, <1>4, <1>5, <1>6, <1>7, <1>8, <1>9, <1>10, <1>11, <1>12, <1>13, <1>14,
     <1>15, <1>16
  DEF Next, Calls, Steps, Faults, WorkerStep, ReaderStep, FlushStep

LEMMA CommitInit == Init => CommitInv
<1> SUFFICES ASSUME Init PROVE CommitInv
  OBVIOUS
<1>1. \A s \in Shards : OnDisk(s) = {} /\ Flying(s) = {} /\ Buffer(s) = {}
  BY NoOpsInNoOps DEF Init, OnDisk, Flying, Buffer
<1>2. \A a \in Agents : Held(a) = {}
  BY RangeOfEmpty DEF Init, Held
<1>3. \A w \in Workers : Taken(w) = {}
  BY Kinds DEF Init, Taken
<1>4. HoldsState
  BY Kinds DEF Init, HoldsState
<1>5. Known /\ Apart /\ OfUnits /\ Whole
  BY <1>1, <1>2, <1>3 DEF Init, Known, Apart, OfUnits, Whole
<1> QED
  BY <1>4, <1>5 DEF CommitInv, Commits

-----------------------------------------------------------------------------
(* Theorems *)

\* For every pool and every fault: the operations of one commitWork() on one shard are
\* on its disk together or not at all.
THEOREM PoolCommitsAtomically == Spec => []CommitAtomicPerShard
<1>1. TypeInv /\ MutexInv /\ CommitInv /\ [Next]_vars => CommitInv'
  BY HoldsStateStep, CommitsStep DEF CommitInv
<1>2. CommitInv => CommitAtomicPerShard
  <2>1. Commits => CommitAtomicPerShard
    BY DEF Commits, Whole, Together, OnDisk, CommitAtomicPerShard
  <2> QED
    BY <2>1 DEF CommitInv
<1> QED
  BY <1>1, <1>2, TypeInit, TypeStep, MutexStep, CommitInit, PTL DEF Spec

\* For every pool and every fault: a scan shows the operations of a commit on its shard
\* together or not at all, because it shares stateMutex with the commit.
THEOREM PoolReadsWholeCommits == Spec => []ReadsWholeCommits
<1>1. TypeInv /\ MutexInv /\ CommitInv /\ [Next]_vars => CommitInv'
  BY HoldsStateStep, CommitsStep DEF CommitInv
<1>2. TypeInv /\ MutexInv /\ CommitInv /\ Reading => ReadsWholeCommits
  <2> SUFFICES ASSUME TypeInv, MutexInv, CommitInv, Reading, NEW r \in Readers,
                      NEW u \in units, pc[r] = "merge", ~view[r].byStatus
               PROVE  \/ Here(u, view[r].shard) \subseteq Merged(r)
                      \/ Here(u, view[r].shard) \cap Merged(r) = {}
    BY DEF ReadsWholeCommits
  <2>1. PICK s \in Shards : s = view[r].shard
    BY MergedOps
  <2> DEFINE own == IF view[r].agent \in working
                    THEN {op \in Range(shadow[view[r].agent]) : ShardOf[op] = s} ELSE {}
  <2>2. Merged(r) = OnDisk(s) \cup Flying(s) \cup Buffer(s) \cup own
    <3>1. view[r].rows = OnDisk(s)
      BY <2>1 DEF Reading, OnDisk
    <3>2. view[r].byStatus = FALSE
      BY DEF TypeInv, LocalsOK, View
    <3>3. /\ Buffered(inFlight[s], inFlightIndex[s], view[r].byStatus) = Flying(s)
          /\ Buffered(active[s], index[s], view[r].byStatus) = Buffer(s)
      BY <3>2, BufferedOps DEF Flying, Buffer
    <3> QED
      BY <2>1, <3>1, <3>3 DEF Merged
  <2>3. own \cap u = {}
    <3>1. CASE view[r].agent \in working
      <4>1. view[r].agent \in Agents
        BY <3>1 DEF TypeInv, StoreOK
      <4>2. Held(view[r].agent) \cap u = {}
        BY <4>1 DEF CommitInv, Commits, Apart
      <4> QED
        BY <3>1, <4>2 DEF Held
    <3>2. CASE view[r].agent \notin working
      BY <3>2
    <3> QED
      BY <3>1, <3>2
  <2>4. \A w \in Workers : Taken(w) = {}
    <3>1. r \in Procs /\ sStatus[r] = "holding" /\ r \notin Workers
      BY Kinds, ProcsAssumption DEF CommitInv, HoldsState
    <3> QED
      BY <3>1, HolderIsAlone DEF CommitInv
  <2>5. Together(u, s)
    BY DEF CommitInv, Commits, Whole
  <2>6. Here(u, s) \subseteq u
    BY DEF Here
  <2> HIDE DEF own
  <2>7. Here(u, s) \subseteq Merged(r) \/ Here(u, s) \cap Merged(r) = {}
    BY <2>2, <2>3, <2>4, <2>5, <2>6 DEF Together
  <2> QED
    BY <2>1, <2>7
<1> QED
  BY <1>1, <1>2, TypeInit, TypeStep, MutexStep, CommitInit, ReadingInit, ReadingStep, PTL
  DEF Spec
=============================================================================
