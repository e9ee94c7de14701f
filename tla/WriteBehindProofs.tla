------------------------- MODULE WriteBehindProofs --------------------------
(***************************************************************************)
(* Theorems about WriteBehind, for all sets of shards, tables, operations, *)
(* agents and activations, every buffer limit and every bound on faults:   *)
(* what the pool accepts is conserved, and the pool implements DurableLog. *)
(***************************************************************************)
EXTENDS WriteBehind, SequenceTheorems, TLAPS

StateP == INSTANCE MutexProofs WITH Callers <- Procs, locked <- sLocked,
                                    queue <- sQueue, status <- sStatus

FlushP == INSTANCE MutexProofs WITH Callers <- Procs, locked <- fLocked,
                                    queue <- fQueue, status <- fStatus

-----------------------------------------------------------------------------
(* Every step of the pool is a step, a stutter or a reset of each mutex. *)

LEMMA StateAcquire ==
  ASSUME StateP!IInv, NEW p \in Procs, State!Acquire(p) PROVE StateP!IInv'
<1>1. StateP!Next
  BY DEF StateP!Next, StateP!Acquire, State!Acquire, StateP!AcquireFree,
         State!AcquireFree, StateP!AcquireQueued, State!AcquireQueued
<1> QED
  BY <1>1, StateP!StepInvariant

LEMMA StateRelease ==
  ASSUME StateP!IInv, NEW p \in Procs, State!Release(p) PROVE StateP!IInv'
<1>1. StateP!Next
  BY DEF StateP!Next, StateP!Release, State!Release, StateP!HandOff, State!HandOff,
         StateP!Free, State!Free
<1> QED
  BY <1>1, StateP!StepInvariant

LEMMA StateTimesOut ==
  ASSUME StateP!IInv, NEW p \in Procs, State!Timeout(p) PROVE StateP!IInv'
<1>1. StateP!Next
  BY DEF StateP!Next, StateP!Timeout, State!Timeout, StateP!RemoveAt, State!RemoveAt
<1> QED
  BY <1>1, StateP!StepInvariant

LEMMA StateStutters ==
  ASSUME StateP!IInv, UNCHANGED stateMutex PROVE StateP!IInv'
<1>1. UNCHANGED StateP!vars
  BY DEF StateP!vars, stateMutex
<1> QED
  BY <1>1, StateP!StepInvariant

LEMMA FlushAcquire ==
  ASSUME FlushP!IInv, NEW p \in Procs, Flush!Acquire(p) PROVE FlushP!IInv'
<1>1. FlushP!Next
  BY DEF FlushP!Next, FlushP!Acquire, Flush!Acquire, FlushP!AcquireFree,
         Flush!AcquireFree, FlushP!AcquireQueued, Flush!AcquireQueued
<1> QED
  BY <1>1, FlushP!StepInvariant

LEMMA FlushRelease ==
  ASSUME FlushP!IInv, NEW p \in Procs, Flush!Release(p) PROVE FlushP!IInv'
<1>1. FlushP!Next
  BY DEF FlushP!Next, FlushP!Release, Flush!Release, FlushP!HandOff, Flush!HandOff,
         FlushP!Free, Flush!Free
<1> QED
  BY <1>1, FlushP!StepInvariant

LEMMA FlushTimesOut ==
  ASSUME FlushP!IInv, NEW p \in Procs, Flush!Timeout(p) PROVE FlushP!IInv'
<1>1. FlushP!Next
  BY DEF FlushP!Next, FlushP!Timeout, Flush!Timeout, FlushP!RemoveAt, Flush!RemoveAt
<1> QED
  BY <1>1, FlushP!StepInvariant

LEMMA FlushStutters ==
  ASSUME FlushP!IInv, UNCHANGED flushMutex PROVE FlushP!IInv'
<1>1. UNCHANGED FlushP!vars
  BY DEF FlushP!vars, flushMutex
<1> QED
  BY <1>1, FlushP!StepInvariant

MutexInv == StateP!IInv /\ FlushP!IInv

\* The mutexes of the pool keep their invariants through every step, the restart
\* after a crash included.
LEMMA MutexStep == MutexInv /\ [Next]_vars => MutexInv'
<1> SUFFICES ASSUME MutexInv, [Next]_vars PROVE MutexInv'
  OBVIOUS
<1>w. Workers \subseteq Procs /\ Readers \subseteq Procs /\ Flushers \subseteq Procs
      /\ Reapers \subseteq Procs /\ Timers \subseteq Flushers /\ Stoppers \subseteq Flushers
  BY DEF Procs, Flushers
<1>1. CASE UNCHANGED <<stateMutex, flushMutex>>
  BY <1>1, StateStutters, FlushStutters DEF MutexInv
<1>2. CASE \E p \in Procs : /\ State!Acquire(p) \/ State!Release(p) \/ State!Timeout(p)
                            /\ UNCHANGED flushMutex
  BY <1>2, StateAcquire, StateRelease, StateTimesOut, FlushStutters DEF MutexInv
<1>3. CASE \E p \in Procs : /\ Flush!Acquire(p) \/ Flush!Release(p) \/ Flush!Timeout(p)
                            /\ UNCHANGED stateMutex
  BY <1>3, FlushAcquire, FlushRelease, FlushTimesOut, StateStutters DEF MutexInv
<1>4. CASE \E p \in Procs : State!Timeout(p) /\ Flush!Release(p)
  BY <1>4, StateTimesOut, FlushRelease DEF MutexInv
<1>5. CASE Crash
  <2>1. StateP!Init' /\ FlushP!Init'
    BY <1>5 DEF Crash, StateP!Init, FlushP!Init
  <2> QED
    BY <2>1, StateP!InitInvariant, FlushP!InitInvariant, PTL DEF MutexInv
<1>6. CASE Calls
  <2>1. CASE \E w \in Workers, op \in Ops : Push(w, op)
    BY <1>1, <2>1 DEF Push
  <2>2. CASE \E w \in Workers, a \in Agents, op \in Ops : AgentPush(w, a, op)
    BY <1>1, <2>2 DEF AgentPush
  <2>3. CASE \E w \in Workers, a \in Agents : BeginCall(w, a) \/ CommitCall(w, a)
    BY <1>w, <1>2, <2>3 DEF BeginCall, CommitCall
  <2>4. CASE \E r \in Readers, s \in Shards, a \in Agents \cup {NoAgent}, b \in BOOLEAN :
               ReadCall(r, s, a, b)
    BY <1>w, <1>2, <2>4 DEF ReadCall
  <2>5. CASE \E f \in Timers : FlushCall(f)
    BY <1>w, <1>3, <2>5 DEF FlushCall
  <2>6. CASE \E x \in Stoppers : StopCall(x)
    BY <1>w, <1>3, <2>6 DEF StopCall
  <2>7. CASE \E p \in Reapers : SweepCall(p)
    BY <1>w, <1>2, <2>7 DEF SweepCall
  <2> QED
    BY <1>6, <2>1, <2>2, <2>3, <2>4, <2>5, <2>6, <2>7 DEF Calls
<1>7. CASE Steps
  <2>1. CASE \E w \in Workers : WorkerStep(w)
    BY <1>w, <1>1, <1>2, <2>1
    DEF WorkerStep, BeginWork, CommitTake, CommitPush, CommitEnd, Resume
  <2>2. CASE \E r \in Readers : ReaderStep(r)
    BY <1>w, <1>1, <1>2, <2>2 DEF ReaderStep, ReadDisk, ReadMerge
  <2>3. CASE \E f \in Flushers : FlushStep(f)
    BY <1>w, <1>1, <1>2, <1>3, <2>3
    DEF FlushStep, FlushEnter, FlushSwap, FlushBegin, FlushCommit, FlushClear, FlushEnd
  <2>4. CASE \E x \in Stoppers : StopEnd(x)
    BY <1>1, <2>4 DEF StopEnd
  <2>5. CASE \E p \in Reapers : Sweep(p)
    BY <1>w, <1>2, <2>5 DEF Sweep
  <2> QED
    BY <1>7, <2>1, <2>2, <2>3, <2>4, <2>5 DEF Steps
<1>8. CASE Faults
  <2>1. CASE \E f \in Flushers : FlushFail(f) \/ FlushTimeout(f)
    BY <1>w, <1>3, <2>1 DEF FlushFail, FlushTimeout
  <2>2. CASE \E p \in Procs : StateTimeout(p)
    BY <1>2, <1>4, <2>2 DEF StateTimeout
  <2> QED
    BY <1>5, <1>8, <2>1, <2>2 DEF Faults
<1>9. CASE UNCHANGED vars
  BY <1>1, <1>9 DEF vars, stateMutex, flushMutex
<1> QED
  BY <1>6, <1>7, <1>8, <1>9 DEF Next

LEMMA MutexTypes == MutexInv => State!TypeOK /\ Flush!TypeOK
  BY DEF MutexInv, StateP!IInv, FlushP!IInv, StateP!TypeOK, State!TypeOK, FlushP!TypeOK,
         Flush!TypeOK

-----------------------------------------------------------------------------
(* Types *)

LEMMA WorkUpdates ==
  ASSUME NEW l \in Work
  PROVE  /\ \A a \in Agents : [l EXCEPT !.agent = a] \in Work
         /\ \A s \in Shards \cup {NoShard} : [l EXCEPT !.stalledOn = s] \in Work
         /\ \A q \in Seq(Ops) : [l EXCEPT !.ops = q] \in Work
         /\ l.agent \in Agents \cup {NoAgent} /\ l.ops \in Seq(Ops)
  BY DEF Work

LEMMA ViewUpdates ==
  ASSUME NEW v \in View
  PROVE  /\ \A x \in SUBSET Ops : [v EXCEPT !.rows = x] \in View
         /\ v.shard \in Shards \cup {NoShard}
  BY DEF View

LEMMA RangeType == ASSUME NEW q \in Seq(Ops) PROVE Range(q) \in SUBSET Ops
  BY DEF Range

LEMMA AfterFlushType == ASSUME NEW f PROVE AfterFlush(f) \in PCs
  BY DEF AfterFlush, PCs

\* What push() does to the buffers and to its caller is typed.
LEMMA PushTypes ==
  ASSUME StoreOK, LocalsOK, NEW op \in Ops, NEW w \in Workers,
         NEW l \in Work,
         NEW next \in PCs, NEW stall \in PCs
  PROVE  /\ MaintainIndex(op) => index' \in [Shards -> SUBSET Ops]
         /\ AppendActive(op) => /\ active' \in [Shards -> [Tables -> Seq(Ops)]]
                                /\ log' \in [Shards -> [Tables -> Seq(Ops)]]
                                /\ activeSize' \in [Shards -> Nat]
         /\ AwaitRoom(w, op, l, next, stall) =>
              /\ pc' \in [Procs -> PCs]
              /\ work' \in [Workers -> Work]
<1>1. ShardOf[op] \in Shards /\ TableOf[op] \in Tables
  BY OpsAssumption
<1>2. MaintainIndex(op) => index' \in [Shards -> SUBSET Ops]
  BY <1>1 DEF MaintainIndex, StoreOK
<1>3. AppendActive(op) => active' \in [Shards -> [Tables -> Seq(Ops)]]
  <2>1. Append(active[ShardOf[op]][TableOf[op]], op) \in Seq(Ops)
    BY <1>1 DEF StoreOK
  <2> QED
    BY <1>1, <2>1 DEF AppendActive, StoreOK
<1>4. AppendActive(op) => log' \in [Shards -> [Tables -> Seq(Ops)]]
  <2>1. Append(log[ShardOf[op]][TableOf[op]], op) \in Seq(Ops)
    BY <1>1 DEF StoreOK
  <2> QED
    BY <1>1, <2>1 DEF AppendActive, StoreOK
<1>5. AppendActive(op) => activeSize' \in [Shards -> Nat]
  BY <1>1 DEF AppendActive, StoreOK
<1>6. AwaitRoom(w, op, l, next, stall) => pc' \in [Procs -> PCs]
  BY DEF AwaitRoom, LocalsOK
<1>7. AwaitRoom(w, op, l, next, stall) => work' \in [Workers -> Work]
  BY <1>1, WorkUpdates DEF AwaitRoom, LocalsOK
<1> QED
  BY <1>2, <1>3, <1>4, <1>5, <1>6, <1>7

LEMMA Empties ==
  /\ NoOps \in [Shards -> [Tables -> Seq(Ops)]]
  /\ NoWork \in Work
  /\ NoView \in View
  BY DEF NoOps, NoWork, NoView, Work, View

LEMMA OpsInType ==
  ASSUME NEW b \in [Tables -> Seq(Ops)] PROVE OpsIn(b) \in SUBSET Ops
<1>1. \A t \in Tables : Range(b[t]) \in SUBSET Ops
  BY DEF Range
<1> QED
  BY <1>1 DEF OpsIn

\* A call that awaits stateMutex for an agent or a shard knows which one, and a
\* transaction is one of the flush's round.
Frames ==
  /\ \A w \in Workers : pc[w] \in {"begin", "commit"} => work[w].agent \in Agents
  /\ \A r \in Readers : pc[r] \in {"read", "merge"} => view[r].shard \in Shards
  /\ \A f \in Flushers : pc[f] \in {"transaction", "committed"} => current[f] \in round[f]

TypeInv == StoreOK /\ LocalsOK /\ Frames /\ HistoryOK

LEMMA TypeStep == TypeInv /\ [Next]_vars => TypeInv'
<1> SUFFICES ASSUME TypeInv, [Next]_vars PROVE TypeInv'
  OBVIOUS
<1> USE DEF TypeInv
<1>w. Workers \subseteq Procs /\ Readers \subseteq Procs /\ Flushers \subseteq Procs
      /\ Reapers \subseteq Procs /\ Timers \subseteq Flushers /\ Stoppers \subseteq Flushers
  BY DEF Procs, Flushers
<1>1. ASSUME NEW w \in Workers, NEW op \in Ops, Push(w, op)
      PROVE  TypeInv'
  <2>1. "idle" \in PCs /\ "stalled" \in PCs
    BY DEF PCs
  <2>2. StoreOK' /\ LocalsOK'
    BY <1>1, <2>1, PushTypes, Empties DEF Push, StoreOK, LocalsOK, agents
  <2>3. Frames'
    BY <1>1, <1>w DEF Push, AwaitRoom, LocalsOK, Frames
  <2>4. HistoryOK'
    BY <1>1 DEF Push, HistoryOK, faults
  <2> QED
    BY <2>2, <2>3, <2>4
<1>2. ASSUME NEW w \in Workers, NEW a \in Agents, NEW op \in Ops, AgentPush(w, a, op)
      PROVE  TypeInv'
  <2>1. "idle" \in PCs /\ "stalled" \in PCs
    BY DEF PCs
  <2>2. shadow' \in [Agents -> Seq(Ops)]
    BY <1>2 DEF AgentPush, StoreOK
  <2>3. StoreOK' /\ LocalsOK'
    BY <1>2, <2>1, <2>2, PushTypes, Empties DEF AgentPush, StoreOK, LocalsOK, history
  <2>4. Frames'
    BY <1>2, <1>w DEF AgentPush, AwaitRoom, LocalsOK, Frames
  <2>5. HistoryOK'
    BY <1>2 DEF AgentPush, HistoryOK, history, faults
  <2> QED
    BY <2>3, <2>4, <2>5
<1>3. ASSUME NEW w \in Workers, Resume(w)
      PROVE  TypeInv'
  <2>1. StoreOK'
    BY <1>3, <1>w
    DEF Resume, StoreOK, buffers, agents, history
  <2>2. LocalsOK'
    BY <1>3, <1>w, WorkUpdates
    DEF Resume, LocalsOK, locals, PCs
  <2>3. Frames'
    BY <1>3, <1>w
    DEF Resume, Frames, LocalsOK, locals, Work
  <2>4. HistoryOK'
    BY <1>3, <1>w
    DEF Resume, HistoryOK, history, faults
  <2> QED
    BY <2>1, <2>2, <2>3, <2>4
<1>4. ASSUME NEW w \in Workers, NEW a \in Agents, BeginCall(w, a)
      PROVE  TypeInv'
  <2>1. StoreOK'
    BY <1>4, <1>w
    DEF BeginCall, StoreOK, buffers, agents, history
  <2>2. LocalsOK'
    BY <1>4, <1>w, WorkUpdates
    DEF BeginCall, LocalsOK, locals, PCs
  <2>3. Frames'
    BY <1>4, <1>w
    DEF BeginCall, Frames, LocalsOK, locals, Work
  <2>4. HistoryOK'
    BY <1>4, <1>w
    DEF BeginCall, HistoryOK, history, faults
  <2> QED
    BY <2>1, <2>2, <2>3, <2>4
<1>5. ASSUME NEW w \in Workers, BeginWork(w)
      PROVE  TypeInv'
  <2>1. StoreOK'
    BY <1>5, <1>w
    DEF BeginWork, StoreOK, buffers, agents, history, Frames
  <2>2. LocalsOK'
    BY <1>5, <1>w, Empties
    DEF BeginWork, LocalsOK, locals, PCs
  <2>3. Frames'
    BY <1>5, <1>w
    DEF BeginWork, Frames, LocalsOK, locals, NoWork
  <2>4. HistoryOK'
    BY <1>5, <1>w
    DEF BeginWork, HistoryOK, history, faults
  <2> QED
    BY <2>1, <2>2, <2>3, <2>4
<1>6. ASSUME NEW w \in Workers, NEW a \in Agents, CommitCall(w, a)
      PROVE  TypeInv'
  <2>1. StoreOK'
    BY <1>6, <1>w
    DEF CommitCall, StoreOK, buffers, agents, history
  <2>2. LocalsOK'
    BY <1>6, <1>w, WorkUpdates
    DEF CommitCall, LocalsOK, locals, PCs
  <2>3. Frames'
    BY <1>6, <1>w
    DEF CommitCall, Frames, LocalsOK, locals, Work
  <2>4. HistoryOK'
    BY <1>6, <1>w
    DEF CommitCall, HistoryOK, history, faults
  <2> QED
    BY <2>1, <2>2, <2>3, <2>4
<1>7. ASSUME NEW w \in Workers, CommitTake(w)
      PROVE  TypeInv'
  <2>1. StoreOK'
    BY <1>7, <1>w
    DEF CommitTake, StoreOK, buffers, agents, history, Frames
  <2>2. LocalsOK'
    BY <1>7, <1>w, WorkUpdates
    DEF CommitTake, LocalsOK, locals, PCs, Frames, StoreOK
  <2>3. Frames'
    BY <1>7, <1>w
    DEF CommitTake, Frames, LocalsOK, locals, Work
  <2>4. HistoryOK'
    BY <1>7, <1>w, RangeType
    DEF CommitTake, HistoryOK, history, faults, Frames, StoreOK
  <2> QED
    BY <2>1, <2>2, <2>3, <2>4
<1>8. ASSUME NEW w \in Workers, CommitPush(w)
      PROVE  TypeInv'
  <2>1. "committing" \in PCs /\ "commitStalled" \in PCs
    BY DEF PCs
  <2>2. work[w] \in Work /\ work[w].ops \in Seq(Ops) /\ work[w].ops # <<>>
    BY <1>8, WorkUpdates DEF CommitPush, LocalsOK
  <2>3. Head(work[w].ops) \in Ops /\ Tail(work[w].ops) \in Seq(Ops)
    BY <2>2, HeadTailProperties
  <2>4. [work[w] EXCEPT !.ops = Tail(@)] \in Work
    BY <2>2, <2>3, WorkUpdates
  <2>5. StoreOK' /\ LocalsOK'
    BY <1>8, <2>1, <2>3, <2>4, PushTypes DEF CommitPush, StoreOK, LocalsOK, agents
  <2>6. Frames'
    BY <1>8, <1>w DEF CommitPush, AwaitRoom, LocalsOK, Frames
  <2>7. HistoryOK'
    BY <1>8 DEF CommitPush, HistoryOK, faults
  <2> QED
    BY <2>5, <2>6, <2>7
<1>9. ASSUME NEW w \in Workers, CommitEnd(w)
      PROVE  TypeInv'
  <2>1. StoreOK'
    BY <1>9, <1>w
    DEF CommitEnd, StoreOK, buffers, agents, history
  <2>2. LocalsOK'
    BY <1>9, <1>w, Empties
    DEF CommitEnd, LocalsOK, locals, PCs
  <2>3. Frames'
    BY <1>9, <1>w
    DEF CommitEnd, Frames, LocalsOK, locals, NoWork
  <2>4. HistoryOK'
    BY <1>9, <1>w
    DEF CommitEnd, HistoryOK, history, faults
  <2> QED
    BY <2>1, <2>2, <2>3, <2>4
<1>10. ASSUME NEW p \in Reapers, SweepCall(p)
      PROVE  TypeInv'
  <2>1. StoreOK'
    BY <1>10, <1>w
    DEF SweepCall, StoreOK, buffers, agents, history
  <2>2. LocalsOK'
    BY <1>10, <1>w
    DEF SweepCall, LocalsOK, locals, PCs
  <2>3. Frames'
    BY <1>10, <1>w
    DEF SweepCall, Frames, LocalsOK, locals
  <2>4. HistoryOK'
    BY <1>10, <1>w
    DEF SweepCall, HistoryOK, history, faults
  <2> QED
    BY <2>1, <2>2, <2>3, <2>4
<1>11. ASSUME NEW p \in Reapers, Sweep(p)
      PROVE  TypeInv'
  <2>1. StoreOK'
    BY <1>11, <1>w
    DEF Sweep, StoreOK, buffers, agents, history
  <2>2. LocalsOK'
    BY <1>11, <1>w
    DEF Sweep, LocalsOK, locals, PCs
  <2>3. Frames'
    BY <1>11, <1>w
    DEF Sweep, Frames, LocalsOK, locals
  <2>4. HistoryOK'
    BY <1>11, <1>w
    DEF Sweep, HistoryOK, history, faults
  <2> QED
    BY <2>1, <2>2, <2>3, <2>4
<1>12. ASSUME NEW r \in Readers, NEW s \in Shards, NEW a \in Agents \cup {NoAgent},
              NEW b \in BOOLEAN, ReadCall(r, s, a, b)
      PROVE  TypeInv'
  <2>1. StoreOK'
    BY <1>12, <1>w
    DEF ReadCall, StoreOK, buffers, agents, history
  <2>2. LocalsOK'
    BY <1>12, <1>w
    DEF ReadCall, LocalsOK, locals, PCs, View
  <2>3. Frames'
    BY <1>12, <1>w
    DEF ReadCall, Frames, LocalsOK, locals
  <2>4. HistoryOK'
    BY <1>12, <1>w
    DEF ReadCall, HistoryOK, history, faults
  <2> QED
    BY <2>1, <2>2, <2>3, <2>4
<1>13. ASSUME NEW r \in Readers, ReadDisk(r)
      PROVE  TypeInv'
  <2>1. StoreOK'
    BY <1>13, <1>w
    DEF ReadDisk, StoreOK, buffers, agents, history
  <2>2. LocalsOK'
    BY <1>13, <1>w, ViewUpdates, OpsInType
    DEF ReadDisk, LocalsOK, locals, PCs, Frames, StoreOK
  <2>3. Frames'
    BY <1>13, <1>w
    DEF ReadDisk, Frames, LocalsOK, locals, View
  <2>4. HistoryOK'
    BY <1>13, <1>w
    DEF ReadDisk, HistoryOK, history, faults
  <2> QED
    BY <2>1, <2>2, <2>3, <2>4
<1>14. ASSUME NEW r \in Readers, ReadMerge(r)
      PROVE  TypeInv'
  <2>1. StoreOK'
    BY <1>14, <1>w
    DEF ReadMerge, StoreOK, buffers, agents, history
  <2>2. LocalsOK'
    BY <1>14, <1>w, Empties
    DEF ReadMerge, LocalsOK, locals, PCs
  <2>3. Frames'
    BY <1>14, <1>w
    DEF ReadMerge, Frames, LocalsOK, locals
  <2>4. HistoryOK'
    BY <1>14, <1>w
    DEF ReadMerge, HistoryOK, history, faults
  <2> QED
    BY <2>1, <2>2, <2>3, <2>4
<1>15. ASSUME NEW f \in Timers, FlushCall(f)
      PROVE  TypeInv'
  <2>1. StoreOK'
    BY <1>15, <1>w
    DEF FlushCall, StoreOK, buffers, agents, history
  <2>2. LocalsOK'
    BY <1>15, <1>w
    DEF FlushCall, LocalsOK, locals, PCs
  <2>3. Frames'
    BY <1>15, <1>w
    DEF FlushCall, Frames, LocalsOK, locals
  <2>4. HistoryOK'
    BY <1>15, <1>w
    DEF FlushCall, HistoryOK, history, faults
  <2> QED
    BY <2>1, <2>2, <2>3, <2>4
<1>16. ASSUME NEW x \in Stoppers, StopCall(x)
      PROVE  TypeInv'
  <2>1. StoreOK'
    BY <1>16, <1>w
    DEF StopCall, StoreOK, buffers, agents, history
  <2>2. LocalsOK'
    BY <1>16, <1>w
    DEF StopCall, LocalsOK, locals, PCs
  <2>3. Frames'
    BY <1>16, <1>w
    DEF StopCall, Frames, LocalsOK, locals
  <2>4. HistoryOK'
    <3>1. \A s \in Shards : OpsIn(log[s]) \in SUBSET Ops
      BY OpsInType DEF StoreOK
    <3>2. UNION {OpsIn(log[s]) : s \in Shards} \in SUBSET Ops
      BY <3>1
    <3> QED
      BY <1>16, <3>2 DEF StopCall, HistoryOK, faults
  <2> QED
    BY <2>1, <2>2, <2>3, <2>4
<1>17. ASSUME NEW f \in Flushers, FlushEnter(f)
      PROVE  TypeInv'
  <2>1. StoreOK'
    BY <1>17, <1>w
    DEF FlushEnter, StoreOK, buffers, agents, history
  <2>2. LocalsOK'
    BY <1>17, <1>w
    DEF FlushEnter, LocalsOK, locals, PCs
  <2>3. Frames'
    BY <1>17, <1>w
    DEF FlushEnter, Frames, LocalsOK, locals
  <2>4. HistoryOK'
    BY <1>17, <1>w
    DEF FlushEnter, HistoryOK, history, faults
  <2> QED
    BY <2>1, <2>2, <2>3, <2>4
<1>18. ASSUME NEW f \in Flushers, FlushSwap(f)
      PROVE  TypeInv'
  <2>1. StoreOK'
    BY <1>18, <1>w, Empties
    DEF FlushSwap, SwapToInFlight, StoreOK, buffers, agents, history
  <2>2. LocalsOK'
    BY <1>18, <1>w
    DEF FlushSwap, SwapToInFlight, LocalsOK, locals, PCs
  <2>3. Frames'
    BY <1>18, <1>w
    DEF FlushSwap, SwapToInFlight, Frames, LocalsOK, locals
  <2>4. HistoryOK'
    BY <1>18, <1>w
    DEF FlushSwap, SwapToInFlight, HistoryOK, history, faults
  <2> QED
    BY <2>1, <2>2, <2>3, <2>4
<1>19. ASSUME NEW f \in Flushers, FlushBegin(f)
      PROVE  TypeInv'
  <2>1. StoreOK'
    BY <1>19, <1>w
    DEF FlushBegin, StoreOK, buffers, agents, history
  <2>2. LocalsOK'
    BY <1>19, <1>w
    DEF FlushBegin, LocalsOK, locals, PCs
  <2>3. Frames'
    BY <1>19, <1>w
    DEF FlushBegin, Frames, LocalsOK, locals
  <2>4. HistoryOK'
    BY <1>19, <1>w
    DEF FlushBegin, HistoryOK, history, faults
  <2> QED
    BY <2>1, <2>2, <2>3, <2>4
<1>20. ASSUME NEW f \in Flushers, FlushCommit(f)
      PROVE  TypeInv'
  <2>1. StoreOK'
    <3> DEFINE s == current[f]
               new == [t \in Tables |-> disk[s][t] \o inFlight[s][t]]
    <3>1. s \in Shards
      BY <1>20, <1>w DEF FlushCommit, Frames, LocalsOK
    <3>2. \A t \in Tables : disk[s][t] \in Seq(Ops) /\ inFlight[s][t] \in Seq(Ops)
      BY <3>1 DEF StoreOK
    <3>3. new \in [Tables -> Seq(Ops)]
      BY <3>2, ConcatProperties
    <3>4. disk' = [disk EXCEPT ![s] = new]
      BY <1>20 DEF FlushCommit
    <3> HIDE DEF s, new
    <3> QED
      BY <1>20, <3>1, <3>3, <3>4 DEF FlushCommit, StoreOK, buffers, agents, history
  <2>2. LocalsOK'
    BY <1>20, <1>w
    DEF FlushCommit, LocalsOK, locals, PCs
  <2>3. Frames'
    BY <1>20, <1>w
    DEF FlushCommit, Frames, LocalsOK, locals
  <2>4. HistoryOK'
    BY <1>20, <1>w
    DEF FlushCommit, HistoryOK, history, faults
  <2> QED
    BY <2>1, <2>2, <2>3, <2>4
<1>21. ASSUME NEW f \in Flushers, FlushClear(f)
      PROVE  TypeInv'
  <2>1. StoreOK'
    BY <1>21, <1>w, Empties
    DEF FlushClear, ClearInFlight, StoreOK, buffers, agents, history
  <2>2. LocalsOK'
    BY <1>21, <1>w
    DEF FlushClear, ClearInFlight, LocalsOK, locals, PCs
  <2>3. Frames'
    BY <1>21, <1>w
    DEF FlushClear, ClearInFlight, Frames, LocalsOK, locals
  <2>4. HistoryOK'
    BY <1>21, <1>w
    DEF FlushClear, ClearInFlight, HistoryOK, history, faults
  <2> QED
    BY <2>1, <2>2, <2>3, <2>4
<1>22. ASSUME NEW f \in Flushers, FlushEnd(f)
      PROVE  TypeInv'
  <2>1. StoreOK'
    BY <1>22, <1>w
    DEF FlushEnd, StoreOK, buffers, agents, history
  <2>2. LocalsOK'
    BY <1>22, <1>w, AfterFlushType
    DEF FlushEnd, LocalsOK, locals, PCs
  <2>3. Frames'
    BY <1>22, <1>w
    DEF FlushEnd, Frames, LocalsOK, locals, AfterFlush
  <2>4. HistoryOK'
    BY <1>22, <1>w
    DEF FlushEnd, HistoryOK, history, faults
  <2> QED
    BY <2>1, <2>2, <2>3, <2>4
<1>23. ASSUME NEW f \in Flushers, FlushFail(f)
      PROVE  TypeInv'
  <2>1. StoreOK'
    BY <1>23, <1>w
    DEF FlushFail, StoreOK, buffers, agents, history
  <2>2. LocalsOK'
    BY <1>23, <1>w, AfterFlushType
    DEF FlushFail, LocalsOK, locals, PCs
  <2>3. Frames'
    BY <1>23, <1>w
    DEF FlushFail, Frames, LocalsOK, locals, AfterFlush
  <2>4. HistoryOK'
    BY <1>23, <1>w
    DEF FlushFail, HistoryOK, history, faults, LocalsOK, Frames
  <2> QED
    BY <2>1, <2>2, <2>3, <2>4
<1>24. ASSUME NEW f \in Flushers, FlushTimeout(f)
      PROVE  TypeInv'
  <2>1. StoreOK'
    BY <1>24, <1>w
    DEF FlushTimeout, StoreOK, buffers, agents, history
  <2>2. LocalsOK'
    BY <1>24, <1>w, AfterFlushType
    DEF FlushTimeout, LocalsOK, locals, PCs
  <2>3. Frames'
    BY <1>24, <1>w
    DEF FlushTimeout, Frames, LocalsOK, locals, AfterFlush
  <2>4. HistoryOK'
    BY <1>24, <1>w
    DEF FlushTimeout, HistoryOK, history, faults
  <2> QED
    BY <2>1, <2>2, <2>3, <2>4
<1>25. ASSUME NEW x \in Stoppers, StopEnd(x)
      PROVE  TypeInv'
  <2>1. StoreOK'
    BY <1>25, <1>w
    DEF StopEnd, StoreOK, buffers, agents, history
  <2>2. LocalsOK'
    BY <1>25, <1>w
    DEF StopEnd, LocalsOK, locals, PCs
  <2>3. Frames'
    BY <1>25, <1>w
    DEF StopEnd, Frames, LocalsOK, locals
  <2>4. HistoryOK'
    BY <1>25, <1>w
    DEF StopEnd, HistoryOK, history, faults
  <2> QED
    BY <2>1, <2>2, <2>3, <2>4
<1>26. ASSUME NEW p \in Procs, StateTimeout(p)
      PROVE  TypeInv'
  <2>1. StoreOK'
    BY <1>26, <1>w
    DEF StateTimeout, StoreOK, buffers, agents, history
  <2>2. LocalsOK'
    BY <1>26, <1>w, AfterFlushType, Empties
    DEF StateTimeout, LocalsOK, locals, PCs
  <2>3. Frames'
    BY <1>26, <1>w
    DEF StateTimeout, Frames, LocalsOK, locals, AfterFlush
  <2>4. HistoryOK'
    BY <1>26, <1>w
    DEF StateTimeout, HistoryOK, history, faults
  <2> QED
    BY <2>1, <2>2, <2>3, <2>4
<1>27. CASE Crash
  <2>1. StoreOK'
    BY <1>27, Empties DEF Crash, StoreOK
  <2>2. LocalsOK'
    BY <1>27, Empties DEF Crash, LocalsOK, PCs
  <2>3. Frames'
    BY <1>27, <1>w DEF Crash, Frames
  <2>4. HistoryOK'
    BY <1>27 DEF Crash, HistoryOK
  <2> QED
    BY <2>1, <2>2, <2>3, <2>4
<1>28. CASE UNCHANGED vars
  BY <1>28 DEF vars, StoreOK, LocalsOK, Frames, HistoryOK, buffers, agents, locals, history,
              faults
<1> QED
  BY <1>w, <1>1, <1>2, <1>3, <1>4, <1>5, <1>6, <1>7, <1>8, <1>9, <1>10, <1>11, <1>12,
     <1>13, <1>14, <1>15, <1>16, <1>17, <1>18, <1>19, <1>20, <1>21, <1>22, <1>23, <1>24,
     <1>25, <1>26, <1>27, <1>28
  DEF Next, Calls, Steps, Faults, WorkerStep, ReaderStep, FlushStep

LEMMA TypeInit == Init => TypeInv /\ MutexInv
<1> SUFFICES ASSUME Init PROVE TypeInv /\ MutexInv
  OBVIOUS
<1>1. StoreOK /\ LocalsOK
  BY Empties DEF Init, StoreOK, LocalsOK, PCs
<1>2. Frames /\ HistoryOK
  BY DEF Init, Frames, HistoryOK, Procs, Flushers
<1>3. MutexInv
  BY StateP!InitInvariant, FlushP!InitInvariant
  DEF Init, MutexInv, State!Init, StateP!Init, Flush!Init, FlushP!Init
<1> QED
  BY <1>1, <1>2, <1>3 DEF TypeInv

\* The mutexes and every variable keep their types.
THEOREM PoolIsTyped == Spec => []TypeOK
<1>1. TypeInv /\ MutexInv => TypeOK
  BY MutexTypes DEF TypeInv, TypeOK
<1> QED
  BY <1>1, TypeInit, TypeStep, MutexStep, PTL DEF Spec

-----------------------------------------------------------------------------
(* Conservation *)

InSection == {"swap", "shards", "transaction", "committed"}

\* Who has a round in progress holds flushMutex, and a shard with operations in
\* flight is in somebody's round or was abandoned.  So the swap of the one flush that
\* holds flushMutex overwrites nothing but what a failure left behind.
Control ==
  /\ \A f \in Flushers : pc[f] \in InSection => fStatus[f] = "holding"
  /\ \A f \in Flushers : pc[f] \notin InSection \ {"swap"} => round[f] = {}
  /\ \A s \in Shards \ broken : inFlight[s] # NoOps[s] => \E f \in Flushers : s \in round[f]

LEMMA OneHolder ==
  MutexInv => \A p, q \in Procs : fStatus[p] = "holding" /\ fStatus[q] = "holding" => p = q
  BY DEF MutexInv, FlushP!IInv, FlushP!MutualExclusion

\* The holder of flushMutex keeps it while others acquire or time out.
LEMMA HolderStays ==
  ASSUME MutexInv, NEW p \in Procs, NEW q \in Procs, fStatus[q] = "holding",
         \/ Flush!Acquire(p)
         \/ Flush!Timeout(p)
         \/ UNCHANGED flushMutex
         \/ Flush!Release(p) /\ p # q
  PROVE  fStatus'[q] = "holding"
<1>1. fStatus \in [Procs -> {"out", "waiting", "holding"}]
  BY MutexTypes DEF Flush!TypeOK
<1>2. CASE Flush!Acquire(p)
  BY <1>1, <1>2 DEF Flush!Acquire, Flush!AcquireFree, Flush!AcquireQueued
<1>3. CASE Flush!Timeout(p)
  <2>1. fStatus[p] = "waiting" /\ fStatus' = [fStatus EXCEPT ![p] = "out"]
    BY <1>3 DEF Flush!Timeout, MutexInv, FlushP!IInv, FlushP!QueueIsWaiters
  <2> QED
    BY <1>1, <2>1
<1>4. CASE UNCHANGED flushMutex
  BY <1>4 DEF flushMutex
<1>5. CASE Flush!Release(p) /\ p # q
  BY <1>5, OneHolder DEF Flush!Release, Flush!HandOff, Flush!Free
<1> QED
  BY <1>2, <1>3, <1>4, <1>5

\* A step of p that leaves the buffers, the disk and the rounds alone.
LEMMA QuietStep ==
  ASSUME TypeInv, MutexInv, Control, Conserved,
         NEW p \in Procs, NEW l \in PCs \ {"shards", "transaction", "committed"},
         pc' = [pc EXCEPT ![p] = l],
         pc[p] \notin {"transaction", "committed"}, p \in Flushers => round[p] = {},
         l = "swap" => fStatus[p] = "holding" /\ UNCHANGED flushMutex,
         \/ Flush!Acquire(p)
         \/ Flush!Timeout(p)
         \/ Flush!Release(p)
         \/ UNCHANGED flushMutex,
         UNCHANGED <<active, inFlight, disk, log, broken, round, current>>
  PROVE  Control' /\ Conserved'
<1>1. Flushers \subseteq Procs /\ pc \in [Procs -> PCs]
  BY DEF Procs, Flushers, TypeInv, LocalsOK
<1>2. ASSUME NEW f \in Flushers, pc'[f] \in InSection PROVE fStatus'[f] = "holding"
  <2>1. CASE f = p
    BY <1>1, <1>2, <2>1, HolderStays DEF InSection
  <2>2. CASE f # p
    <3>1. fStatus[f] = "holding"
      BY <1>1, <1>2, <2>2 DEF Control
    <3> QED
      BY <1>1, <2>2, <3>1, HolderStays
  <2> QED
    BY <2>1, <2>2
<1>3. \A f \in Flushers : pc'[f] \notin InSection \ {"swap"} => round'[f] = {}
  BY <1>1 DEF Control, InSection
<1>4. \A f \in Flushers : pc'[f] = "committed" <=> pc[f] = "committed"
  BY <1>1
<1>5. Control'
  BY <1>2, <1>3 DEF Control
<1>6. Conserved'
  BY <1>4 DEF Conserved, Pending
<1> QED
  BY <1>5, <1>6

\* An append to a concatenation.
LEMMA AppendLast ==
  ASSUME NEW d \in Seq(Ops), NEW i \in Seq(Ops), NEW a \in Seq(Ops), NEW op \in Ops
  PROVE  Append(d \o i \o a, op) = d \o i \o Append(a, op)
<1>1. d \o i \in Seq(Ops) /\ d \o i \o a \in Seq(Ops) /\ <<op>> \in Seq(Ops)
  BY ConcatProperties
<1>2. Append(d \o i \o a, op) = (d \o i \o a) \o <<op>>
  BY <1>1, AppendIsConcat
<1>3. Append(a, op) = a \o <<op>>
  BY AppendIsConcat
<1> QED
  BY SMTT(30), ZenonT(60), <1>1, <1>2, <1>3, ConcatAssociative

\* A push of p into the active buffer.
LEMMA PushStep ==
  ASSUME TypeInv, Control, Conserved,
         NEW p \in Procs, NEW l \in PCs \ InSection, NEW op \in Ops,
         pc' = [pc EXCEPT ![p] = l], pc[p] \notin InSection, AppendActive(op),
         UNCHANGED <<inFlight, disk, flushMutex, broken, round, current>>
  PROVE  Control' /\ Conserved'
<1>1. Flushers \subseteq Procs /\ pc \in [Procs -> PCs]
  BY DEF Procs, Flushers, TypeInv, LocalsOK
<1>2. \A f \in Flushers : /\ pc'[f] \in InSection => pc[f] = pc'[f]
                          /\ pc[f] \in InSection => pc[f] = pc'[f]
  BY <1>1
<1>3. Control'
  BY <1>2 DEF Control, flushMutex
<1>4. \A f \in Flushers : pc'[f] = "committed" <=> pc[f] = "committed"
  BY <1>2 DEF InSection
<1>5. \A s \in Shards : Pending(s)' = Pending(s)
  BY <1>4 DEF Pending
<1>6. ASSUME NEW s \in Shards \ broken, NEW t \in Tables
      PROVE  log'[s][t] = disk'[s][t] \o Pending(s)'[t] \o active'[s][t]
  <2>1. /\ log[s][t] = disk[s][t] \o Pending(s)[t] \o active[s][t]
        /\ disk'[s][t] = disk[s][t] /\ Pending(s)'[t] = Pending(s)[t]
    BY <1>5 DEF Conserved
  <2>2. disk[s][t] \in Seq(Ops) /\ Pending(s)[t] \in Seq(Ops) /\ active[s][t] \in Seq(Ops)
    BY DEF TypeInv, StoreOK, Pending, NoOps
  <2>3. ShardOf[op] \in Shards /\ TableOf[op] \in Tables
    BY OpsAssumption
  <2>4. CASE s = ShardOf[op] /\ t = TableOf[op]
    <3>1. log'[s][t] = Append(log[s][t], op) /\ active'[s][t] = Append(active[s][t], op)
      BY <2>3, <2>4 DEF AppendActive, TypeInv, StoreOK
    <3>2. Append(disk[s][t] \o Pending(s)[t] \o active[s][t], op)
            = disk[s][t] \o Pending(s)[t] \o Append(active[s][t], op)
      BY SMTT(30), ZenonT(60), <2>2, AppendLast
    <3> QED
      BY <2>1, <3>1, <3>2
  <2>5. CASE ~(s = ShardOf[op] /\ t = TableOf[op])
    <3>1. log'[s][t] = log[s][t] /\ active'[s][t] = active[s][t]
      BY <2>3, <2>5 DEF AppendActive, TypeInv, StoreOK
    <3> QED
      BY <2>1, <3>1
  <2> QED
    BY <2>4, <2>5
<1> QED
  BY <1>3, <1>6 DEF Conserved

\* Nobody but the flush that holds flushMutex has a round or a committed transaction.
LEMMA OnlyRound ==
  ASSUME TypeInv, MutexInv, Control, NEW f \in Flushers, pc[f] \in InSection
  PROVE  /\ fStatus[f] = "holding"
         /\ \A g \in Flushers : g # f => pc[g] \notin InSection /\ round[g] = {}
         /\ \A s \in Shards \ broken : s \notin round[f] => inFlight[s] = NoOps[s]
<1>1. Flushers \subseteq Procs
  BY DEF Procs, Flushers
<1>2. \A g \in Flushers : g # f => pc[g] \notin InSection
  BY <1>1, OneHolder DEF Control
<1>3. \A g \in Flushers : g # f => round[g] = {}
  BY <1>2 DEF Control
<1> QED
  BY <1>2, <1>3 DEF Control

LEMMA SwapStep ==
  ASSUME TypeInv, MutexInv, Control, Conserved, NEW f \in Flushers, FlushSwap(f)
  PROVE  Control' /\ Conserved'
<1>1. Flushers \subseteq Procs /\ pc \in [Procs -> PCs] /\ pc[f] = "swap"
  BY DEF Procs, Flushers, TypeInv, LocalsOK, FlushSwap
<1>2. /\ fStatus[f] = "holding" /\ round[f] = {}
      /\ \A g \in Flushers : g # f => pc[g] \notin InSection /\ round[g] = {}
      /\ \A s \in Shards \ broken : inFlight[s] = NoOps[s]
  BY <1>1, OnlyRound DEF InSection, Control
<1>3. /\ pc' = [pc EXCEPT ![f] = "shards"] /\ fStatus' = fStatus
      /\ round' = [round EXCEPT ![f] = {s \in Shards : activeSize[s] > 0}]
      /\ broken' = broken
  BY DEF FlushSwap, SwapToInFlight, flushMutex, history
<1>4. Control'
  <2>1. \A g \in Flushers : pc'[g] \in InSection => fStatus'[g] = "holding"
    BY <1>1, <1>2, <1>3
  <2>2. \A g \in Flushers : pc'[g] \notin InSection \ {"swap"} => round'[g] = {}
    BY <1>1, <1>2, <1>3 DEF InSection, TypeInv, LocalsOK
  <2>3. ASSUME NEW s \in Shards \ broken, inFlight'[s] # NoOps[s]
        PROVE  s \in round'[f]
    <3>1. activeSize[s] > 0
      BY <1>2, <2>3 DEF FlushSwap, SwapToInFlight
    <3> QED
      BY <1>3, <3>1 DEF TypeInv, LocalsOK
  <2> QED
    BY <1>3, <2>1, <2>2, <2>3 DEF Control
<1>5. ASSUME NEW s \in Shards \ broken, NEW t \in Tables
      PROVE  log'[s][t] = disk'[s][t] \o Pending(s)'[t] \o active'[s][t]
  <2>1. \A g \in Flushers : pc'[g] # "committed"
    BY <1>1, <1>2, <1>3 DEF InSection
  <2>2. Pending(s) = NoOps[s] /\ Pending(s)' = inFlight'[s]
    BY <1>2, <2>1 DEF Pending
  <2>3. log[s][t] = disk[s][t] \o NoOps[s][t] \o active[s][t]
    BY <2>2 DEF Conserved
  <2>4. log'[s][t] = log[s][t] /\ disk'[s][t] = disk[s][t] /\ NoOps[s][t] = <<>>
    BY DEF FlushSwap, SwapToInFlight, history, NoOps
  <2>5. disk[s][t] \in Seq(Ops) /\ active[s][t] \in Seq(Ops)
    BY DEF TypeInv, StoreOK
  <2>6. CASE activeSize[s] > 0
    <3>1. inFlight'[s] = active[s] /\ active'[s] = NoOps[s]
      BY <2>6 DEF FlushSwap, SwapToInFlight
    <3>2. disk[s][t] \o active[s][t] \in Seq(Ops)
      BY <2>5, ConcatProperties
    <3>3. disk[s][t] \o <<>> = disk[s][t]
          /\ (disk[s][t] \o active[s][t]) \o <<>> = disk[s][t] \o active[s][t]
      BY <2>5, <3>2, ConcatEmptySeq
    <3> QED
      BY <2>2, <2>3, <2>4, <3>1, <3>3
  <2>7. CASE ~(activeSize[s] > 0)
    <3>1. inFlight'[s] = NoOps[s] /\ active'[s] = active[s]
      BY <1>2, <2>7 DEF FlushSwap, SwapToInFlight
    <3> QED
      BY <2>2, <2>3, <2>4, <3>1
  <2> QED
    BY <2>6, <2>7
<1> QED
  BY <1>3, <1>4, <1>5 DEF Conserved

LEMMA BeginStep ==
  ASSUME TypeInv, MutexInv, Control, Conserved, NEW f \in Flushers, FlushBegin(f)
  PROVE  Control' /\ Conserved'
<1>1. Flushers \subseteq Procs /\ pc \in [Procs -> PCs]
  BY DEF Procs, Flushers, TypeInv, LocalsOK
<1>2. /\ pc[f] = "shards" /\ pc' = [pc EXCEPT ![f] = "transaction"]
      /\ UNCHANGED <<active, inFlight, disk, log, broken, round, fStatus>>
      /\ \A g \in Flushers : g # f => current'[g] = current[g]
  BY DEF FlushBegin, buffers, history, flushMutex, TypeInv, LocalsOK
<1>3. Control'
  BY <1>1, <1>2 DEF Control, InSection
<1>4. \A g \in Flushers : /\ pc'[g] = "committed" <=> pc[g] = "committed"
                          /\ pc[g] = "committed" => current'[g] = current[g]
  BY <1>1, <1>2
<1>5. \A s \in Shards : Pending(s)' = Pending(s)
  BY <1>2, <1>4 DEF Pending
<1> QED
  BY <1>2, <1>3, <1>5 DEF Conserved

LEMMA CommitStep ==
  ASSUME TypeInv, MutexInv, Control, Conserved, NEW f \in Flushers, FlushCommit(f)
  PROVE  Control' /\ Conserved'
<1> DEFINE c == current[f]
<1>1. Flushers \subseteq Procs /\ pc \in [Procs -> PCs] /\ pc[f] = "transaction"
  BY DEF Procs, Flushers, TypeInv, LocalsOK, FlushCommit
<1>2. /\ pc' = [pc EXCEPT ![f] = "committed"]
      /\ UNCHANGED <<active, inFlight, log, broken, round, current, fStatus>>
      /\ disk' = [disk EXCEPT ![c] = [t \in Tables |-> disk[c][t] \o inFlight[c][t]]]
  BY DEF FlushCommit, buffers, history, flushMutex, locals
<1>3. Control'
  BY <1>1, <1>2 DEF Control, InSection
<1>4. \A g \in Flushers : pc[g] # "committed" /\ (pc'[g] = "committed" <=> g = f)
  BY <1>1, <1>2, OnlyRound DEF InSection
<1>5. ASSUME NEW s \in Shards \ broken, NEW t \in Tables
      PROVE  log'[s][t] = disk'[s][t] \o Pending(s)'[t] \o active'[s][t]
  <2>1. log[s][t] = disk[s][t] \o inFlight[s][t] \o active[s][t]
    BY <1>4 DEF Conserved, Pending
  <2>2. CASE s = c
    <3>1. Pending(s)' = NoOps[s]
      BY <1>2, <1>4, <2>2 DEF Pending
    <3>2. disk'[s][t] = disk[s][t] \o inFlight[s][t] /\ NoOps[s][t] = <<>>
      BY <1>2, <2>2 DEF TypeInv, StoreOK, NoOps
    <3>3. disk[s][t] \in Seq(Ops) /\ inFlight[s][t] \in Seq(Ops)
      BY DEF TypeInv, StoreOK
    <3>4. disk[s][t] \o inFlight[s][t] \in Seq(Ops)
      BY <3>3, ConcatProperties
    <3>5. (disk[s][t] \o inFlight[s][t]) \o <<>> = disk[s][t] \o inFlight[s][t]
      BY <3>4, ConcatEmptySeq
    <3> QED
      BY <1>2, <2>1, <3>1, <3>2, <3>5
  <2>3. CASE s # c
    <3>1. Pending(s)' = inFlight[s] /\ disk'[s] = disk[s]
      BY <1>2, <1>4, <2>3 DEF Pending, TypeInv, StoreOK
    <3> QED
      BY <1>2, <2>1, <3>1
  <2> QED
    BY <2>2, <2>3
<1> QED
  BY <1>2, <1>3, <1>5 DEF Conserved

LEMMA ClearStep ==
  ASSUME TypeInv, MutexInv, Control, Conserved, NEW f \in Flushers, FlushClear(f)
  PROVE  Control' /\ Conserved'
<1> DEFINE c == current[f]
<1>1. Flushers \subseteq Procs /\ pc \in [Procs -> PCs] /\ pc[f] = "committed"
  BY DEF Procs, Flushers, TypeInv, LocalsOK, FlushClear
<1>2. /\ pc' = [pc EXCEPT ![f] = "shards"]
      /\ UNCHANGED <<active, disk, log, broken, fStatus>>
      /\ inFlight' = [inFlight EXCEPT ![c] = NoOps[c]]
      /\ round' = [round EXCEPT ![f] = @ \ {c}]
  BY DEF FlushClear, ClearInFlight, history, flushMutex
<1>3. \A g \in Flushers : (pc[g] = "committed" <=> g = f) /\ pc'[g] # "committed"
  BY <1>1, <1>2, OnlyRound DEF InSection
<1>4. Control'
  <2>1. \A g \in Flushers : pc'[g] \in InSection => fStatus'[g] = "holding"
    BY <1>1, <1>2 DEF Control, InSection
  <2>2. \A g \in Flushers : pc'[g] \notin InSection \ {"swap"} => round'[g] = {}
    BY <1>1, <1>2 DEF Control, InSection, TypeInv, LocalsOK
  <2>3. ASSUME NEW s \in Shards \ broken, inFlight'[s] # NoOps[s]
        PROVE  \E g \in Flushers : s \in round'[g]
    <3>1. s # c /\ inFlight[s] # NoOps[s]
      BY <1>2, <2>3 DEF TypeInv, StoreOK
    <3>2. PICK g \in Flushers : s \in round[g]
      BY <3>1 DEF Control
    <3> QED
      BY <1>2, <3>1, <3>2 DEF TypeInv, LocalsOK
  <2> QED
    BY <1>2, <2>1, <2>2, <2>3 DEF Control
<1>5. \A s \in Shards : Pending(s)' = Pending(s)
  <2> SUFFICES ASSUME NEW s \in Shards PROVE Pending(s)' = Pending(s)
    OBVIOUS
  <2>1. Pending(s)' = inFlight'[s]
    BY <1>3 DEF Pending
  <2>2. CASE s = c
    BY <1>2, <1>3, <2>1, <2>2 DEF Pending, TypeInv, StoreOK
  <2>3. CASE s # c
    BY <1>2, <1>3, <2>1, <2>3 DEF Pending, TypeInv, StoreOK
  <2> QED
    BY <2>2, <2>3
<1> QED
  BY <1>2, <1>4, <1>5 DEF Conserved

LEMMA FailStep ==
  ASSUME TypeInv, MutexInv, Control, Conserved, NEW f \in Flushers, FlushFail(f)
  PROVE  Control' /\ Conserved'
<1>1. Flushers \subseteq Procs /\ pc \in [Procs -> PCs] /\ pc[f] = "transaction"
  BY DEF Procs, Flushers, TypeInv, LocalsOK, FlushFail
<1>2. /\ pc' = [pc EXCEPT ![f] = AfterFlush(f)]
      /\ UNCHANGED <<active, inFlight, disk, log>>
      /\ round' = [round EXCEPT ![f] = {}] /\ broken' = broken \cup round[f]
  BY DEF FlushFail, buffers
<1>3. AfterFlush(f) \notin InSection
  BY DEF AfterFlush, InSection
<1>4. \A g \in Flushers : pc[g] # "committed" /\ pc'[g] \notin InSection
  BY <1>1, <1>2, <1>3, OnlyRound DEF InSection
<1>5. \A s \in Shards \ broken' : inFlight'[s] = NoOps[s]
  BY <1>1, <1>2, OnlyRound DEF InSection
<1>6. \A g \in Flushers : round'[g] = {}
  BY <1>1, <1>2, OnlyRound DEF InSection, TypeInv, LocalsOK
<1>7. Control'
  BY <1>4, <1>5, <1>6 DEF Control
<1>8. \A s \in Shards : Pending(s)' = Pending(s)
  BY <1>2, <1>4 DEF Pending, InSection
<1> QED
  BY <1>2, <1>7, <1>8 DEF Conserved

PoolInv == TypeInv /\ MutexInv /\ Control /\ Conserved

LEMMA ConservedStep == PoolInv /\ [Next]_vars => Control' /\ Conserved'
<1> SUFFICES ASSUME TypeInv, MutexInv, Control, Conserved, [Next]_vars
             PROVE  Control' /\ Conserved'
  BY DEF PoolInv
<1>w. /\ Workers \subseteq Procs /\ Readers \subseteq Procs /\ Flushers \subseteq Procs
      /\ Reapers \subseteq Procs /\ Timers \subseteq Flushers /\ Stoppers \subseteq Flushers
      /\ pc \in [Procs -> PCs]
  BY DEF Procs, Flushers, TypeInv, LocalsOK
<1>r. \A p \in Flushers : pc[p] \notin InSection \ {"swap"} => round[p] = {}
  BY DEF Control
<1> USE DEF buffers, agents, locals, history, InSection
<1>1. ASSUME NEW w \in Workers, NEW op \in Ops, Push(w, op) PROVE Control' /\ Conserved'
  <2>1. PICK l \in {"idle", "stalled"} : pc' = [pc EXCEPT ![w] = l]
    BY <1>1 DEF Push, AwaitRoom
  <2>2. l \in PCs \ InSection
    BY DEF PCs
  <2> QED
    BY <1>w, <1>1, <2>1, <2>2, PushStep DEF Push
<1>2. ASSUME NEW w \in Workers, CommitPush(w) PROVE Control' /\ Conserved'
  <2>1. PICK l \in {"committing", "commitStalled"} : pc' = [pc EXCEPT ![w] = l]
    BY <1>2 DEF CommitPush, AwaitRoom
  <2>2. l \in PCs \ InSection
    BY DEF PCs
  <2>3. work[w].ops \in Seq(Ops) /\ work[w].ops # <<>>
    BY <1>2 DEF CommitPush, TypeInv, LocalsOK, Work
  <2>4. Head(work[w].ops) \in Ops
    BY <2>3, HeadTailProperties
  <2> QED
    BY <1>w, <1>2, <2>1, <2>2, <2>4, PushStep DEF CommitPush
<1>3. ASSUME NEW w \in Workers, NEW a \in Agents, NEW op \in Ops, AgentPush(w, a, op)
      PROVE  Control' /\ Conserved'
  <2>1. PICK l \in {"idle", "stalled"} : pc' = [pc EXCEPT ![w] = l]
    BY <1>3 DEF AgentPush, AwaitRoom
  <2>2. l \in PCs \ {"shards", "transaction", "committed"} /\ l # "swap"
    BY DEF PCs
  <2> QED
    BY <1>w, <1>r, <1>3, <2>1, <2>2, QuietStep DEF AgentPush
<1>4. ASSUME NEW w \in Workers, NEW a \in Agents, BeginCall(w, a) \/ CommitCall(w, a)
      PROVE  Control' /\ Conserved'
  BY <1>w, <1>r, <1>4, QuietStep DEF BeginCall, CommitCall, PCs
<1>5. ASSUME NEW w \in Workers, BeginWork(w) \/ CommitTake(w) \/ CommitEnd(w) \/ Resume(w)
      PROVE  Control' /\ Conserved'
  <2>1. PICK l \in {"idle", "committing"} : pc' = [pc EXCEPT ![w] = l]
    BY <1>5 DEF BeginWork, CommitTake, CommitEnd, Resume
  <2>2. pc[w] \notin InSection
    BY <1>5 DEF BeginWork, CommitTake, CommitEnd, Resume
  <2> QED
    BY <1>w, <1>r, <1>5, <2>1, <2>2, QuietStep
    DEF BeginWork, CommitTake, CommitEnd, Resume, PCs
<1>6. ASSUME NEW r \in Readers, NEW s \in Shards, NEW a \in Agents \cup {NoAgent},
             NEW b \in BOOLEAN, ReadCall(r, s, a, b)
      PROVE  Control' /\ Conserved'
  BY <1>w, <1>r, <1>6, QuietStep DEF ReadCall, PCs
<1>7. ASSUME NEW r \in Readers, ReadDisk(r) \/ ReadMerge(r) PROVE Control' /\ Conserved'
  BY <1>w, <1>r, <1>7, QuietStep DEF ReadDisk, ReadMerge, PCs
<1>8. ASSUME NEW p \in Reapers, SweepCall(p) \/ Sweep(p) PROVE Control' /\ Conserved'
  BY <1>w, <1>r, <1>8, QuietStep DEF SweepCall, Sweep, PCs
<1>9. ASSUME NEW f \in Timers, FlushCall(f) PROVE Control' /\ Conserved'
  BY <1>w, <1>r, <1>9, QuietStep DEF FlushCall, PCs
<1>10. ASSUME NEW x \in Stoppers, StopCall(x) \/ StopEnd(x) PROVE Control' /\ Conserved'
  BY <1>w, <1>r, <1>10, QuietStep DEF StopCall, StopEnd, PCs
<1>11. ASSUME NEW f \in Flushers, FlushEnter(f) PROVE Control' /\ Conserved'
  BY <1>w, <1>r, <1>11, QuietStep DEF FlushEnter, PCs
<1>12. ASSUME NEW f \in Flushers, FlushEnd(f) \/ FlushTimeout(f)
       PROVE  Control' /\ Conserved'
  <2>1. AfterFlush(f) \in PCs \ InSection
    BY DEF AfterFlush, PCs
  <2> QED
    BY <1>w, <1>r, <1>12, <2>1, QuietStep DEF FlushEnd, FlushTimeout
<1>13. ASSUME NEW p \in Procs, StateTimeout(p) PROVE Control' /\ Conserved'
  <2>1. PICK l \in {"idle", "closing"} : pc' = [pc EXCEPT ![p] = l]
    BY <1>13 DEF StateTimeout, AfterFlush
  <2> QED
    BY <1>w, <1>r, <1>13, <2>1, QuietStep DEF StateTimeout, PCs
<1>14. ASSUME NEW f \in Flushers, FlushSwap(f) PROVE Control' /\ Conserved'
  BY <1>14, SwapStep
<1>15. ASSUME NEW f \in Flushers, FlushBegin(f) PROVE Control' /\ Conserved'
  BY <1>15, BeginStep
<1>16. ASSUME NEW f \in Flushers, FlushCommit(f) PROVE Control' /\ Conserved'
  BY <1>16, CommitStep
<1>17. ASSUME NEW f \in Flushers, FlushClear(f) PROVE Control' /\ Conserved'
  BY <1>17, ClearStep
<1>18. ASSUME NEW f \in Flushers, FlushFail(f) PROVE Control' /\ Conserved'
  BY <1>18, FailStep
<1>19. CASE Crash
  <2>1. Control'
    BY <1>w, <1>19 DEF Crash, Control
  <2>2. ASSUME NEW s \in Shards, NEW t \in Tables
        PROVE  log'[s][t] = disk'[s][t] \o Pending(s)'[t] \o active'[s][t]
    <3>1. /\ log'[s][t] = disk[s][t] /\ disk' = disk
          /\ Pending(s)'[t] = <<>> /\ active'[s][t] = <<>>
      BY <1>19 DEF Crash, Pending, NoOps
    <3>2. disk[s][t] \in Seq(Ops)
      BY DEF TypeInv, StoreOK
    <3>3. disk[s][t] \o <<>> = disk[s][t]
      BY <3>2, ConcatEmptySeq
    <3> QED
      BY <3>1, <3>3
  <2> QED
    BY <1>19, <2>1, <2>2 DEF Crash, Conserved
<1>20. CASE UNCHANGED vars
  BY <1>20 DEF vars, flushMutex, Control, Conserved, Pending
<1> QED
  BY <1>w, <1>1, <1>2, <1>3, <1>4, <1>5, <1>6, <1>7, <1>8, <1>9, <1>10, <1>11, <1>12, <1>13,
     <1>14, <1>15, <1>16, <1>17, <1>18, <1>19, <1>20
  DEF Next, Calls, Steps, Faults, WorkerStep, ReaderStep, FlushStep

LEMMA PoolInit == Init => PoolInv
<1> SUFFICES ASSUME Init PROVE PoolInv
  OBVIOUS
<1>1. TypeInv /\ MutexInv
  BY TypeInit
<1>2. Control
  BY DEF Init, Control, InSection, Procs, Flushers
<1>3. ASSUME NEW s \in Shards, NEW t \in Tables
      PROVE  log[s][t] = disk[s][t] \o Pending(s)[t] \o active[s][t]
  BY DEF Init, Pending, NoOps
<1> QED
  BY <1>1, <1>2, <1>3 DEF PoolInv, Conserved

\* For every number of shards, tables, operations and activations, whatever fails,
\* times out or crashes: what a shard accepted and no failed flush abandoned is on
\* disk, in flight or buffered, in order, exactly once.
THEOREM PoolConserves == Spec => []Conserved
<1>1. PoolInv /\ [Next]_vars => PoolInv'
  BY ConservedStep, TypeStep, MutexStep DEF PoolInv
<1>2. PoolInv => Conserved
  BY DEF PoolInv
<1> QED
  BY <1>1, <1>2, PoolInit, PTL DEF Spec

-----------------------------------------------------------------------------
(* The pool implements DurableLog *)

\* What the pool holds of a table, in the order in which reads and flushes apply it.
Contents(s, t) == disk[s][t] \o Pending(s)[t] \o active[s][t]

\* The refinement mapping, once the pool is known to conserve what it accepts.
LEMMA KeptIsContents ==
  Conserved => Kept = [s \in Shards |-> [t \in Tables |-> Contents(s, t)]]
<1> SUFFICES ASSUME Conserved
             PROVE  Kept = [s \in Shards |-> [t \in Tables |-> Contents(s, t)]]
  OBVIOUS
<1>1. \A s \in Shards, t \in Tables :
        (IF s \in broken THEN disk[s][t] \o Pending(s)[t] \o active[s][t] ELSE log[s][t])
          = Contents(s, t)
  BY DEF Conserved, Contents
<1> QED
  BY <1>1 DEF Kept

LEMMA KeptIsContentsNext ==
  Conserved' => Kept' = [s \in Shards |-> [t \in Tables |-> Contents(s, t)']]
<1> SUFFICES ASSUME Conserved'
             PROVE  Kept' = [s \in Shards |-> [t \in Tables |-> Contents(s, t)']]
  OBVIOUS
<1>1. \A s \in Shards, t \in Tables :
        (IF s \in broken' THEN disk'[s][t] \o Pending(s)'[t] \o active'[s][t]
                          ELSE log'[s][t])
          = Contents(s, t)'
  BY DEF Conserved, Contents
<1> QED
  BY <1>1 DEF Kept

LEMMA ContentTypes ==
  ASSUME TypeInv, NEW s \in Shards, NEW t \in Tables
  PROVE  /\ disk[s][t] \in Seq(Ops) /\ inFlight[s][t] \in Seq(Ops)
         /\ active[s][t] \in Seq(Ops) /\ Pending(s)[t] \in Seq(Ops)
         /\ disk[s][t] \o Pending(s)[t] \in Seq(Ops) /\ Contents(s, t) \in Seq(Ops)
<1>1. /\ disk[s][t] \in Seq(Ops) /\ inFlight[s][t] \in Seq(Ops)
      /\ active[s][t] \in Seq(Ops) /\ Pending(s)[t] \in Seq(Ops)
  BY DEF TypeInv, StoreOK, Pending, NoOps
<1> QED
  BY <1>1, ConcatProperties DEF Contents

\* A step that moves p, but neither into nor out of the end of a transaction.
Moves(p, l) ==
  /\ p \in Procs /\ pc' = [pc EXCEPT ![p] = l]
  /\ pc[p] # "committed" /\ l # "committed"
  /\ \A f \in Flushers : f # p => current'[f] = current[f]

LEMMA PendingStays ==
  ASSUME TypeInv, NEW p, NEW l, Moves(p, l), NEW s \in Shards, inFlight'[s] = inFlight[s]
  PROVE  Pending(s)' = Pending(s)
<1>1. \A f \in Flushers : /\ pc'[f] = "committed" <=> pc[f] = "committed"
                          /\ pc[f] = "committed" => current'[f] = current[f]
  BY DEF Moves, TypeInv, LocalsOK, Procs, Flushers
<1> QED
  BY <1>1 DEF Pending

LEMMA Stutters ==
  ASSUME TypeInv, Conserved, Conserved', NEW p, NEW l, Moves(p, l),
         UNCHANGED <<active, inFlight, disk, broken>>
  PROVE  UNCHANGED Durable!vars
<1>1. \A s \in Shards, t \in Tables : Contents(s, t)' = Contents(s, t)
  BY PendingStays DEF Contents
<1> QED
  BY <1>1, KeptIsContents, KeptIsContentsNext DEF Durable!vars

LEMMA PushAccepts ==
  ASSUME TypeInv, Conserved, Conserved', NEW p, NEW l, Moves(p, l), NEW op \in Ops,
         AppendActive(op), UNCHANGED <<inFlight, disk, broken>>
  PROVE  Durable!Accept(ShardOf[op], TableOf[op], op)
<1> DEFINE c == ShardOf[op]
           u == TableOf[op]
<1>1. c \in Shards /\ u \in Tables
  BY OpsAssumption
<1>2. ASSUME NEW s \in Shards, NEW t \in Tables
      PROVE  Contents(s, t)' = IF s = c /\ t = u THEN Append(Contents(s, t), op)
                                                 ELSE Contents(s, t)
  <2>1. Pending(s)' = Pending(s)
    BY PendingStays
  <2>2. CASE s = c /\ t = u
    <3>1. active'[s][t] = Append(active[s][t], op)
      BY <1>1, <2>2 DEF AppendActive, TypeInv, StoreOK
    <3>2. Append(Contents(s, t), op) = disk[s][t] \o Pending(s)[t] \o Append(active[s][t], op)
      <4>1. /\ disk[s][t] \in Seq(Ops) /\ Pending(s)[t] \in Seq(Ops)
            /\ active[s][t] \in Seq(Ops)
        BY ContentTypes
      <4>2. Append(disk[s][t] \o Pending(s)[t] \o active[s][t], op)
              = disk[s][t] \o Pending(s)[t] \o Append(active[s][t], op)
        BY <4>1, AppendLast
      <4> QED
        BY <4>2 DEF Contents
    <3>3. Contents(s, t)' = disk[s][t] \o Pending(s)[t] \o Append(active[s][t], op)
      BY <2>1, <3>1 DEF Contents
    <3> QED
      BY <2>2, <3>2, <3>3
  <2>3. CASE ~(s = c /\ t = u)
    <3>1. active'[s][t] = active[s][t]
      BY <1>1, <2>3 DEF AppendActive, TypeInv, StoreOK
    <3> QED
      BY <2>1, <2>3, <3>1 DEF Contents
  <2> QED
    BY <2>2, <2>3
<1>3. Kept' = [Kept EXCEPT ![c][u] = Append(@, op)]
  <2>1. /\ Kept = [s \in Shards |-> [t \in Tables |-> Contents(s, t)]]
        /\ Kept' = [s \in Shards |-> [t \in Tables |-> Contents(s, t)']]
    BY KeptIsContents, KeptIsContentsNext
  <2>2. Kept' = [s \in Shards |-> [t \in Tables |->
                   IF s = c /\ t = u THEN Append(Contents(s, t), op) ELSE Contents(s, t)]]
    BY <1>2, <2>1
  <2> HIDE DEF c, u
  <2> QED
    BY <1>1, <2>1, <2>2
<1> QED
  BY <1>3 DEF Durable!Accept

\* What follows a prefix.
LEMMA Suffix ==
  ASSUME NEW p \in Seq(Ops), NEW a \in Seq(Ops)
  PROVE  SubSeq(p \o a, Len(p) + 1, Len(p \o a)) = a
<1>1. /\ p \o a \in Seq(Ops) /\ Len(p \o a) = Len(p) + Len(a)
      /\ Len(p) \in Nat /\ Len(a) \in Nat
  BY ConcatProperties, LenProperties
<1>2. CASE a = <<>>
  <2>1. Len(a) = 0
    BY <1>2, EmptySeq
  <2> QED
    BY <1>1, <1>2, <2>1, SubSeqEmpty
<1>3. CASE a # <<>>
  <2>1. Len(a) > 0
    BY <1>1, <1>3, EmptySeq
  <2>2. SubSeq(p \o a, Len(p) + 1, Len(p) + Len(a))
          = SubSeq(a, Len(p) + 1 - Len(p), Len(p) + Len(a) - Len(p))
    BY <1>1, <2>1, SubSeqOfConcat2
  <2>3. Len(p) + 1 - Len(p) = 1 /\ Len(p) + Len(a) - Len(p) = Len(a)
    BY <1>1
  <2> QED
    BY <1>1, <2>2, <2>3, SubSeqFull
<1> QED
  BY <1>2, <1>3

LEMMA Prefix ==
  ASSUME NEW p \in Seq(Ops), NEW a \in Seq(Ops)
  PROVE  Durable!IsPrefix(p, p \o a)
<1>1. Len(p \o a) = Len(p) + Len(a) /\ Len(p) \in Nat /\ Len(a) \in Nat
  BY ConcatProperties, LenProperties
<1>2. SubSeq(p, 1, Len(p)) = SubSeq(p \o a, 1, Len(p))
  <2>1. CASE Len(p) = 0
    BY <2>1, SubSeqEmpty
  <2>2. CASE Len(p) # 0
    BY <1>1, <2>2, SubSeqOfConcat1
  <2> QED
    BY <2>1, <2>2
<1> QED
  BY <1>1, <1>2 DEF Durable!IsPrefix

\* A swap drops what a failed transaction left in flight, and nothing else.
LEMMA SwapDrops ==
  ASSUME PoolInv, PoolInv', NEW f \in Flushers, FlushSwap(f)
  PROVE  \E shards \in SUBSET Shards : Durable!Drop(shards)
<1> USE DEF PoolInv
<1> DEFINE dirty == {s \in Shards : activeSize[s] > 0}
<1>1. /\ pc[f] = "swap" /\ pc' = [pc EXCEPT ![f] = "shards"]
      /\ UNCHANGED <<disk, log, broken>>
      /\ SwapToInFlight(dirty)
  BY DEF FlushSwap, history
<1>2. \A g \in Flushers : pc[g] # "committed" /\ pc'[g] # "committed"
  <2>1. Flushers \subseteq Procs /\ pc \in [Procs -> PCs]
    BY DEF Procs, Flushers, TypeInv, LocalsOK
  <2> QED
    BY <1>1, <2>1, OnlyRound DEF InSection
<1>3. \A s \in Shards : Pending(s) = inFlight[s] /\ Pending(s)' = inFlight'[s]
  BY <1>2 DEF Pending
<1>4. \A s \in Shards, t \in Tables : Kept[s][t] = Contents(s, t) /\ Kept'[s][t] = Contents(s, t)'
  BY KeptIsContents, KeptIsContentsNext
<1>5. ASSUME NEW s \in dirty \cap broken, NEW t \in Tables
      PROVE  Kept'[s][t] \in Durable!Kept(s, t)
  <2> DEFINE p == disk[s][t] \o inFlight[s][t]
             k == Len(p) + 1
  <2>1. disk[s][t] \in Seq(Ops) /\ inFlight[s][t] \in Seq(Ops) /\ active[s][t] \in Seq(Ops)
        /\ p \in Seq(Ops) /\ disk[s][t] \o active[s][t] \in Seq(Ops)
    BY ContentTypes, ConcatProperties
  <2>2. Kept[s][t] = p \o active[s][t]
    BY <1>3, <1>4 DEF Contents
  <2>3. Kept'[s][t] = disk[s][t] \o active[s][t]
    <3>1. Contents(s, t)' = disk[s][t] \o active[s][t] \o <<>>
      BY <1>1, <1>3 DEF Contents, SwapToInFlight, NoOps
    <3> QED
      BY <1>4, <2>1, <3>1, ConcatEmptySeq
  <2>4. /\ SubSeq(Kept[s][t], k, Len(Kept[s][t])) = active[s][t]
        /\ k \in Len(disk[s][t]) + 1 .. Len(Kept[s][t]) + 1
    <3>1. Len(p) = Len(disk[s][t]) + Len(inFlight[s][t])
          /\ Len(Kept[s][t]) = Len(p) + Len(active[s][t])
      BY <2>1, <2>2, ConcatProperties
    <3>2. Len(disk[s][t]) \in Nat /\ Len(inFlight[s][t]) \in Nat /\ Len(active[s][t]) \in Nat
      BY <2>1, LenProperties
    <3>3. SubSeq(p \o active[s][t], k, Len(p \o active[s][t])) = active[s][t]
      BY <2>1, Suffix
    <3> HIDE DEF p
    <3>4. SubSeq(Kept[s][t], k, Len(Kept[s][t])) = active[s][t]
      BY <2>2, <3>3
    <3>5. k \in Len(disk[s][t]) + 1 .. Len(Kept[s][t]) + 1
      <4>1. \A d, i, a \in Nat : d + i + 1 \in d + 1 .. (d + i + a) + 1
        OBVIOUS
      <4>2. /\ k = Len(disk[s][t]) + Len(inFlight[s][t]) + 1
            /\ Len(Kept[s][t]) = Len(disk[s][t]) + Len(inFlight[s][t]) + Len(active[s][t])
        BY <3>1
      <4> QED
        BY <3>2, <4>1, <4>2
    <3> QED
      BY <3>4, <3>5
  <2> HIDE DEF k, p
  <2> QED
    BY <2>3, <2>4 DEF Durable!Kept
<1>6. ASSUME NEW s \in Shards, s \notin dirty \cap broken, NEW t \in Tables
      PROVE  Kept'[s][t] = Kept[s][t]
  <2>1. CASE s \in broken
    <3>1. inFlight'[s] = inFlight[s] /\ active'[s] = active[s]
      BY <1>1, <1>6, <2>1 DEF SwapToInFlight
    <3> QED
      BY SMTT(30), ZenonT(60), <1>1, <1>3, <1>4, <3>1 DEF Contents
  <2>2. CASE s \notin broken
    BY <1>1, <2>2 DEF Kept
  <2> QED
    BY <2>1, <2>2
<1>7. Durable!Drop(dirty \cap broken)
  BY <1>1, <1>5, <1>6 DEF Durable!Drop
<1> HIDE DEF dirty
<1> QED
  BY <1>7 DEF TypeInv, HistoryOK

\* A transaction moves the durable prefix of its shard forward.
LEMMA CommitPersists ==
  ASSUME PoolInv, PoolInv', NEW f \in Flushers, FlushCommit(f)
  PROVE  \E s \in Shards : Durable!Persist(s)
<1> USE DEF PoolInv
<1> DEFINE c == current[f]
<1>1. /\ pc[f] = "transaction" /\ pc' = [pc EXCEPT ![f] = "committed"]
      /\ UNCHANGED <<active, inFlight, broken, current>>
      /\ disk' = [disk EXCEPT ![c] = [t \in Tables |-> disk[c][t] \o inFlight[c][t]]]
  BY DEF FlushCommit, buffers, history, locals
<1>2. c \in Shards
  BY <1>1 DEF TypeInv, Frames, LocalsOK
<1>3. \A g \in Flushers : pc[g] # "committed" /\ (pc'[g] = "committed" <=> g = f)
  <2>1. Flushers \subseteq Procs /\ pc \in [Procs -> PCs]
    BY DEF Procs, Flushers, TypeInv, LocalsOK
  <2> QED
    BY <1>1, <2>1, OnlyRound DEF InSection
<1>4. \A s \in Shards : /\ Pending(s) = inFlight[s]
                        /\ Pending(s)' = IF s = c THEN NoOps[s] ELSE inFlight[s]
  BY <1>1, <1>3 DEF Pending
<1> HIDE DEF c
<1>5. ASSUME NEW s \in Shards, NEW t \in Tables
      PROVE  /\ s # c => disk'[s] = disk[s]
             /\ s = c => disk'[s][t] = disk[s][t] \o inFlight[s][t]
             /\ Contents(s, t)' = Contents(s, t)
  <2>1. disk[s][t] \o inFlight[s][t] \in Seq(Ops)
    BY ContentTypes, ConcatProperties
  <2>2. /\ s # c => disk'[s] = disk[s]
        /\ s = c => disk'[s][t] = disk[s][t] \o inFlight[s][t]
    BY <1>1, <1>2 DEF TypeInv, StoreOK
  <2>3. CASE s = c
    <3>1. Contents(s, t)' = (disk[s][t] \o inFlight[s][t]) \o <<>> \o active[s][t]
      BY <1>1, <1>4, <2>2, <2>3 DEF Contents, NoOps
    <3>2. Contents(s, t)' = disk[s][t] \o inFlight[s][t] \o active[s][t]
      BY <2>1, <3>1, ConcatEmptySeq
    <3> QED
      BY <1>4, <2>2, <2>3, <3>2 DEF Contents
  <2>4. CASE s # c
    BY <1>1, <1>4, <2>2, <2>4 DEF Contents
  <2> QED
    BY <2>2, <2>3, <2>4
<1>6. Kept' = Kept
  BY <1>5, KeptIsContents, KeptIsContentsNext
<1>7. ASSUME NEW t \in Tables
      PROVE  /\ Durable!IsPrefix(disk[c][t], disk'[c][t])
             /\ Durable!IsPrefix(disk'[c][t], Kept[c][t])
  <2>1. /\ disk[c][t] \in Seq(Ops) /\ inFlight[c][t] \in Seq(Ops) /\ active[c][t] \in Seq(Ops)
        /\ disk[c][t] \o inFlight[c][t] \in Seq(Ops)
    BY <1>2, ContentTypes, ConcatProperties
  <2>2. disk'[c][t] = disk[c][t] \o inFlight[c][t]
    BY <1>2, <1>5
  <2>3. Kept[c][t] = disk'[c][t] \o active[c][t]
    <3>1. Kept[c][t] = Contents(c, t)
      BY <1>2, KeptIsContents
    <3>2. Contents(c, t) = (disk[c][t] \o inFlight[c][t]) \o active[c][t]
      BY <1>2, <1>4 DEF Contents
    <3> QED
      BY <2>2, <3>1, <3>2
  <2> QED
    BY <2>1, <2>2, <2>3, Prefix
<1>8. Durable!Persist(c)
  BY <1>1, <1>5, <1>6, <1>7 DEF Durable!Persist
<1> QED
  BY <1>2, <1>8

\* The clear forgets what the disk has.
LEMMA ClearStutters ==
  ASSUME PoolInv, PoolInv', NEW f \in Flushers, FlushClear(f)
  PROVE  UNCHANGED Durable!vars
<1> USE DEF PoolInv
<1> DEFINE c == current[f]
<1>1. /\ pc[f] = "committed" /\ pc' = [pc EXCEPT ![f] = "shards"]
      /\ UNCHANGED <<active, disk, broken>>
      /\ inFlight' = [inFlight EXCEPT ![c] = NoOps[c]]
  BY DEF FlushClear, ClearInFlight, history
<1>2. \A g \in Flushers : (pc[g] = "committed" <=> g = f) /\ pc'[g] # "committed"
  <2>1. Flushers \subseteq Procs /\ pc \in [Procs -> PCs]
    BY DEF Procs, Flushers, TypeInv, LocalsOK
  <2> QED
    BY <1>1, <2>1, OnlyRound DEF InSection
<1>3. ASSUME NEW s \in Shards PROVE Pending(s)' = Pending(s)
  <2>1. Pending(s)' = inFlight'[s]
    BY <1>2 DEF Pending
  <2>2. Pending(s) = IF s = c THEN NoOps[s] ELSE inFlight[s]
    BY <1>2 DEF Pending
  <2> QED
    BY <1>1, <2>1, <2>2 DEF TypeInv, StoreOK
<1>4. \A s \in Shards, t \in Tables : Contents(s, t)' = Contents(s, t)
  BY <1>1, <1>3 DEF Contents
<1> QED
  BY <1>1, <1>4, KeptIsContents, KeptIsContentsNext DEF Durable!vars

LEMMA FailFails ==
  ASSUME PoolInv, PoolInv', NEW f \in Flushers, FlushFail(f)
  PROVE  \E shards \in SUBSET Shards : Durable!Fail(shards)
<1> USE DEF PoolInv
<1>1. /\ pc[f] = "transaction" /\ pc' = [pc EXCEPT ![f] = AfterFlush(f)]
      /\ UNCHANGED <<active, inFlight, disk>> /\ broken' = broken \cup round[f]
      /\ current' = [current EXCEPT ![f] = NoShard]
  BY DEF FlushFail, buffers
<1>2. Moves(f, AfterFlush(f))
  BY <1>1 DEF Moves, AfterFlush, TypeInv, LocalsOK, Procs, Flushers
<1>3. \A s \in Shards, t \in Tables : Contents(s, t)' = Contents(s, t)
  BY <1>1, <1>2, PendingStays DEF Contents
<1>4. Kept' = Kept
  BY <1>3, KeptIsContents, KeptIsContentsNext
<1>5. Durable!Fail(round[f])
  BY <1>1, <1>4 DEF Durable!Fail
<1> QED
  BY <1>5 DEF TypeInv, LocalsOK

LEMMA CrashForgets ==
  ASSUME TypeInv, Crash PROVE Durable!Crash
<1>1. Kept' = [s \in Shards |-> [t \in Tables |-> disk[s][t]]]
  BY DEF Crash, Kept
<1>2. Kept' = disk
  BY <1>1 DEF TypeInv, StoreOK
<1> QED
  BY <1>2 DEF Durable!Crash, Crash

-----------------------------------------------------------------------------
LEMMA StepRefines ==
  ASSUME PoolInv, PoolInv', [Next]_vars
  PROVE  [Durable!Next]_Durable!vars
<1>w. /\ Workers \subseteq Procs /\ Readers \subseteq Procs /\ Flushers \subseteq Procs
      /\ Reapers \subseteq Procs /\ Timers \subseteq Flushers /\ Stoppers \subseteq Flushers
      /\ pc \in [Procs -> PCs] /\ TypeInv /\ Conserved /\ Conserved'
  BY DEF Procs, Flushers, PoolInv, TypeInv, LocalsOK
<1>a. \A op \in Ops : ShardOf[op] \in Shards /\ TableOf[op] \in Tables
  BY OpsAssumption
<1> USE DEF buffers, agents, locals, history
<1>1. ASSUME NEW w \in Workers, NEW op \in Ops, Push(w, op) PROVE Durable!Next
  <2>1. PICK l \in {"idle", "stalled"} : pc' = [pc EXCEPT ![w] = l]
    BY <1>1 DEF Push, AwaitRoom
  <2>2. Moves(w, l)
    BY <1>w, <1>1, <2>1 DEF Moves, Push
  <2>3. Durable!Accept(ShardOf[op], TableOf[op], op)
    BY <1>w, <1>1, <2>2, PushAccepts DEF Push
  <2> QED
    BY <1>a, <2>3 DEF Durable!Next
<1>2. ASSUME NEW w \in Workers, CommitPush(w) PROVE Durable!Next
  <2>1. PICK l \in {"committing", "commitStalled"} : pc' = [pc EXCEPT ![w] = l]
    BY <1>2 DEF CommitPush, AwaitRoom
  <2>2. Moves(w, l)
    BY <1>w, <1>2, <2>1 DEF Moves, CommitPush
  <2>3. work[w].ops \in Seq(Ops) /\ work[w].ops # <<>>
    BY <1>w, <1>2 DEF CommitPush, TypeInv, LocalsOK, Work
  <2>4. Head(work[w].ops) \in Ops
    BY <2>3, HeadTailProperties
  <2>5. Durable!Accept(ShardOf[Head(work[w].ops)], TableOf[Head(work[w].ops)],
                       Head(work[w].ops))
    BY <1>w, <1>2, <2>2, <2>4, PushAccepts DEF CommitPush
  <2> QED
    BY <1>a, <2>4, <2>5 DEF Durable!Next
<1>3. ASSUME NEW w \in Workers, NEW a \in Agents, NEW op \in Ops, AgentPush(w, a, op)
      PROVE  UNCHANGED Durable!vars
  <2>1. PICK l \in {"idle", "stalled"} : pc' = [pc EXCEPT ![w] = l]
    BY <1>3 DEF AgentPush, AwaitRoom
  <2>2. Moves(w, l)
    BY <1>w, <1>3, <2>1 DEF Moves, AgentPush
  <2> QED
    BY <1>w, <1>3, <2>2, Stutters DEF AgentPush
<1>4. ASSUME NEW p \in Procs, NEW l \in PCs \ {"committed"}, pc' = [pc EXCEPT ![p] = l],
             pc[p] # "committed", UNCHANGED <<active, inFlight, disk, broken>>,
             \A g \in Flushers : g # p => current'[g] = current[g]
      PROVE  UNCHANGED Durable!vars
  <2>1. Moves(p, l)
    BY <1>4 DEF Moves
  <2> QED
    BY <1>w, <1>4, <2>1, Stutters
<1>5. ASSUME NEW w \in Workers, NEW a \in Agents, BeginCall(w, a) \/ CommitCall(w, a)
      PROVE  UNCHANGED Durable!vars
  BY <1>w, <1>4, <1>5 DEF BeginCall, CommitCall, PCs
<1>6. ASSUME NEW w \in Workers, BeginWork(w) \/ CommitTake(w) \/ CommitEnd(w) \/ Resume(w)
      PROVE  UNCHANGED Durable!vars
  <2>1. PICK l \in {"idle", "committing"} : pc' = [pc EXCEPT ![w] = l]
    BY <1>6 DEF BeginWork, CommitTake, CommitEnd, Resume
  <2> QED
    BY <1>w, <1>4, <1>6, <2>1 DEF BeginWork, CommitTake, CommitEnd, Resume, PCs
<1>7. ASSUME NEW r \in Readers, NEW s \in Shards, NEW a \in Agents \cup {NoAgent},
             NEW b \in BOOLEAN, ReadCall(r, s, a, b)
      PROVE  UNCHANGED Durable!vars
  BY <1>w, <1>4, <1>7 DEF ReadCall, PCs
<1>8. ASSUME NEW r \in Readers, ReadDisk(r) \/ ReadMerge(r)
      PROVE  UNCHANGED Durable!vars
  BY <1>w, <1>4, <1>8 DEF ReadDisk, ReadMerge, PCs
<1>9. ASSUME NEW p \in Reapers, SweepCall(p) \/ Sweep(p)
      PROVE  UNCHANGED Durable!vars
  BY <1>w, <1>4, <1>9 DEF SweepCall, Sweep, PCs
<1>10. ASSUME NEW f \in Flushers, FlushCall(f) \/ StopCall(f) \/ StopEnd(f) \/ FlushEnter(f)
       PROVE  UNCHANGED Durable!vars
  BY <1>w, <1>4, <1>10 DEF FlushCall, StopCall, StopEnd, FlushEnter, PCs
<1>11. ASSUME NEW f \in Flushers, FlushEnd(f) \/ FlushTimeout(f)
       PROVE  UNCHANGED Durable!vars
  <2>1. AfterFlush(f) \in PCs \ {"committed"}
    BY DEF AfterFlush, PCs
  <2> QED
    BY <1>w, <1>4, <1>11, <2>1 DEF FlushEnd, FlushTimeout
<1>12. ASSUME NEW f \in Flushers, FlushBegin(f)
       PROVE  UNCHANGED Durable!vars
  <2>1. \A g \in Flushers : g # f => current'[g] = current[g]
    BY <1>w, <1>12 DEF FlushBegin, TypeInv, LocalsOK
  <2> QED
    BY <1>w, <1>4, <1>12, <2>1 DEF FlushBegin, PCs
<1>13. ASSUME NEW p \in Procs, StateTimeout(p)
       PROVE  UNCHANGED Durable!vars
  <2>1. PICK l \in {"idle", "closing"} : pc' = [pc EXCEPT ![p] = l]
    BY <1>13 DEF StateTimeout, AfterFlush
  <2> QED
    BY <1>w, <1>4, <1>13, <2>1 DEF StateTimeout, PCs
<1>14. ASSUME NEW f \in Flushers, FlushSwap(f) \/ FlushCommit(f) \/ FlushFail(f)
       PROVE  Durable!Next
  BY <1>14, SwapDrops, CommitPersists, FailFails DEF Durable!Next
<1>15. ASSUME NEW f \in Flushers, FlushClear(f) PROVE UNCHANGED Durable!vars
  BY <1>15, ClearStutters
<1>16. CASE Crash
  BY <1>w, <1>16, CrashForgets DEF Durable!Next
<1>17. CASE UNCHANGED vars
  <2>1. UNCHANGED Kept
    BY <1>17 DEF vars, Kept, Pending
  <2> QED
    BY <1>17, <2>1 DEF vars, Durable!vars
<1> QED
  BY <1>w, <1>1, <1>2, <1>3, <1>5, <1>6, <1>7, <1>8, <1>9, <1>10, <1>11, <1>12, <1>13, <1>14,
     <1>15, <1>16, <1>17
  DEF Next, Calls, Steps, Faults, WorkerStep, ReaderStep, FlushStep

LEMMA InitRefines == Init => Durable!Init
  BY DEF Init, Durable!Init, Durable!Empty, Kept, NoOps

\* For every number of shards, tables, operations and activations, and whatever fails,
\* times out or crashes: the pool is a durable log per table.  Each of its steps accepts
\* one operation, makes a prefix of one shard durable, marks shards as failed, drops
\* batches of failed shards, forgets at a crash what was not durable, or is invisible.
THEOREM PoolIsDurableLog == Spec => ImplementsDurableLog
<1>1. PoolInv /\ [Next]_vars => PoolInv'
  BY ConservedStep, TypeStep, MutexStep DEF PoolInv
<1>2. PoolInv /\ PoolInv' /\ [Next]_vars => [Durable!Next]_Durable!vars
  BY StepRefines
<1> QED
  BY <1>1, <1>2, PoolInit, InitRefines, PTL DEF Spec, ImplementsDurableLog, Durable!Spec
=============================================================================
