---------------------------- MODULE WriteBehind -----------------------------
(***************************************************************************)
(* BufferedDbPool (src/infrastructure/db/pool/index.ts) over the buffers   *)
(* of ShardState.ts and the two mutexes of Mutex.ts.                       *)
(*                                                                         *)
(* A process is one activation of an async method: a worker that pushes,   *)
(* begins and commits an agent's work; a reader in selectWhere; a timer    *)
(* tick in flush(); the caller of stop(); the reaper in cleanupShadows().  *)
(* An action is what JavaScript runs between two awaits.  A call that      *)
(* starts with "await mutex.acquire()" is a ...Call action that enters the *)
(* mutex and a second action that runs once the lock was granted.          *)
(*                                                                         *)
(* An operation is a member of Ops with a shard, a table and, for status   *)
(* changes of queue jobs, the job it names; each is pushed at most once.   *)
(* "disk" lists, per shard and table, the operations whose transaction     *)
(* committed.  Row contents are abstracted away here.                      *)
(***************************************************************************)
EXTENDS Naturals, FiniteSets, SequencesExt

CONSTANTS
  Shards, Tables, Ops,
  ShardOf, TableOf, JobOf,    \* functions on Ops
  NoJob,                      \* JobOf value of an operation the status index ignores
  Agents, NoAgent, NoShard,
  Workers, Readers, Timers, Stoppers, Reapers,   \* activations
  MaxBuffer,                  \* ShardState.MAX_BUFFER_SIZE
  MaxTxFailures, MaxTimeouts, MaxCrashes         \* bounds on faults

Flushers == Timers \cup Stoppers

Procs == Workers \cup Readers \cup Flushers \cup Reapers

ASSUME OpsAssumption ==
  /\ ShardOf \in [Ops -> Shards]
  /\ TableOf \in [Ops -> Tables]
  /\ NoShard \notin Shards
  /\ NoAgent \notin Agents

ASSUME ProcsAssumption ==
  /\ Workers \cap (Readers \cup Flushers \cup Reapers) = {}
  /\ Readers \cap (Flushers \cup Reapers) = {}
  /\ Flushers \cap Reapers = {}
  /\ Timers \cap Stoppers = {}

ASSUME WorkersAssumption == IsFiniteSet(Workers)

ASSUME BoundsAssumption == MaxBuffer \in Nat

VARIABLES
  active, activeSize, index,     \* ShardState: activeBuffer, activeSize, activeIndex
  inFlight, inFlightIndex,       \* ShardState: inFlightBuffer, inFlightIndex
  working, shadow,               \* agentShadows: its keys, and the ops of each
  disk,                          \* operations of committed transactions
  sLocked, sQueue, sStatus,      \* stateMutex
  fLocked, fQueue, fStatus,      \* flushMutex
  pc,                            \* where each process is
  work,                          \* a worker's locals
  round, current,                \* a flusher's activeShards still to do, and its shard
  view,                          \* a reader's locals
  issued,                        \* operations some call has pushed
  log,                           \* history: operations accepted by the active buffers
  units,                         \* history: what each commitWork took from its shadow
  broken,                        \* history: shards a failed flush left in flight
  owed,                          \* history: operations accepted before stop() was called
  txFailures, timeouts, crashes  \* faults so far

buffers == <<active, activeSize, index, inFlight, inFlightIndex>>
agents == <<working, shadow>>
stateMutex == <<sLocked, sQueue, sStatus>>
flushMutex == <<fLocked, fQueue, fStatus>>
locals == <<work, round, current, view>>
history == <<log, units, broken, owed>>
faults == <<txFailures, timeouts, crashes>>

vars == <<buffers, agents, disk, stateMutex, flushMutex, pc, locals, issued,
          history, faults>>

State == INSTANCE Mutex WITH Callers <- Procs, locked <- sLocked, queue <- sQueue,
                             status <- sStatus

Flush == INSTANCE Mutex WITH Callers <- Procs, locked <- fLocked, queue <- fQueue,
                             status <- fStatus

NoOps == [s \in Shards |-> [t \in Tables |-> <<>>]]

NoWork == [agent |-> NoAgent, ops |-> <<>>, stalledOn |-> NoShard]

NoView == [shard |-> NoShard, agent |-> NoAgent, byStatus |-> FALSE, rows |-> {}]

OpsIn(buffer) == UNION {Range(buffer[t]) : t \in Tables}

Init ==
  /\ active = NoOps /\ inFlight = NoOps /\ disk = NoOps /\ log = NoOps
  /\ activeSize = [s \in Shards |-> 0]
  /\ index = [s \in Shards |-> {}] /\ inFlightIndex = index
  /\ working = {} /\ shadow = [a \in Agents |-> <<>>]
  /\ State!Init /\ Flush!Init
  /\ pc = [p \in Procs |-> "idle"]
  /\ work = [w \in Workers |-> NoWork]
  /\ round = [f \in Flushers |-> {}] /\ current = [f \in Flushers |-> NoShard]
  /\ view = [r \in Readers |-> NoView]
  /\ issued = {} /\ units = {} /\ broken = {} /\ owed = {}
  /\ txFailures = 0 /\ timeouts = 0 /\ crashes = 0

\* stop() was called: the timers are cleared.
Stopping == \E x \in Stoppers : pc[x] # "idle"

\* Where the activation that called flush() goes on: stop() swallows a failure.
AfterFlush(f) == IF f \in Stoppers THEN "closing" ELSE "idle"

-----------------------------------------------------------------------------
(* Shard buffers *)

\* A seeded fault, see below: a swap that copies the active buffer and does not replace it.
SwapToInFlight_Copies(dirty) ==
  /\ inFlight' = [s \in Shards |-> IF s \in dirty THEN active[s] ELSE inFlight[s]]
  /\ inFlightIndex' = [s \in Shards |-> IF s \in dirty THEN index[s] ELSE inFlightIndex[s]]
  /\ UNCHANGED <<active, index, activeSize>>

\* swapToInFlight() of the dirty shards: what their in-flight buffers still held is
\* gone.
SwapToInFlight(dirty) ==
  /\ inFlight' = [s \in Shards |-> IF s \in dirty THEN active[s] ELSE inFlight[s]]
  /\ inFlightIndex' = [s \in Shards |-> IF s \in dirty THEN index[s] ELSE inFlightIndex[s]]
  /\ active' = [s \in Shards |-> IF s \in dirty THEN NoOps[s] ELSE active[s]]
  /\ index' = [s \in Shards |-> IF s \in dirty THEN {} ELSE index[s]]
  /\ activeSize' = [s \in Shards |-> IF s \in dirty THEN 0 ELSE activeSize[s]]

ClearInFlight(s) ==
  /\ inFlight' = [inFlight EXCEPT ![s] = NoOps[s]]
  /\ inFlightIndex' = [inFlightIndex EXCEPT ![s] = {}]

-----------------------------------------------------------------------------
(* Seeded faults: forms the definitions below must not have.  They are part of   *)
(* no specification; each shows that a property can fail.                        *)

\* push() that never finds a buffer full.
Overloaded_Never(size) == FALSE

\* commitWork() that releases stateMutex before it pushes.
CommitTake_Releases(w) ==
  LET a == work[w].agent IN
  /\ pc[w] = "commit"
  /\ State!Release(w)
  /\ work' = [work EXCEPT ![w].ops = shadow[a]]
  /\ units' = units \cup {Range(shadow[a])}
  /\ working' = working \ {a}
  /\ shadow' = [shadow EXCEPT ![a] = <<>>]
  /\ pc' = [pc EXCEPT ![w] = "committing"]
  /\ UNCHANGED <<buffers, disk, flushMutex, round, current, view, issued, log, broken,
                 owed, faults>>

\* A query that does not wait for a transaction of its shard, nor makes one wait.
ConnectionFree_Always(s) == TRUE

\* A flush that does not clear the in-flight buffer, and flushes it again.
FlushClear_Repeats(f) ==
  /\ pc[f] = "committed"
  /\ pc' = [pc EXCEPT ![f] = "shards"]
  /\ current' = [current EXCEPT ![f] = NoShard]
  /\ UNCHANGED <<buffers, agents, disk, stateMutex, flushMutex, work, round, view, issued,
                 history, faults>>

\* stop() that closes without a final flush when a flush is already running.
StopCall_Skips(x) ==
  /\ pc[x] = "idle" /\ ~Stopping
  /\ owed' = UNION {OpsIn(log[s]) : s \in Shards}
  /\ IF fLocked THEN pc' = [pc EXCEPT ![x] = "closing"] /\ UNCHANGED flushMutex
                ELSE pc' = [pc EXCEPT ![x] = "flush"] /\ Flush!Acquire(x)
  /\ UNCHANGED <<buffers, agents, disk, stateMutex, locals, issued, log, units, broken,
                 faults>>

\* A flush that leaves flushMutex locked when there was nothing to flush.
FlushEnd_EarlyReturn(f) ==
  /\ pc[f] = "shards" /\ round[f] = {}
  /\ UNCHANGED flushMutex
  /\ pc' = [pc EXCEPT ![f] = AfterFlush(f)]
  /\ UNCHANGED <<buffers, agents, disk, stateMutex, locals, issued, history, faults>>

\* A clear that counts the operations out again, which the swap already did.
FlushClear_Recounts(f) ==
  LET s == current[f] IN
  /\ pc[f] = "committed"
  /\ ClearInFlight(s)
  /\ activeSize' = [activeSize EXCEPT ![s] = @ - Cardinality(OpsIn(inFlight[s]))]
  /\ round' = [round EXCEPT ![f] = @ \ {s}]
  /\ current' = [current EXCEPT ![f] = NoShard]
  /\ pc' = [pc EXCEPT ![f] = "shards"]
  /\ UNCHANGED <<active, index, agents, disk, stateMutex, flushMutex, work, view, issued,
                 history, faults>>

-----------------------------------------------------------------------------
(* push() *)

Overloaded(size) == size > MaxBuffer

\* The status index keeps, per job, the operation pushed last.
MaintainIndex(op) ==
  index' = [index EXCEPT ![ShardOf[op]] =
              IF JobOf[op] = NoJob THEN @
              ELSE {o \in @ : JobOf[o] # JobOf[op]} \cup {op}]

AppendActive(op) ==
  /\ active' = [active EXCEPT ![ShardOf[op]][TableOf[op]] = Append(@, op)]
  /\ activeSize' = [activeSize EXCEPT ![ShardOf[op]] = @ + 1]
  /\ log' = [log EXCEPT ![ShardOf[op]][TableOf[op]] = Append(@, op)]

\* The loop at the end of push(): the caller goes on at "next", or polls at
\* "stall" until its shard has room again.
AwaitRoom(w, op, locals_w, next, stall) ==
  IF Overloaded(activeSize'[ShardOf[op]])
  THEN /\ pc' = [pc EXCEPT ![w] = stall]
       /\ work' = [work EXCEPT ![w] = [locals_w EXCEPT !.stalledOn = ShardOf[op]]]
  ELSE /\ pc' = [pc EXCEPT ![w] = next]
       /\ work' = [work EXCEPT ![w] = locals_w]

\* push(op) without an agent.
Push(w, op) ==
  /\ pc[w] = "idle"
  /\ op \notin issued
  /\ issued' = issued \cup {op}
  /\ MaintainIndex(op)
  /\ AppendActive(op)
  /\ AwaitRoom(w, op, NoWork, "idle", "stalled")
  /\ UNCHANGED <<inFlight, inFlightIndex, agents, disk, stateMutex, flushMutex,
                 round, current, view, units, broken, owed, faults>>

\* push(op, agentId): the index is maintained first, then the operation goes to
\* the agent's shadow, if the agent has one, and nowhere otherwise.
AgentPush(w, a, op) ==
  /\ pc[w] = "idle"
  /\ op \notin issued
  /\ issued' = issued \cup {op}
  /\ MaintainIndex(op)
  /\ shadow' = IF a \in working THEN [shadow EXCEPT ![a] = Append(@, op)] ELSE shadow
  /\ UNCHANGED activeSize
  /\ AwaitRoom(w, op, NoWork, "idle", "stalled")
  /\ UNCHANGED <<active, inFlight, inFlightIndex, working, disk, stateMutex, flushMutex,
                 round, current, view, history, faults>>

\* A stalled push polls and finds room.
Resume(w) ==
  /\ pc[w] \in {"stalled", "commitStalled"}
  /\ ~Overloaded(activeSize[work[w].stalledOn])
  /\ pc' = [pc EXCEPT ![w] = IF @ = "stalled" THEN "idle" ELSE "committing"]
  /\ work' = [work EXCEPT ![w].stalledOn = NoShard]
  /\ UNCHANGED <<buffers, agents, disk, stateMutex, flushMutex, round, current, view,
                 issued, history, faults>>

-----------------------------------------------------------------------------
(* beginWork(), commitWork(), cleanupShadows() *)

BeginCall(w, a) ==
  /\ pc[w] = "idle"
  /\ State!Acquire(w)
  /\ pc' = [pc EXCEPT ![w] = "begin"]
  /\ work' = [work EXCEPT ![w].agent = a]
  /\ UNCHANGED <<buffers, agents, disk, flushMutex, round, current, view, issued,
                 history, faults>>

BeginWork(w) ==
  /\ pc[w] = "begin"
  /\ working' = working \cup {work[w].agent}
  /\ State!Release(w)
  /\ pc' = [pc EXCEPT ![w] = "idle"]
  /\ work' = [work EXCEPT ![w] = NoWork]
  /\ UNCHANGED <<buffers, shadow, disk, flushMutex, round, current, view, issued,
                 history, faults>>

CommitCall(w, a) ==
  /\ pc[w] = "idle"
  /\ State!Acquire(w)
  /\ pc' = [pc EXCEPT ![w] = "commit"]
  /\ work' = [work EXCEPT ![w].agent = a]
  /\ UNCHANGED <<buffers, agents, disk, flushMutex, round, current, view, issued,
                 history, faults>>

\* The shadow is detached; stateMutex stays held while its operations are pushed.
CommitTake(w) ==
  LET a == work[w].agent IN
  /\ pc[w] = "commit" /\ sStatus[w] = "holding"
  /\ work' = [work EXCEPT ![w].ops = shadow[a]]
  /\ units' = units \cup {Range(shadow[a])}
  /\ working' = working \ {a}
  /\ shadow' = [shadow EXCEPT ![a] = <<>>]
  /\ pc' = [pc EXCEPT ![w] = "committing"]
  /\ UNCHANGED <<buffers, disk, stateMutex, flushMutex, round, current, view, issued,
                 log, broken, owed, faults>>

CommitPush(w) ==
  LET op == Head(work[w].ops)
      rest == [work[w] EXCEPT !.ops = Tail(@)]
  IN /\ pc[w] = "committing" /\ work[w].ops # <<>>
     /\ MaintainIndex(op)
     /\ AppendActive(op)
     /\ AwaitRoom(w, op, rest, "committing", "commitStalled")
     /\ UNCHANGED <<inFlight, inFlightIndex, agents, disk, stateMutex, flushMutex, round,
                    current, view, issued, units, broken, owed, faults>>

CommitEnd(w) ==
  /\ pc[w] = "committing" /\ work[w].ops = <<>>
  /\ State!Release(w)
  /\ pc' = [pc EXCEPT ![w] = "idle"]
  /\ work' = [work EXCEPT ![w] = NoWork]
  /\ UNCHANGED <<buffers, agents, disk, flushMutex, round, current, view, issued,
                 history, faults>>

SweepCall(p) ==
  /\ pc[p] = "idle"
  /\ State!Acquire(p)
  /\ pc' = [pc EXCEPT ![p] = "sweep"]
  /\ UNCHANGED <<buffers, agents, disk, flushMutex, locals, issued, history, faults>>

\* Any set of agents may have been silent for five minutes.
Sweep(p) ==
  /\ pc[p] = "sweep"
  /\ \E expired \in SUBSET working :
       /\ working' = working \ expired
       /\ shadow' = [a \in Agents |-> IF a \in expired THEN <<>> ELSE shadow[a]]
  /\ State!Release(p)
  /\ pc' = [pc EXCEPT ![p] = "idle"]
  /\ UNCHANGED <<buffers, disk, flushMutex, locals, issued, history, faults>>

-----------------------------------------------------------------------------
(* selectWhere() *)

\* The one connection of a shard serves a query or a transaction at a time.  It is
\* taken here until the reader has merged its rows: the continuation of a query
\* runs before a transaction that was waiting for the connection can finish.
ConnectionFree(s) ==
  /\ \A f \in Flushers : pc[f] = "transaction" => current[f] # s
  /\ \A r \in Readers : pc[r] = "merge" => view[r].shard # s

\* What the buffer and its index add to a read: nothing for a table without buffered
\* operations; a status query also applies what the index lists.
Buffered(buffer, idx, byStatus) ==
  UNION {Range(buffer[t]) \cup
           (IF byStatus THEN {op \in idx : TableOf[op] = t} ELSE {})
         : t \in {t \in Tables : buffer[t] # <<>>}}

\* The operations whose effects the read of r would show.
Merged(r) ==
  LET s == view[r].shard IN
  view[r].rows
    \cup Buffered(inFlight[s], inFlightIndex[s], view[r].byStatus)
    \cup Buffered(active[s], index[s], view[r].byStatus)
    \cup (IF view[r].agent \in working
          THEN {op \in Range(shadow[view[r].agent]) : ShardOf[op] = s}
          ELSE {})

ReadCall(r, s, a, byStatus) ==
  /\ pc[r] = "idle"
  /\ State!Acquire(r)
  /\ pc' = [pc EXCEPT ![r] = "read"]
  /\ view' = [view EXCEPT ![r] = [shard |-> s, agent |-> a, byStatus |-> byStatus,
                                  rows |-> {}]]
  /\ UNCHANGED <<buffers, agents, disk, flushMutex, work, round, current, issued,
                 history, faults>>

ReadDisk(r) ==
  /\ pc[r] = "read" /\ sStatus[r] = "holding"
  /\ ConnectionFree(view[r].shard)
  /\ view' = [view EXCEPT ![r].rows = OpsIn(disk[view[r].shard])]
  /\ pc' = [pc EXCEPT ![r] = "merge"]
  /\ UNCHANGED <<buffers, agents, disk, stateMutex, flushMutex, work, round, current,
                 issued, history, faults>>

\* The merged rows are returned and stateMutex is released.
ReadMerge(r) ==
  /\ pc[r] = "merge"
  /\ State!Release(r)
  /\ pc' = [pc EXCEPT ![r] = "idle"]
  /\ view' = [view EXCEPT ![r] = NoView]
  /\ UNCHANGED <<buffers, agents, disk, flushMutex, work, round, current, issued,
                 history, faults>>

-----------------------------------------------------------------------------
(* flush() and stop() *)

\* A tick of the flush timer, or any other call of flush() before stop().
FlushCall(f) ==
  /\ pc[f] = "idle" /\ ~Stopping
  /\ Flush!Acquire(f)
  /\ pc' = [pc EXCEPT ![f] = "flush"]
  /\ UNCHANGED <<buffers, agents, disk, stateMutex, locals, issued, history, faults>>

\* stop() clears the timers and calls flush() itself.
StopCall(x) ==
  /\ pc[x] = "idle" /\ ~Stopping
  /\ Flush!Acquire(x)
  /\ pc' = [pc EXCEPT ![x] = "flush"]
  /\ owed' = UNION {OpsIn(log[s]) : s \in Shards}
  /\ UNCHANGED <<buffers, agents, disk, stateMutex, locals, issued, log, units, broken,
                 faults>>

FlushEnter(f) ==
  /\ pc[f] = "flush" /\ fStatus[f] = "holding"
  /\ State!Acquire(f)
  /\ pc' = [pc EXCEPT ![f] = "swap"]
  /\ UNCHANGED <<buffers, agents, disk, flushMutex, locals, issued, history, faults>>

\* Every shard with buffered operations is swapped.
FlushSwap(f) ==
  LET dirty == {s \in Shards : activeSize[s] > 0} IN
  /\ pc[f] = "swap"
  /\ SwapToInFlight(dirty)
  /\ round' = [round EXCEPT ![f] = dirty]
  /\ State!Release(f)
  /\ pc' = [pc EXCEPT ![f] = "shards"]
  /\ UNCHANGED <<agents, disk, flushMutex, work, current, view, issued, history, faults>>

\* The next shard of the round; their order, that of the Map, is left open.
FlushBegin(f) ==
  /\ pc[f] = "shards"
  /\ \E s \in round[f] : ConnectionFree(s) /\ current' = [current EXCEPT ![f] = s]
  /\ pc' = [pc EXCEPT ![f] = "transaction"]
  /\ UNCHANGED <<buffers, agents, disk, stateMutex, flushMutex, work, round, view, issued,
                 history, faults>>

FlushCommit(f) ==
  LET s == current[f] IN
  /\ pc[f] = "transaction"
  /\ disk' = [disk EXCEPT ![s] = [t \in Tables |-> disk[s][t] \o inFlight[s][t]]]
  /\ pc' = [pc EXCEPT ![f] = "committed"]
  /\ UNCHANGED <<buffers, agents, stateMutex, flushMutex, locals, issued, history, faults>>

FlushClear(f) ==
  LET s == current[f] IN
  /\ pc[f] = "committed"
  /\ ClearInFlight(s)
  /\ round' = [round EXCEPT ![f] = @ \ {s}]
  /\ current' = [current EXCEPT ![f] = NoShard]
  /\ pc' = [pc EXCEPT ![f] = "shards"]
  /\ UNCHANGED <<active, activeSize, index, agents, disk, stateMutex, flushMutex, work,
                 view, issued, history, faults>>

\* A transaction rolls back.  The round is abandoned: the shards not yet committed
\* keep their in-flight buffers, and flush() rejects.
FlushFail(f) ==
  /\ pc[f] = "transaction" /\ txFailures < MaxTxFailures
  /\ txFailures' = txFailures + 1
  /\ broken' = broken \cup round[f]
  /\ Flush!Release(f)
  /\ pc' = [pc EXCEPT ![f] = AfterFlush(f)]
  /\ round' = [round EXCEPT ![f] = {}]
  /\ current' = [current EXCEPT ![f] = NoShard]
  /\ UNCHANGED <<buffers, agents, disk, stateMutex, work, view, issued, log, units, owed,
                 timeouts, crashes>>

FlushEnd(f) ==
  /\ pc[f] = "shards" /\ round[f] = {}
  /\ Flush!Release(f)
  /\ pc' = [pc EXCEPT ![f] = AfterFlush(f)]
  /\ UNCHANGED <<buffers, agents, disk, stateMutex, locals, issued, history, faults>>

StopEnd(x) ==
  /\ pc[x] = "closing"
  /\ pc' = [pc EXCEPT ![x] = "closed"]
  /\ UNCHANGED <<buffers, agents, disk, stateMutex, flushMutex, locals, issued, history,
                 faults>>

-----------------------------------------------------------------------------
(* Faults *)

\* A queued acquire of stateMutex times out and its call rejects; a flush that was
\* about to swap releases flushMutex on its way out.
StateTimeout(p) ==
  /\ timeouts < MaxTimeouts /\ timeouts' = timeouts + 1
  /\ pc[p] \in {"begin", "commit", "sweep", "read", "swap"}
  /\ State!Timeout(p)
  /\ IF p \in Flushers
     THEN Flush!Release(p) /\ pc' = [pc EXCEPT ![p] = AfterFlush(p)]
     ELSE UNCHANGED flushMutex /\ pc' = [pc EXCEPT ![p] = "idle"]
  /\ work' = [w \in Workers |-> IF w = p THEN NoWork ELSE work[w]]
  /\ view' = [r \in Readers |-> IF r = p THEN NoView ELSE view[r]]
  /\ UNCHANGED <<buffers, agents, disk, round, current, issued, history, txFailures,
                 crashes>>

\* A queued acquire of flushMutex times out: that flush() rejects.
FlushTimeout(f) ==
  /\ timeouts < MaxTimeouts /\ timeouts' = timeouts + 1
  /\ pc[f] = "flush"
  /\ Flush!Timeout(f)
  /\ pc' = [pc EXCEPT ![f] = AfterFlush(f)]
  /\ UNCHANGED <<buffers, agents, disk, stateMutex, locals, issued, history, txFailures,
                 crashes>>

\* The process dies and a new one starts on the same files: memory is gone.
Crash ==
  /\ crashes < MaxCrashes /\ crashes' = crashes + 1
  /\ active' = NoOps /\ inFlight' = NoOps
  /\ activeSize' = [s \in Shards |-> 0]
  /\ index' = [s \in Shards |-> {}] /\ inFlightIndex' = index'
  /\ working' = {} /\ shadow' = [a \in Agents |-> <<>>]
  /\ sLocked' = FALSE /\ sQueue' = <<>> /\ sStatus' = [p \in Procs |-> "out"]
  /\ fLocked' = FALSE /\ fQueue' = <<>> /\ fStatus' = [p \in Procs |-> "out"]
  /\ pc' = [p \in Procs |-> "idle"]
  /\ work' = [w \in Workers |-> NoWork]
  /\ round' = [f \in Flushers |-> {}] /\ current' = [f \in Flushers |-> NoShard]
  /\ view' = [r \in Readers |-> NoView]
  /\ log' = disk /\ broken' = {} /\ owed' = {}
  /\ UNCHANGED <<disk, issued, units, txFailures, timeouts>>

-----------------------------------------------------------------------------
WorkerStep(w) == BeginWork(w) \/ CommitTake(w) \/ CommitPush(w) \/ CommitEnd(w)
                 \/ Resume(w)

ReaderStep(r) == ReadDisk(r) \/ ReadMerge(r)

FlushStep(f) == FlushEnter(f) \/ FlushSwap(f) \/ FlushBegin(f) \/ FlushCommit(f)
                \/ FlushClear(f) \/ FlushEnd(f)

Calls ==
  \/ \E w \in Workers, op \in Ops : Push(w, op)
  \/ \E w \in Workers, a \in Agents, op \in Ops : AgentPush(w, a, op)
  \/ \E w \in Workers, a \in Agents : BeginCall(w, a) \/ CommitCall(w, a)
  \/ \E r \in Readers, s \in Shards, a \in Agents \cup {NoAgent}, b \in BOOLEAN :
       ReadCall(r, s, a, b)
  \/ \E f \in Timers : FlushCall(f)
  \/ \E x \in Stoppers : StopCall(x)
  \/ \E p \in Reapers : SweepCall(p)

Steps ==
  \/ \E w \in Workers : WorkerStep(w)
  \/ \E r \in Readers : ReaderStep(r)
  \/ \E f \in Flushers : FlushStep(f)
  \/ \E x \in Stoppers : StopEnd(x)
  \/ \E p \in Reapers : Sweep(p)

Faults ==
  \/ \E f \in Flushers : FlushFail(f) \/ FlushTimeout(f)
  \/ \E p \in Procs : StateTimeout(p)
  \/ Crash

Next == Calls \/ Steps \/ Faults

\* Promises are settled and timers fire: every started call goes on when it can, and
\* the flush timer keeps ticking.  Nobody is obliged to call, and nothing to fail.
Fairness ==
  /\ \A w \in Workers : WF_vars(WorkerStep(w))
  /\ \A r \in Readers : WF_vars(ReaderStep(r))
  /\ \A f \in Flushers : WF_vars(FlushStep(f))
  /\ \A f \in Timers : WF_vars(FlushCall(f))
  /\ \A x \in Stoppers : WF_vars(StopEnd(x))
  /\ \A p \in Reapers : WF_vars(Sweep(p))

Spec == Init /\ [][Next]_vars

FairSpec == Spec /\ Fairness
-----------------------------------------------------------------------------
(* Properties *)

PCs == {"idle", "stalled", "begin", "commit", "committing", "commitStalled", "sweep",
        "read", "merge", "flush", "swap", "shards", "transaction", "committed",
        "closing", "closed"}

StoreOK ==
  /\ active \in [Shards -> [Tables -> Seq(Ops)]]
  /\ inFlight \in [Shards -> [Tables -> Seq(Ops)]]
  /\ disk \in [Shards -> [Tables -> Seq(Ops)]]
  /\ log \in [Shards -> [Tables -> Seq(Ops)]]
  /\ activeSize \in [Shards -> Nat]
  /\ index \in [Shards -> SUBSET Ops]
  /\ inFlightIndex \in [Shards -> SUBSET Ops]
  /\ working \in SUBSET Agents
  /\ shadow \in [Agents -> Seq(Ops)]

Work == [agent : Agents \cup {NoAgent}, ops : Seq(Ops), stalledOn : Shards \cup {NoShard}]

View == [shard : Shards \cup {NoShard}, agent : Agents \cup {NoAgent},
         byStatus : BOOLEAN, rows : SUBSET Ops]

LocalsOK ==
  /\ pc \in [Procs -> PCs]
  /\ work \in [Workers -> Work]
  /\ round \in [Flushers -> SUBSET Shards]
  /\ current \in [Flushers -> Shards \cup {NoShard}]
  /\ view \in [Readers -> View]

HistoryOK ==
  /\ issued \in SUBSET Ops /\ units \in SUBSET SUBSET Ops
  /\ broken \in SUBSET Shards /\ owed \in SUBSET Ops
  /\ txFailures \in Nat /\ timeouts \in Nat /\ crashes \in Nat

\* Every variable holds what its declaration says.
TypeOK == StoreOK /\ LocalsOK /\ HistoryOK /\ State!TypeOK /\ Flush!TypeOK

\* The in-flight operations of a shard that are not on disk yet.
Pending(s) ==
  IF \E f \in Flushers : pc[f] = "committed" /\ current[f] = s THEN NoOps[s] ELSE inFlight[s]

\* Unless a failed flush abandoned the shard, what was accepted for a table is on
\* disk, in flight or in the active buffer: in the order of acceptance, once each,
\* with nothing missing in between.  This is the write-behind invariant the swap,
\* the transaction and the clear of flush() maintain together.
Conserved ==
  \A s \in Shards \ broken, t \in Tables :
    log[s][t] = disk[s][t] \o Pending(s)[t] \o active[s][t]

\* Operations of shard s that were accepted are still somewhere.
NothingLost(s) ==
  OpsIn(log[s]) \subseteq OpsIn(disk[s]) \cup OpsIn(inFlight[s]) \cup OpsIn(active[s])

\* A flush that failed keeps its operations for the next one (comment in flush()).
RetryKeepsOps == \A s \in Shards : NothingLost(s)

\* A read shows every operation accepted on its shard before it merges, although
\* its disk rows are older than its buffers and a flush commits in between.
ReadYourWrites ==
  \A r \in Readers :
    pc[r] = "merge" /\ view[r].shard \notin broken => OpsIn(log[view[r].shard]) \subseteq Merged(r)

Here(unit, s) == {op \in unit : ShardOf[op] = s}

\* The operations of one commitWork on one shard become durable together or not at
\* all, whatever swaps, failures and crashes hit the commit.
CommitAtomicPerShard ==
  \A u \in units, s \in Shards :
    Here(u, s) \subseteq OpsIn(disk[s]) \/ Here(u, s) \cap OpsIn(disk[s]) = {}

\* A scan never shows half a commit: it waits for stateMutex while the commit pushes.
ReadsWholeCommits ==
  \A r \in Readers, u \in units :
    pc[r] = "merge" /\ ~view[r].byStatus =>
      LET here == Here(u, view[r].shard)
      IN here \subseteq Merged(r) \/ here \cap Merged(r) = {}

\* Backpressure bounds a buffer: each caller overshoots the limit by one push.
BoundedBuffer == \A s \in Shards : activeSize[s] <= MaxBuffer + Cardinality(Workers)

\* When stop() returns, what was accepted before it was called is on disk, unless
\* its shard was abandoned by a failed flush or an acquire timed out.
StopPersists ==
  \A x \in Stoppers, s \in Shards \ broken :
    pc[x] = "closed" /\ timeouts = 0 => Here(owed, s) \subseteq OpsIn(disk[s])

\* The log of a shard, without what a swap after a failed flush has overwritten.
Kept ==
  [s \in Shards |-> [t \in Tables |-> IF s \in broken
                                      THEN disk[s][t] \o Pending(s)[t] \o active[s][t]
                                      ELSE log[s][t]]]

Durable == INSTANCE DurableLog WITH log <- Kept, durable <- disk, failed <- broken

\* The pool is a durable log: accepting, persisting a shard's prefix atomically, failing,
\* dropping batches of a shard that failed and crashing are the only visible steps,
\* whatever times out and however flushes, commits and stop() interleave.
ImplementsDurableLog == Durable!Spec

\* An accepted operation reaches the disk while the flush timer runs.
EventuallyDurable ==
  \A op \in Ops :
    op \in OpsIn(log[ShardOf[op]]) ~> (op \in OpsIn(disk[ShardOf[op]]) \/ Stopping)

\* A push that backpressure holds back is let go once the flusher cleared the buffer.
BackpressureEnds ==
  \A w \in Workers : pc[w] \in {"stalled", "commitStalled"}
                     ~> (pc[w] \notin {"stalled", "commitStalled"} \/ Stopping)

\* A push of a commit that found its buffer over the limit polls for room with
\* stateMutex held: no flush can swap that buffer any more.
CommitStuck ==
  \E v \in Workers : pc[v] = "commitStalled" /\ Overloaded(activeSize[work[v].stalledOn])

\* commitWork returns, behind the swaps, reads and commits that queue for stateMutex and
\* through its own pushes, unless a push of some commit fills a buffer over its limit.
CommitReturns == \A w \in Workers : pc[w] = "commit" ~> pc[w] = "idle" \/ CommitStuck

\* stop() returns, or the process dies in it, even when it finds a flush running.
StopReturns == \A x \in Stoppers : pc[x] = "flush" ~> pc[x] \in {"closed", "idle"}

\* Calls that wait for the flusher end: pushes that found no room, and stop().
CallsEnd == BackpressureEnds /\ StopReturns
=============================================================================
