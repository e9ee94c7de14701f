------------------------------ MODULE JobQueue ------------------------------
(***************************************************************************)
(* SqliteQueue (src/infrastructure/queue/SqliteQueue.ts) called directly:  *)
(* producers enqueue, consumers dequeue batches, their handlers complete   *)
(* or fail what they were handed, also while the next dequeue is awaited,  *)
(* and a maintainer reclaims and prunes.  All share the queue's ring of    *)
(* pending jobs and its rows in BufferedDbPool.                            *)
(*                                                                         *)
(* The pool is taken here as the durable log it implements (DurableLog),   *)
(* in the case that no transaction fails: "live" are the rows after every  *)
(* operation accepted so far, "stored" the rows on disk; Persist catches   *)
(* up, a crash falls back.  An action is what runs between two awaits.     *)
(*                                                                         *)
(* Time appears as two sets: "waiting", the jobs whose runAt lies ahead,   *)
(* and "late", the rows whose updatedAt is older than the threshold that   *)
(* matters for their status (visibilityTimeoutMs when processing,          *)
(* pruneDoneAgeMs when done).                                              *)
(***************************************************************************)
EXTENDS Integers, FiniteSets, SequencesExt

CONSTANTS
  Jobs,
  Backlog,                   \* jobs that are pending on disk when the process starts
  Producers, Consumers, Maintainers,
  Failers,                   \* activations of fail(), next to those of the consumers
  Limit,                     \* largest argument of dequeueBatch
  RingSlots,                 \* maxMemoryBufferSize
  MaxAttempts,               \* defaultMaxAttempts
  NoJob,
  MaxSlow, MaxFaults         \* bounds on slow handlers, and on timeouts and crashes

Callers == Producers \cup Consumers \cup Failers \cup Maintainers

ASSUME QueueAssumption ==
  /\ IsFiniteSet(Jobs) /\ Backlog \subseteq Jobs /\ NoJob \notin Jobs
  /\ Limit \in Nat \ {0} /\ RingSlots \in Nat \ {0} /\ MaxAttempts \in Nat \ {0}

VARIABLES
  live, stored,              \* rows of queue_jobs: as accepted, and as on disk
  seen,                      \* per job, its statuses since its last persist or upsert
  waiting, late,
  slots, head, tail,         \* pendingMemoryBuffer, bufferHead, bufferTail
  pc, todo,                  \* where each call is, and the jobs it still has to handle
  arg,                       \* what a call keeps: the limit of a dequeue, the attempts
                             \* that fail() has read
  held,                      \* per consumer and job, the handlers that run it
  known,                     \* history: the identifiers given out
  delivered,                 \* history: the dequeues that handed out each job, since the
                             \* last crash and since its insert was pushed
  slow, timeouts, crashes    \* slow handlers and faults so far

rows == <<live, stored, seen, waiting, late>>
ring == <<slots, head, tail>>
calls == <<pc, todo, arg>>
faults == <<slow, timeouts, crashes>>

vars == <<rows, ring, calls, held, known, delivered, faults>>

Statuses == {"pending", "processing", "done", "failed"}

NoRow == [status |-> "none", attempts |-> 0]

NewRow == [status |-> "pending", attempts |-> 0]

Indices == 0 .. RingSlots - 1

\* bufferSize()
Size == (tail - head + RingSlots) % RingSlots

Init ==
  /\ live = [j \in Jobs |-> IF j \in Backlog THEN NewRow ELSE NoRow]
  /\ stored = live
  /\ seen = [j \in Jobs |-> IF j \in Backlog THEN {"pending"} ELSE {}]
  /\ waiting = {} /\ late = {}
  /\ slots = [i \in Indices |-> NoJob] /\ head = 0 /\ tail = 0
  /\ pc = [p \in Callers |-> "idle"]
  /\ todo = [p \in Callers |-> <<>>]
  /\ arg = [c \in Consumers \cup Failers |-> 0]
  /\ held = [c \in Consumers |-> [j \in Jobs |-> 0]]
  /\ known = Backlog
  /\ delivered = [j \in Jobs |-> 0]
  /\ slow = 0 /\ timeouts = 0 /\ crashes = 0

-----------------------------------------------------------------------------
(* Rows and ring *)

MinOf(a, b) == IF a < b THEN a ELSE b

\* Operations of push() on the rows.  An update of a row that does not exist is lost.
Insert(j) ==
  /\ live' = [live EXCEPT ![j] = NewRow]
  /\ seen' = [seen EXCEPT ![j] = {"pending"}]
  /\ late' = late \ {j}

Update(js, status, increment) ==
  LET hit == {j \in js : live[j] # NoRow} IN
  /\ live' = [j \in Jobs |->
       IF j \in hit THEN [status |-> status, attempts |-> live[j].attempts + increment]
                    ELSE live[j]]
  /\ seen' = [j \in Jobs |-> IF j \in hit THEN seen[j] \cup {status} ELSE seen[j]]
  /\ late' = late \ hit

\* selectWhere filters the rows on disk before it applies the buffers, and an update
\* in the buffers brings no row back: a job shows up under a status only if it has
\* had no other since it was persisted or upserted.
Shows(j, status) == seen[j] = {status}

\* Seeded fault: no slot is kept free to tell a full ring from an empty one.
RingPush_NoSpare(s) ==
  LET n == MinOf(Len(s), RingSlots - Size)
      at(i) == ((i - tail + RingSlots) % RingSlots) + 1
  IN /\ slots' = [i \in Indices |-> IF at(i) <= n THEN s[at(i)] ELSE slots[i]]
     /\ tail' = (tail + n) % RingSlots
     /\ UNCHANGED head

\* The jobs of s that find room go to the ring, in order.
RingPush(s) ==
  LET n == MinOf(Len(s), RingSlots - 1 - Size)
      at(i) == ((i - tail + RingSlots) % RingSlots) + 1
  IN /\ slots' = [i \in Indices |-> IF at(i) <= n THEN s[at(i)] ELSE slots[i]]
     /\ tail' = (tail + n) % RingSlots
     /\ UNCHANGED head

RingFirst(n) == [i \in 1 .. n |-> slots[(head + i - 1) % RingSlots]]

RingPop(n) ==
  /\ slots' = [i \in Indices |->
                 IF (i - head + RingSlots) % RingSlots < n THEN NoJob ELSE slots[i]]
  /\ head' = (head + n) % RingSlots
  /\ UNCHANGED tail

Occurrences(j, s) == Cardinality({i \in 1 .. Len(s) : s[i] = j})

\* enqueueBatch() has yet to push the insert of job j.
Unpushed(j) == \E p \in Callers : pc[p] = "enqueueBatch" /\ j \in Range(todo[p])

\* The jobs of s are handed to handlers of consumer c.
Deliver(c, s) ==
  /\ held' = [held EXCEPT ![c] = [j \in Jobs |-> @[j] + Occurrences(j, s)]]
  /\ delivered' = [j \in Jobs |-> IF j \in Range(s) /\ ~Unpushed(j) THEN delivered[j] + 1
                                                                  ELSE delivered[j]]

\* The call of p returns and its locals are gone.
Return(p) ==
  /\ pc' = [pc EXCEPT ![p] = "idle"]
  /\ todo' = [todo EXCEPT ![p] = <<>>]
  /\ arg' = [c \in Consumers \cup Failers |-> IF c = p THEN 0 ELSE arg[c]]

\* A consumer, the ring or a call in progress has job j.
Busy(j) ==
  \/ \E c \in Consumers : held[c][j] > 0
  \/ \E i \in Indices : slots[i] = j
  \/ \E p \in Callers : j \in Range(todo[p])

-----------------------------------------------------------------------------
(* enqueue(), enqueueBatch() *)

\* Identifiers are random: none is used twice.
New(j) == j \notin known

\* enqueue(): the upsert is pushed; the ring gets the job when push() returns.
Enqueue(p, j, delayed) ==
  /\ pc[p] = "idle" /\ New(j)
  /\ Insert(j)
  /\ waiting' = IF delayed THEN waiting \cup {j} ELSE waiting
  /\ pc' = [pc EXCEPT ![p] = IF delayed THEN "idle" ELSE "enqueue"]
  /\ todo' = [todo EXCEPT ![p] = IF delayed THEN <<>> ELSE <<j>>]
  /\ known' = known \cup {j}
  /\ UNCHANGED <<stored, ring, arg, held, delivered, faults>>

EnqueueRing(p) ==
  /\ pc[p] = "enqueue"
  /\ RingPush(todo[p])
  /\ pc' = [pc EXCEPT ![p] = "idle"]
  /\ todo' = [todo EXCEPT ![p] = <<>>]
  /\ UNCHANGED <<rows, arg, held, known, delivered, faults>>

\* enqueueBatch(): the ring gets every due job at once, the inserts are pushed one
\* by one, and each push may wait for buffer room before it returns, also the last.
EnqueueBatch(p, s, due) ==
  /\ pc[p] = "idle" /\ \A j \in Range(s) : New(j)
  /\ RingPush(due)
  /\ Insert(s[1])
  /\ waiting' = waiting \cup (Range(s) \ Range(due))
  /\ known' = known \cup Range(s)
  /\ pc' = [pc EXCEPT ![p] = "enqueueBatch"]
  /\ todo' = [todo EXCEPT ![p] = Tail(s)]
  /\ UNCHANGED <<stored, arg, held, delivered, faults>>

\* A push of enqueueBatch() returns: the next insert follows, or the call ends.
EnqueueNext(p) ==
  /\ pc[p] = "enqueueBatch"
  /\ IF todo[p] = <<>>
       THEN /\ pc' = [pc EXCEPT ![p] = "idle"]
            /\ UNCHANGED <<live, seen, late, todo>>
       ELSE /\ Insert(todo[p][1])
            /\ todo' = [todo EXCEPT ![p] = Tail(@)]
            /\ UNCHANGED pc
  /\ UNCHANGED <<stored, waiting, ring, arg, held, known, delivered, faults>>

-----------------------------------------------------------------------------
(* dequeueBatch() *)

\* Seeded fault: a delivery from the ring is not counted.
DequeueRing_NoAttempt(c, limit) ==
  LET s == RingFirst(MinOf(limit, Size)) IN
  /\ pc[c] = "idle" /\ Size > 0
  /\ RingPop(Len(s))
  /\ Update(Range(s), "processing", 0)
  /\ Deliver(c, s)
  /\ UNCHANGED <<stored, waiting, calls, known, faults>>

\* From the ring, without waiting for anything.
DequeueRing(c, limit) ==
  LET s == RingFirst(MinOf(limit, Size)) IN
  /\ pc[c] = "idle" /\ Size > 0
  /\ RingPop(Len(s))
  /\ Update(Range(s), "processing", 1)
  /\ Deliver(c, s)
  /\ UNCHANGED <<stored, waiting, calls, known, faults>>

\* The ring is empty: beginWork() and selectWhere() are awaited.
DequeueCall(c, limit) ==
  /\ pc[c] = "idle" /\ Size = 0
  /\ pc' = [pc EXCEPT ![c] = "select"]
  /\ arg' = [arg EXCEPT ![c] = limit]
  /\ UNCHANGED <<rows, ring, todo, held, known, delivered, faults>>

Arrangements(S, n) ==
  {s \in [1 .. n -> S] : \A i, k \in 1 .. n : s[i] = s[k] => i = k}

\* Pending rows, twice as many as asked for.  The limit applies to the rows on disk
\* before the buffers hide some of them, and to the merged rows again; their order,
\* by priority, is left open.
DequeueSelect(c) ==
  LET onDisk == {j \in Jobs : stored[j].status = "pending" /\ j \notin waiting}
      buffered == {j \in Jobs : stored[j] = NoRow /\ Shows(j, "pending") /\ j \notin waiting}
  IN /\ pc[c] = "select"
     /\ \E D \in SUBSET onDisk :
          /\ Cardinality(D) = MinOf(2 * arg[c], Cardinality(onDisk))
          /\ LET found == {j \in D : Shows(j, "pending")} \cup buffered
             IN \E s \in Arrangements(found, MinOf(2 * arg[c], Cardinality(found))) :
                  /\ todo' = [todo EXCEPT ![c] = s]
                  /\ pc' = [pc EXCEPT ![c] = IF s = <<>> THEN "idle" ELSE "fill"]
                  /\ arg' = [arg EXCEPT ![c] = IF s = <<>> THEN 0 ELSE @]
     /\ UNCHANGED <<rows, ring, held, known, delivered, faults>>

\* Seeded fault: the surplus starts one job too early.
DequeueFill_Overlap(c) ==
  /\ pc[c] = "fill"
  /\ RingPush(SubSeq(todo[c], arg[c], Len(todo[c])))
  /\ pc' = [pc EXCEPT ![c] = "claim"]
  /\ UNCHANGED <<rows, todo, arg, held, known, delivered, faults>>

\* The claim was pushed to the agent's shadow; the surplus goes to the ring.
DequeueFill(c) ==
  /\ pc[c] = "fill"
  /\ RingPush(SubSeq(todo[c], arg[c] + 1, Len(todo[c])))
  /\ pc' = [pc EXCEPT ![c] = "claim"]
  /\ UNCHANGED <<rows, todo, arg, held, known, delivered, faults>>

\* commitWork() makes the claim visible and the call returns.
DequeueClaim(c) ==
  /\ pc[c] = "claim"
  /\ Update(Range(todo[c]), "processing", 1)
  /\ Deliver(c, SubSeq(todo[c], 1, MinOf(arg[c], Len(todo[c]))))
  /\ Return(c)
  /\ UNCHANGED <<stored, waiting, ring, known, faults>>

-----------------------------------------------------------------------------
(* complete(), completeBatch(), fail() *)

Finish(c, js) == held' = [held EXCEPT ![c] = [j \in Jobs |-> IF j \in js THEN @[j] - 1 ELSE @[j]]]

\* A handler ends at any time, also while its consumer awaits the next dequeue.
Complete(c, js) ==
  /\ js # {} /\ \A j \in js : held[c][j] > 0
  /\ Update(js, "done", 0)
  /\ Finish(c, js)
  /\ UNCHANGED <<stored, waiting, ring, calls, known, delivered, faults>>

\* A handler of consumer c fails: fail() reads the row, and returns when it finds none.
FailRead(f, c, j) ==
  /\ pc[f] = "idle" /\ held[c][j] > 0
  /\ Finish(c, {j})
  /\ IF live[j] = NoRow
     THEN UNCHANGED calls
     ELSE /\ arg' = [arg EXCEPT ![f] = live[j].attempts]
          /\ todo' = [todo EXCEPT ![f] = <<j>>]
          /\ pc' = [pc EXCEPT ![f] = "fail"]
  /\ UNCHANGED <<rows, ring, known, delivered, faults>>

\* Seeded fault: the last attempt is not made.
FailPush_OneLess(f) ==
  LET j == todo[f][1] IN
  /\ pc[f] = "fail"
  /\ IF arg[f] + 1 < MaxAttempts
     THEN Update({j}, "pending", 0) /\ waiting' = waiting \cup {j}
     ELSE Update({j}, "failed", 0) /\ UNCHANGED waiting
  /\ Return(f)
  /\ UNCHANGED <<stored, ring, held, known, delivered, faults>>

FailPush(f) ==
  LET j == todo[f][1] IN
  /\ pc[f] = "fail"
  /\ IF arg[f] < MaxAttempts
     THEN Update({j}, "pending", 0) /\ waiting' = waiting \cup {j}
     ELSE Update({j}, "failed", 0) /\ UNCHANGED waiting
  /\ Return(f)
  /\ UNCHANGED <<stored, ring, held, known, delivered, faults>>

-----------------------------------------------------------------------------
(* performMaintenance() *)

\* Seeded fault: the status is not asked for.
ReclaimSelect_AnyStatus(m) ==
  /\ pc[m] = "idle"
  /\ \E s \in Arrangements(late, Cardinality(late)) : todo' = [todo EXCEPT ![m] = s]
  /\ pc' = [pc EXCEPT ![m] = "reclaim"]
  /\ UNCHANGED <<rows, ring, arg, held, known, delivered, faults>>

\* Seeded fault: updatedAt is compared the wrong way round.
ReclaimSelect_Recent(m) ==
  /\ pc[m] = "idle"
  /\ LET S == {j \in Jobs \ late : Shows(j, "processing")} IN
       \E s \in Arrangements(S, Cardinality(S)) : todo' = [todo EXCEPT ![m] = s]
  /\ pc' = [pc EXCEPT ![m] = "reclaim"]
  /\ UNCHANGED <<rows, ring, arg, held, known, delivered, faults>>

\* The rows that have been processing for too long; a call that comes too soon after
\* the last does not get here.
ReclaimSelect(m) ==
  /\ pc[m] = "idle"
  /\ LET S == {j \in late : Shows(j, "processing")} IN
       \E s \in Arrangements(S, Cardinality(S)) : todo' = [todo EXCEPT ![m] = s]
  /\ pc' = [pc EXCEPT ![m] = "reclaim"]
  /\ UNCHANGED <<rows, ring, arg, held, known, delivered, faults>>

\* reclaimStaleJobs() pushes one update per stale row.
Reclaim(m) ==
  /\ pc[m] = "reclaim" /\ todo[m] # <<>>
  /\ Update({todo[m][1]}, "pending", 0)
  /\ todo' = [todo EXCEPT ![m] = Tail(@)]
  /\ UNCHANGED <<stored, waiting, ring, pc, arg, held, known, delivered, faults>>

\* The rows that have been done for long.
PruneSelect(m) ==
  /\ pc[m] = "reclaim" /\ todo[m] = <<>>
  /\ LET S == {j \in late : Shows(j, "done")} IN
       \E s \in Arrangements(S, Cardinality(S)) :
         /\ todo' = [todo EXCEPT ![m] = s]
         /\ pc' = [pc EXCEPT ![m] = IF s = <<>> THEN "idle" ELSE "commit"]
  /\ UNCHANGED <<rows, ring, arg, held, known, delivered, faults>>

\* commitWork() pushes the deletions one by one.
Prune(m) ==
  LET j == todo[m][1] IN
  /\ pc[m] \in {"commit", "prune"}
  /\ live' = [live EXCEPT ![j] = NoRow]
  /\ seen' = [seen EXCEPT ![j] = {"none"}]
  /\ todo' = [todo EXCEPT ![m] = Tail(@)]
  /\ pc' = [pc EXCEPT ![m] = IF Len(todo[m]) = 1 THEN "idle" ELSE "prune"]
  /\ UNCHANGED <<stored, waiting, late, ring, arg, held, known, delivered, faults>>

-----------------------------------------------------------------------------
(* Time and faults *)

\* A delay or a backoff is over.
Due(j) ==
  /\ j \in waiting /\ waiting' = waiting \ {j}
  /\ UNCHANGED <<live, stored, seen, late, ring, calls, held, known, delivered, faults>>

\* A row has been processing longer than visibilityTimeoutMs.  It counts as slow if
\* somebody still works on it.
Stale(j) ==
  /\ live[j].status = "processing" /\ j \notin late
  /\ IF Busy(j) THEN slow < MaxSlow /\ slow' = slow + 1 ELSE UNCHANGED slow
  /\ late' = late \cup {j}
  /\ UNCHANGED <<live, stored, seen, waiting, ring, calls, held, known, delivered,
                 timeouts, crashes>>

\* A row has been done for pruneDoneAgeMs, a day: longer than any call takes and any
\* job sits in the ring or in a handler.
Old(j) ==
  /\ live[j].status = "done" /\ j \notin late
  /\ ~Busy(j) /\ \A p \in Callers : pc[p] = "idle"
  /\ late' = late \cup {j}
  /\ UNCHANGED <<live, stored, seen, waiting, ring, calls, held, known, delivered, faults>>

\* The pool flushes.
Persist ==
  /\ stored' = live
  /\ seen' = [j \in Jobs |-> IF live[j] = NoRow THEN {} ELSE {live[j].status}]
  /\ UNCHANGED <<live, waiting, late, ring, calls, held, known, delivered, faults>>

\* A call waits 30 seconds for stateMutex: it logs the error, or rejects, and is over.
CallTimeout(p) ==
  /\ timeouts + crashes < MaxFaults /\ timeouts' = timeouts + 1
  /\ pc[p] \in {"select", "claim", "fail", "commit"} \/ (pc[p] = "reclaim" /\ todo[p] = <<>>)
  /\ Return(p)
  /\ UNCHANGED <<rows, ring, held, known, delivered, slow, crashes>>

\* The process dies and a new one starts on the same file.
Crash ==
  /\ timeouts + crashes < MaxFaults /\ crashes' = crashes + 1
  /\ live' = stored
  /\ seen' = [j \in Jobs |-> IF stored[j] = NoRow THEN {} ELSE {stored[j].status}]
  /\ slots' = [i \in Indices |-> NoJob] /\ head' = 0 /\ tail' = 0
  /\ pc' = [p \in Callers |-> "idle"]
  /\ todo' = [p \in Callers |-> <<>>] /\ arg' = [c \in Consumers \cup Failers |-> 0]
  /\ held' = [c \in Consumers |-> [j \in Jobs |-> 0]]
  /\ delivered' = [j \in Jobs |-> 0]
  /\ UNCHANGED <<stored, waiting, late, known, slow, timeouts>>

-----------------------------------------------------------------------------
ProducerStep(p) == EnqueueRing(p) \/ EnqueueNext(p)

DequeueStep(c) == DequeueSelect(c) \/ DequeueFill(c) \/ DequeueClaim(c)

Dequeue(c) == DequeueStep(c) \/ \E limit \in 1 .. Limit :
                                  DequeueRing(c, limit) \/ DequeueCall(c, limit)

FinishStep(c) == \/ \E js \in SUBSET Jobs : Complete(c, js)
                 \/ \E f \in Failers, j \in Jobs : FailRead(f, c, j)

MaintainStep(m) == ReclaimSelect(m) \/ Reclaim(m) \/ PruneSelect(m) \/ Prune(m)

Batches == {<<j>> : j \in Jobs} \cup Arrangements(Jobs, 2)

Rising(n, m) == {f \in [1 .. n -> 1 .. m] : \A i, k \in 1 .. n : i < k => f[i] < f[k]}

\* What can be left of s, in its order.
Sublists(s) ==
  UNION {{[i \in 1 .. n |-> s[f[i]]] : f \in Rising(n, Len(s))} : n \in 0 .. Len(s)}

EnqueueSome(p) ==
  \/ \E j \in Jobs, delayed \in BOOLEAN : Enqueue(p, j, delayed)
  \/ \E s \in Batches : \E due \in Sublists(s) : EnqueueBatch(p, s, due)

Next ==
  \/ \E p \in Producers : EnqueueSome(p) \/ ProducerStep(p)
  \/ \E c \in Consumers : Dequeue(c) \/ FinishStep(c)
  \/ \E f \in Failers : FailPush(f)
  \/ \E m \in Maintainers : MaintainStep(m)
  \/ \E j \in Jobs : Due(j) \/ Stale(j) \/ Old(j)
  \/ \E p \in Callers : CallTimeout(p)
  \/ Persist \/ Crash

Abandoned(j) == live[j].status = "processing" /\ ~Busy(j)

\* Started calls go on, consumers keep dequeuing, their handlers end, the maintenance and
\* flush timers fire, and time passes.
Fairness ==
  /\ \A p \in Producers : WF_vars(ProducerStep(p))
  /\ \A c \in Consumers : WF_vars(Dequeue(c)) /\ WF_vars(FinishStep(c))
  /\ \A f \in Failers : WF_vars(FailPush(f))
  /\ \A m \in Maintainers : WF_vars(MaintainStep(m))
  /\ WF_vars(\E j \in Jobs : Due(j)) /\ WF_vars(\E j \in Jobs : Abandoned(j) /\ Stale(j))
  /\ WF_vars(Persist)

Spec == Init /\ [][Next]_vars

FairSpec == Spec /\ Fairness
-----------------------------------------------------------------------------
(* Properties *)

Row == [status : Statuses \cup {"none"}, attempts : Nat]

PCs == {"idle", "enqueue", "enqueueBatch", "select", "fill", "claim", "fail", "reclaim",
        "commit", "prune"}

\* The ring holds a job exactly in the slots between head and tail: a full ring
\* refuses a job instead of wrapping over the oldest one, and an emptied slot is
\* never handed out again.
RingHoldsSize ==
  \A i \in Indices : slots[i] # NoJob <=> (i - head + RingSlots) % RingSlots < Size

\* Every variable holds what its declaration says, and the ring what its ends say.
TypeOK ==
  /\ live \in [Jobs -> Row] /\ stored \in [Jobs -> Row]
  /\ seen \in [Jobs -> SUBSET (Statuses \cup {"none"})]
  /\ waiting \in SUBSET Jobs /\ late \in SUBSET Jobs
  /\ slots \in [Indices -> Jobs \cup {NoJob}] /\ head \in Indices /\ tail \in Indices
  /\ RingHoldsSize
  /\ pc \in [Callers -> PCs] /\ todo \in [Callers -> Seq(Jobs)]
  /\ arg \in [Consumers \cup Failers -> Nat] /\ held \in [Consumers -> [Jobs -> Nat]]
  /\ known \in SUBSET Jobs
  /\ delivered \in [Jobs -> Nat]
  /\ slow \in Nat /\ timeouts \in Nat /\ crashes \in Nat

Runs(j) == Cardinality({c \in Consumers : held[c][j] > 0})

\* A job that waited on disk is handed to one handler at a time, whatever the ring,
\* the claims, timeouts and crashes do, as long as one consumer dequeues and nobody
\* outlives the visibility timeout.
BacklogExclusive ==
  slow = 0 => \A j \in Backlog :
    /\ Runs(j) <= 1
    /\ \A c \in Consumers : held[c][j] <= 1

\* A job that is done stays done, and its row goes only when it is pruned: no claim,
\* reclaim or failure that was under way brings it back.  Only a crash may, when the
\* completion was not flushed.
DoneIsFinal ==
  [][slow' = 0 /\ crashes' = crashes =>
       \A j \in Backlog : live[j].status = "done" => live'[j].status \in {"done", "none"}]_vars

\* Every dequeue that hands out a job is an attempt on its row, except those that handed
\* it out before enqueueBatch had pushed its insert: "delivered" leaves those out, and
\* counts the later ones of the same job.  (One dequeue may hand out two copies: a prefetch
\* that timed out and enqueue() both put the job into the ring.  They share one attempt.)
DeliveriesCount ==
  \A j \in Jobs : live[j] # NoRow => delivered[j] <= live[j].attempts

\* fail() gives a job up only after its last attempt, and only pruned jobs lose
\* their row.
FailsAtTheEnd ==
  [][crashes' = crashes => \A j \in Jobs :
       /\ live'[j].status = "failed" /\ live[j].status # "failed" => live[j].attempts >= MaxAttempts
       /\ live'[j] = NoRow /\ live[j] # NoRow => live[j].status = "done"]_vars

Finished(j) == live[j].status \in {"none", "done", "failed"}

\* Every accepted job is brought to an end, so the queue runs empty again and again once
\* no more jobs come: neither a crash, nor a claim given up half-way, nor a full ring
\* leaves a job that nobody picks up.
EveryJobEnds == []<>(\A j \in Jobs : Finished(j))
=============================================================================
