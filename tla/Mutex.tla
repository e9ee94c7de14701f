------------------------------- MODULE Mutex --------------------------------
(***************************************************************************)
(* The asynchronous mutex of src/infrastructure/db/pool/Mutex.ts.          *)
(*                                                                         *)
(* A caller is one activation of an async function that awaits acquire()   *)
(* and calls the returned release exactly once.  "locked" and "queue" are  *)
(* the fields of the class; an element of "queue" is the resolver a caller *)
(* pushed, named here by the caller.  "status" is where the caller stands: *)
(*   out      it has no pending acquire and does not hold the lock         *)
(*   waiting  its promise is pending and its resolver is in the queue      *)
(*   holding  its promise was resolved with a release function             *)
(* JavaScript runs each of these functions to completion, so each is one   *)
(* action.                                                                 *)
(***************************************************************************)
EXTENDS Naturals, SequencesExt

CONSTANT Callers

VARIABLES locked, queue, status

vars == <<locked, queue, status>>

Init ==
  /\ locked = FALSE
  /\ queue = <<>>
  /\ status = [p \in Callers |-> "out"]

-----------------------------------------------------------------------------
(* Seeded faults: forms the operations below must not have.  They are part of no *)
(* specification; each shows that a property can fail.                           *)

\* acquire() that queues at the front.
AcquireQueued_Front(p) ==
  /\ status[p] = "out"
  /\ locked
  /\ queue' = <<p>> \o queue
  /\ status' = [status EXCEPT ![p] = "waiting"]
  /\ UNCHANGED locked

\* release() that clears "locked" before it wakes the next caller.
HandOff_Clears(p) ==
  /\ status[p] = "holding"
  /\ queue # <<>>
  /\ queue' = Tail(queue)
  /\ status' = [status EXCEPT ![p] = "out", ![Head(queue)] = "holding"]
  /\ locked' = FALSE

\* release() that frees the lock without looking at the queue.
Free_Forgets(p) ==
  /\ status[p] = "holding"
  /\ locked' = FALSE
  /\ status' = [status EXCEPT ![p] = "out"]
  /\ UNCHANGED queue

\* A timeout that shifts the queue instead of removing its own resolver.
Timeout_Shifts(p) ==
  \E i \in 1 .. Len(queue) :
    /\ queue[i] = p
    /\ queue' = Tail(queue)
    /\ status' = [status EXCEPT ![p] = "out"]
    /\ UNCHANGED locked

-----------------------------------------------------------------------------
(* Operations *)

\* acquire(), the fast path: the lock is free and is taken at once.
AcquireFree(p) ==
  /\ status[p] = "out"
  /\ ~locked
  /\ locked' = TRUE
  /\ status' = [status EXCEPT ![p] = "holding"]
  /\ UNCHANGED queue

\* acquire(), the slow path: the caller's resolver goes to the end of the queue.
AcquireQueued(p) ==
  /\ status[p] = "out"
  /\ locked
  /\ queue' = Append(queue, p)
  /\ status' = [status EXCEPT ![p] = "waiting"]
  /\ UNCHANGED locked

Acquire(p) == AcquireFree(p) \/ AcquireQueued(p)

\* release() with somebody waiting: the head of the queue becomes the holder and
\* "locked" is never cleared.
HandOff(p) ==
  /\ status[p] = "holding"
  /\ queue # <<>>
  /\ queue' = Tail(queue)
  /\ status' = [status EXCEPT ![p] = "out", ![Head(queue)] = "holding"]
  /\ UNCHANGED locked

\* release() with nobody waiting.
Free(p) ==
  /\ status[p] = "holding"
  /\ queue = <<>>
  /\ locked' = FALSE
  /\ status' = [status EXCEPT ![p] = "out"]
  /\ UNCHANGED queue

Release(p) == HandOff(p) \/ Free(p)

\* The timer of a queued acquire fires: its resolver is removed wherever it
\* stands in the queue and the promise is rejected.
Timeout(p) ==
  \E i \in 1 .. Len(queue) :
    /\ queue[i] = p
    /\ queue' = RemoveAt(queue, i)
    /\ status' = [status EXCEPT ![p] = "out"]
    /\ UNCHANGED locked

-----------------------------------------------------------------------------
Next == \E p \in Callers : Acquire(p) \/ Release(p) \/ Timeout(p)

\* Every critical section of the pool calls release in a finally block.
Fairness == \A p \in Callers : WF_vars(Release(p))

Spec == Init /\ [][Next]_vars

FairSpec == Spec /\ Fairness
-----------------------------------------------------------------------------
(* Properties *)

\* The fields and the callers' standing are what the declarations say.
TypeOK ==
  /\ locked \in BOOLEAN
  /\ queue \in Seq(Callers)
  /\ status \in [Callers -> {"out", "waiting", "holding"}]

\* At most one caller is inside a section the mutex guards, however hand-offs,
\* timeouts and new acquires interleave.
MutualExclusion ==
  \A p, q \in Callers :
    status[p] = "holding" /\ status[q] = "holding" => p = q

\* A caller has its resolver in the queue exactly while its promise is pending,
\* and only once: a timeout removed the right resolver, a hand-off served one.
QueueIsWaiters ==
  /\ \A p \in Callers : status[p] = "waiting" <=> \E i \in 1 .. Len(queue) : queue[i] = p
  /\ \A i, j \in 1 .. Len(queue) : queue[i] = queue[j] => i = j

\* No wake-up is lost: while somebody waits, somebody holds the lock and will
\* hand it over when it releases; a hand-off never leaves "locked" raised with
\* nobody behind it.
NoLostWakeup ==
  (\E p \in Callers : status[p] = "waiting") => \E q \in Callers : status[q] = "holding"

Ahead(q, p) ==
  \E i, j \in 1 .. Len(queue) : i < j /\ queue[i] = q /\ queue[j] = p

\* Nobody overtakes a waiter: while p waits nobody gets in front of it in the queue,
\* and who gets the lock was waiting itself, in front of it.  So a newcomer can neither
\* steal the lock in the gap of a hand-off nor jump the queue, a timeout shifts nobody
\* past p, and the lock never goes to an acquire that has timed out.
NoOvertaking ==
  [][\A p, q \in Callers :
       status[p] = "waiting" /\ status'[p] = "waiting" =>
         /\ status[q] # "holding" /\ status'[q] = "holding" =>
              status[q] = "waiting" /\ Ahead(q, p)
         /\ Ahead(q, p)' => Ahead(q, p)]_vars

\* An acquire returns: it is granted, or its timeout rejects it.
AcquireReturns ==
  \A p \in Callers : status[p] = "waiting" ~> status[p] # "waiting"

=============================================================================
