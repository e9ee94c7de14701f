---------------------------- MODULE QueueRunner -----------------------------
(***************************************************************************)
(* process(), processBatch() and stop() of SqliteQueue, on top of the      *)
(* queue's own operations.  A consumer is one call of process(): a loop    *)
(* that dequeues while earlier batches still run, handlers that end in any *)
(* order, and lists of outcomes that are flushed to the rows together.     *)
(*                                                                         *)
(* processBatch() differs in what it counts and in how a batch ends.  The  *)
(* queue lives on shard "main", and no acquire of stateMutex times out.     *)
(***************************************************************************)
EXTENDS JobQueue

CONSTANTS
  Concurrency                \* handlers (processBatch: batches) in flight per loop

ASSUME RunnerAssumption == Concurrency \in Nat \ {0}

VARIABLES
  isProcessing, stopRequested,
  batchwise,                 \* whether the loop is one of processBatch()
  loop,                      \* where each loop is
  flight,                    \* its batches in flight: their size and the jobs still running
  completions, failures,     \* pendingCompletions, pendingFailures
  flushPending, tasks,       \* completionFlushPending; flush tasks in the event loop
  failing                    \* failures a flush, of the loop or of a task, has yet to push

Flushers == {"loop", "task"}

outcomes == <<completions, failures, flushPending, tasks, failing>>
runner == <<isProcessing, stopRequested, batchwise, loop, flight, outcomes>>

RunnerInit ==
  /\ Init
  /\ isProcessing = FALSE /\ stopRequested = FALSE
  /\ batchwise = [c \in Consumers |-> FALSE]
  /\ loop = [c \in Consumers |-> "off"]
  /\ flight = [c \in Consumers |-> <<>>]
  /\ completions = [c \in Consumers |-> <<>>] /\ failures = completions
  /\ failing = [c \in Consumers |-> [by \in Flushers |-> <<>>]]
  /\ flushPending = [c \in Consumers |-> FALSE]
  /\ tasks = [c \in Consumers |-> 0]

-----------------------------------------------------------------------------
(* The loop *)

InFlight(c) == FoldLeft(LAMBDA n, b : n + b.size, 0, flight[c])

\* Seeded fault: only the batches are counted, not their jobs.
Room_Batches(c) ==
  IF batchwise[c] THEN (IF Len(flight[c]) < Concurrency THEN Limit ELSE 0)
                  ELSE MinOf(Limit, Concurrency - Len(flight[c]))

\* How many jobs the loop may ask for.
Room(c) ==
  IF batchwise[c] THEN (IF Len(flight[c]) < Concurrency THEN Limit ELSE 0)
               ELSE MinOf(Limit, Concurrency - InFlight(c))

\* Two calls of process() at a time: the second returns at once.
Process(c) ==
  /\ loop[c] = "off" /\ ~isProcessing
  /\ isProcessing' = TRUE /\ stopRequested' = FALSE
  /\ \E batch \in BOOLEAN : batchwise' = [batchwise EXCEPT ![c] = batch]
  /\ loop' = [loop EXCEPT ![c] = "top"]
  /\ UNCHANGED <<vars, flight, outcomes>>

At(c, place) == loop[c] = place

GoTo(c, place) == loop' = [loop EXCEPT ![c] = place]

\* The loop is at its top, nobody has asked it to stop and it has room.
Dequeuing(c) == At(c, "top") /\ ~stopRequested /\ Room(c) > 0

Start(c, s) == flight' = [flight EXCEPT ![c] = Append(@, [size |-> Len(s), left |-> s])]

LoopRing(c) ==
  /\ Dequeuing(c)
  /\ DequeueRing(c, Room(c))
  /\ Start(c, RingFirst(MinOf(Room(c), Size)))
  /\ UNCHANGED <<isProcessing, stopRequested, batchwise, loop, outcomes>>

LoopCall(c) ==
  /\ Dequeuing(c)
  /\ DequeueCall(c, Room(c))
  /\ GoTo(c, "dequeue")
  /\ UNCHANGED <<isProcessing, stopRequested, batchwise, flight, outcomes>>

LoopSelect(c) ==
  /\ At(c, "dequeue")
  /\ DequeueSelect(c)
  /\ GoTo(c, IF pc'[c] = "idle" THEN "none" ELSE "dequeue")
  /\ UNCHANGED <<isProcessing, stopRequested, batchwise, flight, outcomes>>

LoopFill(c) ==
  /\ At(c, "dequeue")
  /\ DequeueFill(c)
  /\ UNCHANGED runner

LoopClaim(c) ==
  /\ At(c, "dequeue")
  /\ DequeueClaim(c)
  /\ Start(c, SubSeq(todo[c], 1, MinOf(arg[c], Len(todo[c]))))
  /\ GoTo(c, "top")
  /\ UNCHANGED <<isProcessing, stopRequested, batchwise, outcomes>>

\* No room: wait for one of the batches in flight.
LoopFull(c) ==
  /\ At(c, "top") /\ ~stopRequested /\ Room(c) <= 0
  /\ flight[c] # <<>>
  /\ GoTo(c, "race")
  /\ UNCHANGED <<vars, isProcessing, stopRequested, batchwise, flight, outcomes>>

-----------------------------------------------------------------------------
(* Outcomes *)

\* flushCompletions(), awaited by the loop or run as a task: both lists are taken and
\* the completions pushed at once; the failures follow one by one.
Flush(c, by) ==
  /\ Update(Range(completions[c]), "done", 0)
  /\ failing' = [failing EXCEPT ![c][by] = @ \o failures[c]]
  /\ completions' = [completions EXCEPT ![c] = <<>>]
  /\ failures' = [failures EXCEPT ![c] = <<>>]
  /\ flushPending' = [flushPending EXCEPT ![c] = FALSE]
  /\ UNCHANGED <<stored, waiting, ring, calls, held, known, delivered, faults>>

FlushTask(c) ==
  /\ tasks[c] > 0 /\ tasks' = [tasks EXCEPT ![c] = @ - 1]
  /\ Flush(c, "task")
  /\ UNCHANGED <<isProcessing, stopRequested, batchwise, loop, flight>>

FlushFailure(c, by) ==
  /\ failing[c][by] # <<>>
  /\ Update({Head(failing[c][by])}, "failed", 0)
  /\ failing' = [failing EXCEPT ![c][by] = Tail(@)]
  /\ UNCHANGED <<stored, waiting, ring, calls, held, known, delivered, faults, isProcessing,
                 stopRequested, batchwise, loop, flight, completions, failures, flushPending, tasks>>

\* What the loop does when there is nothing to dequeue: flush what is pending, then
\* wait for a batch in flight, or for a wake-up.
Wait(c) == GoTo(c, IF flight[c] # <<>> THEN "race" ELSE "poll")

\* Seeded fault: nothing is flushed before the loop waits.
LoopNone_NoFlush(c) ==
  /\ At(c, "none")
  /\ Wait(c)
  /\ UNCHANGED <<vars, outcomes, isProcessing, stopRequested, batchwise, flight>>

LoopNone(c) ==
  /\ At(c, "none")
  /\ IF completions[c] # <<>> \/ failures[c] # <<>>
     THEN Flush(c, "loop") /\ GoTo(c, "flush") /\ UNCHANGED tasks
     ELSE Wait(c) /\ UNCHANGED <<vars, outcomes>>
  /\ UNCHANGED <<isProcessing, stopRequested, batchwise, flight>>

LoopFlushed(c) ==
  /\ At(c, "flush") /\ failing[c].loop = <<>>
  /\ Wait(c)
  /\ UNCHANGED <<vars, isProcessing, stopRequested, batchwise, flight, outcomes>>

\* An enqueue or the poll timer ends the wait.
LoopPoll(c) ==
  /\ At(c, "poll")
  /\ GoTo(c, "top")
  /\ UNCHANGED <<vars, isProcessing, stopRequested, batchwise, flight, outcomes>>

\* scheduleCompletion() of the jobs of s: a full list is flushed, and one that is not
\* full if the last flush is long enough ago.
Schedule(c, s) ==
  /\ completions' = [completions EXCEPT ![c] = @ \o s]
  /\ \E due \in BOOLEAN :
       /\ Len(completions'[c]) >= Limit => due
       /\ LET starts == due /\ ~flushPending[c]
          IN /\ flushPending' = [flushPending EXCEPT ![c] = @ \/ starts]
             /\ tasks' = [tasks EXCEPT ![c] = IF starts THEN @ + 1 ELSE @]
  /\ UNCHANGED <<failures, failing>>

\* Seeded fault: the list of failures is replaced.
ScheduleFailure_Replaces(c, s) ==
  LET starts == Len(s) >= Limit /\ ~flushPending[c] IN
  /\ failures' = [failures EXCEPT ![c] = s]
  /\ flushPending' = [flushPending EXCEPT ![c] = @ \/ starts]
  /\ tasks' = [tasks EXCEPT ![c] = IF starts THEN @ + 1 ELSE @]
  /\ UNCHANGED <<completions, failing>>

\* scheduleFailure() of the jobs of s: only a full list is flushed.
ScheduleFailure(c, s) ==
  LET starts == Len(failures[c] \o s) >= Limit /\ ~flushPending[c] IN
  /\ failures' = [failures EXCEPT ![c] = @ \o s]
  /\ flushPending' = [flushPending EXCEPT ![c] = @ \/ starts]
  /\ tasks' = [tasks EXCEPT ![c] = IF starts THEN @ + 1 ELSE @]
  /\ UNCHANGED <<completions, failing>>

\* Seeded fault: a loop that waits for a batch is not woken.
HandlersEnd_NoWakeup(c, b, over, rest, ok) ==
  /\ IF ok THEN Schedule(c, over) ELSE ScheduleFailure(c, over)
  /\ held' = [held EXCEPT ![c] = [j \in Jobs |-> @[j] - Occurrences(j, over)]]
  /\ flight' = [flight EXCEPT ![c] = IF rest = <<>> THEN RemoveAt(@, b)
                                                    ELSE [@ EXCEPT ![b].left = rest]]
  /\ UNCHANGED <<rows, ring, calls, known, delivered, faults, isProcessing, stopRequested,
                 batchwise, loop>>

\* The handlers of the jobs "over" of batch b end while those of "rest" still run; with
\* the last of them the batch leaves, and a loop that waits for one goes on.
HandlersEnd(c, b, over, rest, ok) ==
  /\ IF ok THEN Schedule(c, over) ELSE ScheduleFailure(c, over)
  /\ held' = [held EXCEPT ![c] = [j \in Jobs |-> @[j] - Occurrences(j, over)]]
  /\ flight' = [flight EXCEPT ![c] = IF rest = <<>> THEN RemoveAt(@, b)
                                                    ELSE [@ EXCEPT ![b].left = rest]]
  /\ loop' = [loop EXCEPT ![c] = IF rest = <<>> /\ @ = "race" THEN "top" ELSE @]
  /\ UNCHANGED <<rows, ring, calls, known, delivered, faults, isProcessing, stopRequested,
                 batchwise>>

\* process() ends each job for itself, processBatch() a batch as a whole.
HandlerEnd(c) ==
  \E b \in 1 .. Len(flight[c]), ok \in BOOLEAN :
    LET left == flight[c][b].left IN
    IF batchwise[c] THEN HandlersEnd(c, b, left, <<>>, ok)
    ELSE \E k \in 1 .. Len(left) : HandlersEnd(c, b, <<left[k]>>, RemoveAt(left, k), ok)

-----------------------------------------------------------------------------
(* stop() and the cleanup of a loop *)

Stop ==
  /\ isProcessing /\ isProcessing' = FALSE
  /\ stopRequested' = TRUE
  /\ UNCHANGED <<vars, batchwise, loop, flight, outcomes>>

LoopExit(c) ==
  /\ At(c, "top") /\ stopRequested
  /\ GoTo(c, "drain")
  /\ UNCHANGED <<vars, isProcessing, stopRequested, batchwise, flight, outcomes>>

\* Seeded fault: the cleanup does not wait for the handlers.
LoopDrained_AtOnce(c) ==
  /\ At(c, "drain")
  /\ Flush(c, "loop") /\ UNCHANGED tasks
  /\ GoTo(c, "final")
  /\ UNCHANGED <<isProcessing, stopRequested, batchwise, flight>>

LoopDrained(c) ==
  /\ At(c, "drain") /\ flight[c] = <<>>
  /\ Flush(c, "loop") /\ UNCHANGED tasks
  /\ GoTo(c, "final")
  /\ UNCHANGED <<isProcessing, stopRequested, batchwise, flight>>

LoopEnd(c) ==
  /\ At(c, "final") /\ failing[c].loop = <<>>
  /\ isProcessing' = FALSE
  /\ GoTo(c, "ended")
  /\ UNCHANGED <<vars, stopRequested, batchwise, flight, outcomes>>
-----------------------------------------------------------------------------
LoopStep(c) ==
  \/ LoopRing(c) \/ LoopCall(c) \/ LoopSelect(c) \/ LoopFill(c) \/ LoopClaim(c)
  \/ LoopFull(c) \/ LoopNone(c) \/ LoopFlushed(c) \/ LoopPoll(c)
  \/ LoopExit(c) \/ LoopDrained(c) \/ LoopEnd(c)

OutcomeStep(c) == FlushTask(c) \/ \E by \in Flushers : FlushFailure(c, by)

EnqueueNow(p) ==
  (\E j \in Jobs : Enqueue(p, j, FALSE)) \/ (\E s \in Batches : EnqueueBatch(p, s, s))

\* Jobs are due when they come.  No run is as long as the visibility timeout, so
\* maintenance finds nothing to do.  A row is pending only once, so it makes no
\* difference which rows are on disk.  JobQueue has delays, maintenance, flushes and
\* crashes.
RunnerNext ==
  \/ \E c \in Consumers : Process(c) \/ LoopStep(c) \/ OutcomeStep(c) \/ HandlerEnd(c)
  \/ Stop
  \/ \E p \in Producers : (EnqueueNow(p) \/ ProducerStep(p)) /\ UNCHANGED runner

\* The event loop runs what is ready, and every handler ends.  Nothing depends on the
\* flush timer or on a producer that goes on.
RunnerFairness ==
  \A c \in Consumers : /\ WF_<<vars, runner>>(LoopStep(c))
                       /\ WF_<<vars, runner>>(OutcomeStep(c))
                       /\ WF_<<vars, runner>>(HandlerEnd(c))

RunnerSpec == RunnerInit /\ [][RunnerNext]_<<vars, runner>> /\ RunnerFairness
-----------------------------------------------------------------------------
(* Properties *)

Loops == {"off", "top", "dequeue", "none", "flush", "race", "poll", "drain", "final", "ended"}

\* The handlers of a loop that run, numbered for each job.
Handlers(c) == UNION {{j} \X (1 .. held[c][j]) : j \in Jobs}

\* A loop never runs more handlers than it was told to, although it decides how many
\* jobs to ask for before it awaits them.
ConcurrencyBound ==
  \A c \in Consumers :
    IF batchwise[c] THEN Len(flight[c]) <= Concurrency
                 ELSE Cardinality(Handlers(c)) <= Concurrency

\* Every variable of the loops holds what its declaration says, within the bound.
RunnerTypeOK ==
  /\ isProcessing \in BOOLEAN /\ stopRequested \in BOOLEAN
  /\ batchwise \in [Consumers -> BOOLEAN]
  /\ loop \in [Consumers -> Loops]
  /\ flight \in [Consumers -> Seq([size : Nat, left : Seq(Jobs)])]
  /\ completions \in [Consumers -> Seq(Jobs)] /\ failures \in [Consumers -> Seq(Jobs)]
  /\ failing \in [Consumers -> [Flushers -> Seq(Jobs)]]
  /\ flushPending \in [Consumers -> BOOLEAN] /\ tasks \in [Consumers -> Nat]
  /\ ConcurrencyBound

OutcomePending(j) ==
  \E c \in Consumers :
    \/ j \in Range(completions[c]) \cup Range(failures[c])
    \/ \E by \in Flushers : j \in Range(failing[c][by])

\* A row that says "processing" has somebody behind it: a handler that runs, the ring,
\* a dequeue that has yet to return, or an outcome that has yet to be pushed.  No
\* interleaving of handlers, flush tasks and dequeues drops a job on the floor, as long
\* as the ring has room for what a dequeue claims beyond its limit: dequeueBatch()
\* drops what does not fit, and only reclaimStaleJobs() finds those jobs again.
ProcessingIsOwned ==
  \A j \in Jobs : live[j].status = "processing" => Busy(j) \/ OutcomePending(j)

\* When the cleanup of a loop is over no handler of it runs, every outcome they
\* reported was taken by a flush, and the last flush has pushed all it took.
StopRecordsOutcomes ==
  \A c \in Consumers : loop[c] = "ended" =>
    flight[c] = <<>> /\ completions[c] = <<>> /\ failures[c] = <<>> /\ failing[c].loop = <<>>

\* stop() brings the loop to its end, with nothing left to push.
StopEnds ==
  \A c \in Consumers :
    stopRequested /\ loop[c] # "off" ~> loop[c] = "ended" /\ failing[c].task = <<>>

\* A loop brings every enqueued job to an end unless stop() is called: a flush task
\* that does not run, a lost wake-up or a wait for the wrong batch would leave one
\* behind.
EveryJobRuns ==
  \A j \in Jobs : isProcessing /\ live[j] # NoRow ~> Finished(j) \/ stopRequested
=============================================================================
