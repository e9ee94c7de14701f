------------------------------- MODULE Locker -------------------------------
(***************************************************************************)
(* Locker (src/infrastructure/db/pool/Locker.ts): a lease on one resource, *)
(* held by a row of the claims table that several processes share, and     *)
(* renewed by the timers of the process whose agent holds it.              *)
(*                                                                         *)
(* A call runs its statements one after the other; the statements of a     *)
(* process reach the database in the order they were issued, those of      *)
(* different processes in any order, and a result may be handled late.     *)
(* Time is relative: "left" is what remains until expiresAt, "age" how     *)
(* long ago a call read the clock, "next" when a timer fires.              *)
(*                                                                         *)
(* The database has one row per path, and only the sweep of expired rows   *)
(* touches the rows of other paths: one resource is enough.                *)
(***************************************************************************)
EXTENDS Integers, FiniteSets, SequencesExt

CONSTANTS
  Processes,                 \* each with its own BufferedDbPool and Locker
  Agents,                    \* authors
  Homes,                     \* how the agents may be spread over the processes
  Timers,                    \* bounds the intervals that run at a time: without a free one
                             \* the model grants no lock
  NoAgent, NoTimer,
  Period,                    \* ttlMs / 2
  MaxDelay                   \* longest time from a call to the end of its statements

TTL == 2 * Period

Clients == Agents \cup Timers

ASSUME LockerAssumption ==
  /\ Homes \subseteq [Agents -> Processes]
  /\ Agents \cap Timers = {} /\ NoAgent \notin Agents /\ NoTimer \notin Timers
  /\ Period \in Nat /\ MaxDelay \in Nat
  \* A claim outlives the wait for its first heartbeat, on both ends of which a
  \* call may be slow.
  /\ 2 * MaxDelay <= Period /\ MaxDelay < Period

VARIABLES
  home,                      \* the process each agent works in, the same all along
  claim,                     \* the row: its author, and the time left to its expiresAt
  entry,                     \* activeLocks: the interval of the resource in each process
  timer,                     \* the intervals: for whom, and when the next is due
  call,                      \* the call each client runs: its statement, and whether its
                             \* result waits to be handled
  queue,                     \* statements each process has issued
  holds,                     \* agents that were told "true" and have not released
  missed                     \* history: whether a heartbeat ever failed

vars == <<home, claim, entry, timer, call, queue, holds, missed>>

Idle == [statement |-> "none", done |-> FALSE, age |-> 0]

Off == [author |-> NoAgent, next |-> 0]

NoClaim == [author |-> NoAgent, left |-> 0]

Init ==
  /\ home \in Homes
  /\ claim = NoClaim
  /\ entry = [p \in Processes |-> NoTimer]
  /\ timer = [i \in Timers |-> Off]
  /\ call = [x \in Clients |-> Idle]
  /\ queue = [p \in Processes |-> <<>>]
  /\ holds = {}
  /\ missed = FALSE

\* The author a client acts for, and its process.
Author(x) == IF x \in Agents THEN x ELSE timer[x].author

Home(x) == home[Author(x)]

\* Client x sends a statement; a call that goes on keeps the clock it has read.
Issue(x, statement, age) ==
  /\ call' = [call EXCEPT ![x] = [statement |-> statement, done |-> FALSE, age |-> age]]
  /\ queue' = [queue EXCEPT ![Home(x)] = Append(@, x)]

Return(x) == call' = [call EXCEPT ![x] = Idle]

-----------------------------------------------------------------------------
(* Calls *)

\* acquireLock(): the sweep of expired claims comes first.
Acquire(a) ==
  /\ call[a] = Idle /\ a \notin holds
  /\ Issue(a, "sweep", 0)
  /\ UNCHANGED <<home, claim, entry, timer, holds, missed>>

\* clearInterval() of the entry of process p, whoever it belongs to.  A timer whose
\* heartbeat is still under way keeps its author until that call returns.
DropEntry(p) ==
  LET i == entry[p] IN
  /\ entry' = [entry EXCEPT ![p] = NoTimer]
  /\ timer' = IF i = NoTimer THEN timer
              ELSE [timer EXCEPT ![i] = IF call[i] = Idle THEN Off ELSE [@ EXCEPT !.next = -1]]

\* The call of x ends.
End(x) ==
  /\ Return(x)
  /\ timer' = IF x \in Timers /\ timer[x].next = -1 THEN [timer EXCEPT ![x] = Off] ELSE timer

\* releaseLock() by the holder.
Release(a) ==
  /\ call[a] = Idle /\ a \in holds
  /\ holds' = holds \ {a}
  /\ DropEntry(home[a])
  /\ Issue(a, "release", 0)
  /\ UNCHANGED <<home, claim, missed>>

\* An interval fires; heartbeatLock() returns at once when the entry is gone.
Heartbeat(i) ==
  /\ timer[i].author # NoAgent /\ timer[i].next = 0 /\ call[i] = Idle
  /\ timer' = [timer EXCEPT ![i].next = Period]
  /\ IF entry[Home(i)] = NoTimer THEN UNCHANGED <<call, queue>> ELSE Issue(i, "renew", 0)
  /\ UNCHANGED <<home, claim, entry, holds, missed>>

-----------------------------------------------------------------------------
(* Statements *)

Renewal(x) == [author |-> Author(x), left |-> TTL - call[x].age]

\* Seeded fault: the insert replaces the row that is there.
Effect_Replaces(x) ==
  CASE call[x].statement = "sweep" -> IF claim.left < -call[x].age THEN NoClaim ELSE claim
    [] call[x].statement = "insert" -> Renewal(x)
    [] call[x].statement = "renew" -> IF claim.author = Author(x) THEN Renewal(x) ELSE claim
    [] call[x].statement = "release" -> IF claim.author = Author(x) THEN NoClaim ELSE claim

\* Seeded fault: the sweep takes claims that end now.
Effect_SweepsEarly(x) ==
  CASE call[x].statement = "sweep" -> IF claim.left <= -call[x].age THEN NoClaim ELSE claim
    [] call[x].statement = "insert" -> IF claim = NoClaim THEN Renewal(x) ELSE claim
    [] call[x].statement = "renew" -> IF claim.author = Author(x) THEN Renewal(x) ELSE claim
    [] call[x].statement = "release" -> IF claim.author = Author(x) THEN NoClaim ELSE claim

\* Seeded fault: the sweep takes only claims of the caller.
Effect_SweepsOwn(x) ==
  CASE call[x].statement = "sweep" ->
         IF claim.left < -call[x].age /\ claim.author = Author(x) THEN NoClaim ELSE claim
    [] call[x].statement = "insert" -> IF claim = NoClaim THEN Renewal(x) ELSE claim
    [] call[x].statement = "renew" -> IF claim.author = Author(x) THEN Renewal(x) ELSE claim
    [] call[x].statement = "release" -> IF claim.author = Author(x) THEN NoClaim ELSE claim

\* What the statement of client x makes of the row.
Effect(x) ==
  CASE call[x].statement = "sweep" -> IF claim.left < -call[x].age THEN NoClaim ELSE claim
    [] call[x].statement = "insert" -> IF claim = NoClaim THEN Renewal(x) ELSE claim
    [] call[x].statement = "renew" -> IF claim.author = Author(x) THEN Renewal(x) ELSE claim
    [] call[x].statement = "release" -> IF claim.author = Author(x) THEN NoClaim ELSE claim

\* Whether the call has something left to do when it sees the result: an insert that was
\* refused, a renewal and a release have not.
GoesOn(x) ==
  \/ call[x].statement = "sweep"
  \/ call[x].statement = "insert" /\ claim = NoClaim
  \/ call[x].statement = "renew" /\ claim.author # Author(x)

Execute(p) ==
  LET x == Head(queue[p]) IN
  /\ queue[p] # <<>>
  /\ claim' = Effect(x)
  /\ IF GoesOn(x) THEN call' = [call EXCEPT ![x].done = TRUE] /\ UNCHANGED timer ELSE End(x)
  /\ queue' = [queue EXCEPT ![p] = Tail(@)]
  /\ UNCHANGED <<home, entry, holds, missed>>

\* The database is busy: the statement has no effect, and its call ends in a catch.  One
\* heartbeat may fail like that.
Fail(p) ==
  LET x == Head(queue[p]) IN
  /\ queue[p] # <<>>
  /\ End(x)
  /\ queue' = [queue EXCEPT ![p] = Tail(@)]
  /\ call[x].statement = "renew" => ~missed
  /\ missed' = (missed \/ call[x].statement = "renew")
  /\ UNCHANGED <<home, claim, entry, holds>>

-----------------------------------------------------------------------------
(* Results *)

Handled(x, statement) == call[x].statement = statement /\ call[x].done

Insert(a) ==
  /\ Handled(a, "sweep")
  /\ Issue(a, "insert", call[a].age)
  /\ UNCHANGED <<home, claim, entry, timer, holds, missed>>

\* Seeded fault: the interval is ttlMs.
Granted_OncePerTTL(a) ==
  /\ Handled(a, "insert")
  /\ \E i \in Timers :
       /\ timer[i] = Off /\ i = CHOOSE k \in Timers : timer[k] = Off
       /\ timer' = [timer EXCEPT ![i] = [author |-> a, next |-> TTL]]
       /\ entry' = [entry EXCEPT ![home[a]] = i]
  /\ holds' = holds \cup {a}
  /\ Return(a)
  /\ UNCHANGED <<home, claim, queue, missed>>

\* The entry is overwritten, and with it the only way to stop an older interval.
Granted(a) ==
  /\ Handled(a, "insert")
  /\ \E i \in Timers :
       /\ timer[i] = Off /\ i = CHOOSE k \in Timers : timer[k] = Off
       /\ timer' = [timer EXCEPT ![i] = [author |-> a, next |-> Period]]
       /\ entry' = [entry EXCEPT ![home[a]] = i]
  /\ holds' = holds \cup {a}
  /\ Return(a)
  /\ UNCHANGED <<home, claim, queue, missed>>

\* No row was updated: heartbeatLock() calls releaseLock(), which drops the entry the
\* process has by now, and deletes the claim if it is this author's.
Lost(i) ==
  /\ Handled(i, "renew")
  /\ DropEntry(Home(i))
  /\ Issue(i, "release", 0)
  /\ UNCHANGED <<home, claim, holds, missed>>

-----------------------------------------------------------------------------
\* A process dies, or destroy() stops its timers on the way out; its agents start over.
Crash(p) ==
  LET gone == {x \in Clients : Author(x) \in Agents /\ Home(x) = p} IN
  /\ call' = [x \in Clients |-> IF x \in gone THEN Idle ELSE call[x]]
  /\ timer' = [i \in Timers |-> IF i \in gone THEN Off ELSE timer[i]]
  /\ entry' = [entry EXCEPT ![p] = NoTimer]
  /\ queue' = [queue EXCEPT ![p] = <<>>]
  /\ holds' = {a \in holds : home[a] # p}
  /\ UNCHANGED <<home, claim, missed>>

\* Time passes.  No timer is overdue, and no call takes longer than MaxDelay.
Tick ==
  /\ \A i \in Timers : timer[i].author # NoAgent => timer[i].next # 0
  /\ \A x \in Clients : call[x].age < MaxDelay
  /\ timer' = [i \in Timers |-> IF timer[i].next > 0 THEN [timer[i] EXCEPT !.next = @ - 1]
                                                      ELSE timer[i]]
  /\ call' = [x \in Clients |-> IF call[x] = Idle THEN Idle ELSE [call[x] EXCEPT !.age = @ + 1]]
  /\ claim' = IF claim = NoClaim \/ claim.left < -MaxDelay THEN claim
                                                           ELSE [claim EXCEPT !.left = @ - 1]
  /\ UNCHANGED <<home, entry, queue, holds, missed>>

-----------------------------------------------------------------------------
AgentStep(a) == Insert(a) \/ Granted(a)

TimerStep(i) == Heartbeat(i) \/ Lost(i)

Next ==
  \/ \E a \in Agents : Acquire(a) \/ Release(a) \/ AgentStep(a)
  \/ \E i \in Timers : TimerStep(i)
  \/ \E p \in Processes : Execute(p) \/ Fail(p) \/ Crash(p)
  \/ Tick

Spec == Init /\ [][Next]_vars

\* Time passes, calls go on, and somebody keeps asking for the lock.
Fairness ==
  /\ WF_vars(Tick)
  /\ \A a \in Agents : WF_vars(Acquire(a)) /\ WF_vars(AgentStep(a))
  /\ \A i \in Timers : WF_vars(TimerStep(i))
  /\ \A p \in Processes : SF_vars(Execute(p))

FairSpec == Spec /\ Fairness
-----------------------------------------------------------------------------
(* Properties *)

Statements == {"none", "sweep", "insert", "renew", "release"}

\* Every variable holds what its declaration says.
TypeOK ==
  /\ home \in Homes
  /\ claim \in [author : Agents \cup {NoAgent}, left : -MaxDelay - 1 .. TTL]
  /\ entry \in [Processes -> Timers \cup {NoTimer}]
  /\ timer \in [Timers -> [author : Agents \cup {NoAgent}, next : -1 .. Period]]
  /\ call \in [Clients -> [statement : Statements, done : BOOLEAN, age : 0 .. MaxDelay]]
  /\ queue \in [Processes -> Seq(Clients)]
  /\ holds \in SUBSET Agents /\ missed \in BOOLEAN

\* Two agents never hold the resource at a time, in one process or in two, whatever
\* crashes, failed statements and late results come between, as long as every
\* heartbeat reached the database.
MutualExclusion == ~missed => \A a, b \in holds : a = b

\* The row of a holder is there and has not expired: no sweep that read the clock
\* earlier and no late release of somebody else takes it away.
HolderHasClaim ==
  ~missed => \A a \in holds : claim.author = a /\ claim.left >= 0

Beats(i) == timer[i].author # NoAgent /\ timer[i].next >= 0

\* Exactly the holder's interval runs: a lock that was given up is not renewed for
\* ever, and no release clears the interval of another agent's lock.
HeartbeatsMatch ==
  ~missed => \A a \in Agents :
    LET beating == {i \in Timers : Beats(i) /\ timer[i].author = a} IN
    IF a \in holds THEN beating = {entry[home[a]]} ELSE beating = {}

\* A lease is kept: its row is there while it is held, and renewed exactly that long.
LeaseKept == HolderHasClaim /\ HeartbeatsMatch

\* The claim of an agent that crashed, or whose release failed, gives way: it expires
\* and the next sweep removes it.  A heartbeat that outlives its lock would renew the
\* row for ever; that may happen once a heartbeat was missed.
AbandonedClaimGivesWay ==
  \A a \in Agents :
    claim.author = a /\ a \notin holds ~> claim.author # a \/ a \in holds \/ missed
=============================================================================
