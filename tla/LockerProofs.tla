---------------------------- MODULE LockerProofs ----------------------------
(***************************************************************************)
(* The lease of Locker is exclusive and kept for all processes, agents,    *)
(* periods and delays that satisfy LockerAssumption, whatever crashes,     *)
(* fails or comes late, as long as every heartbeat reached the database.   *)
(***************************************************************************)
EXTENDS Locker, SequenceTheorems, TLAPS

-----------------------------------------------------------------------------
(* The inductive invariant *)

\* The place k of process p's queue has the statement of a call that waits for it.
QueuedAt(p, k) ==
  /\ Author(queue[p][k]) \in Agents
  /\ Home(queue[p][k]) = p
  /\ call[queue[p][k]].statement # "none"
  /\ ~call[queue[p][k]].done

Places(p) == 1 .. Len(queue[p])

\* Each client has one statement in the queues at most, and in the queue of its process.
Queues ==
  /\ \A p \in Processes : \A k \in Places(p) : QueuedAt(p, k)
  /\ \A p \in Processes : \A k, l \in Places(p) : queue[p][k] = queue[p][l] => k = l

\* What agents and intervals call; an interval without an author does nothing.
Calling ==
  /\ \A x \in Clients : call[x].statement = "none" => call[x] = Idle
  /\ \A a \in Agents : call[a].statement \in {"none", "sweep", "insert", "release"}
  /\ \A a \in holds : call[a] = Idle
  /\ \A i \in Timers : call[i].statement \in {"none", "renew", "release"}
  /\ \A i \in Timers : timer[i].author = NoAgent => timer[i] = Off /\ call[i] = Idle

\* The row of a lease that is about to be granted is as old as the call.
Fresh(a) == claim = [author |-> a, left |-> TTL - call[a].age]

\* The statement of interval i is in its queue, and the release of its author, if one
\* was issued, behind it.
BeforeRelease(i) ==
  LET a == timer[i].author  p == home[a]
  IN \E k \in Places(p) :
       /\ queue[p][k] = i
       /\ \/ a \in holds
          \/ \E l \in Places(p) : k < l /\ queue[p][l] = a /\ call[a].statement = "release"

\* A heartbeat under way finds the row of its author, which has not expired.
Renewing(i) ==
  /\ call[i].statement = "renew" /\ ~call[i].done
  /\ claim.author = timer[i].author
  /\ claim.left >= Period - MaxDelay - call[i].age
  /\ BeforeRelease(i)

\* The holder's interval runs, and the row outlives the wait for its next heartbeat.
Leased(a) ==
  LET i == entry[home[a]] IN
  /\ claim.author = a
  /\ i \in Timers /\ timer[i].author = a /\ timer[i].next >= 0
  /\ \A k \in Timers : Beats(k) /\ timer[k].author = a => k = i
  /\ IF call[i] = Idle THEN claim.left >= timer[i].next + Period - MaxDelay
                       ELSE timer[i].next = Period - call[i].age

Lease ==
  /\ \A a \in Agents : Handled(a, "insert") => Fresh(a)
  /\ \A i \in Timers : call[i] # Idle => Renewing(i)
  /\ \A a \in holds : Leased(a)
  /\ \A i \in Timers : Beats(i) => timer[i].author \in holds

LockerInv == TypeOK /\ Queues /\ Calling /\ (~missed => Lease)

-----------------------------------------------------------------------------
(* Types *)

LEMMA HomesInProcesses == TypeOK => home \in [Agents -> Processes]
  BY LockerAssumption DEF TypeOK

LEMMA Bounds ==
  /\ Period \in Nat /\ MaxDelay \in Nat /\ TTL \in Nat /\ TTL = 2 * Period
  /\ MaxDelay < Period /\ 2 * MaxDelay <= Period
  BY LockerAssumption DEF TTL

LEMMA Names == Agents \cap Timers = {} /\ NoAgent \notin Agents /\ NoTimer \notin Timers
  BY LockerAssumption

CallRecord == [statement : Statements, done : BOOLEAN, age : 0 .. MaxDelay]

TimerRecord == [author : Agents \cup {NoAgent}, next : -1 .. Period]

LEMMA IssueTypes ==
  ASSUME TypeOK, NEW x \in Clients, Author(x) \in Agents,
         NEW statement \in Statements, NEW age \in 0 .. MaxDelay,
         Issue(x, statement, age)
  PROVE  /\ call' \in [Clients -> CallRecord]
         /\ queue' \in [Processes -> Seq(Clients)]
<1>1. Home(x) \in Processes
  BY HomesInProcesses DEF Home
<1>2. Append(queue[Home(x)], x) \in Seq(Clients)
  BY <1>1, AppendProperties DEF TypeOK
<1>3. [statement |-> statement, done |-> FALSE, age |-> age] \in CallRecord
  BY DEF CallRecord
<1> QED
  BY <1>2, <1>3 DEF Issue, TypeOK, CallRecord

LEMMA DropTypes ==
  ASSUME TypeOK, NEW p \in Processes, DropEntry(p)
  PROVE  /\ entry' \in [Processes -> Timers \cup {NoTimer}]
         /\ timer' \in [Timers -> TimerRecord]
<1>1. entry' \in [Processes -> Timers \cup {NoTimer}]
  BY DEF DropEntry, TypeOK
<1>2. Off \in TimerRecord
  BY Bounds DEF Off, TimerRecord
<1>3. \A r \in TimerRecord : [r EXCEPT !.next = -1] \in TimerRecord
  BY Bounds DEF TimerRecord
<1>4. timer \in [Timers -> TimerRecord] /\ entry[p] \in Timers \cup {NoTimer}
  BY DEF TypeOK, TimerRecord
<1>5. timer' \in [Timers -> TimerRecord]
  BY <1>2, <1>3, <1>4 DEF DropEntry
<1> QED
  BY <1>1, <1>5

LEMMA EndTypes ==
  ASSUME TypeOK, NEW x \in Clients, End(x)
  PROVE  /\ call' \in [Clients -> CallRecord]
         /\ timer' \in [Timers -> TimerRecord]
<1>1. Idle \in CallRecord
  BY Bounds DEF Idle, CallRecord, Statements
<1>2. Off \in TimerRecord
  BY Bounds DEF Off, TimerRecord
<1>3. call \in [Clients -> CallRecord] /\ timer \in [Timers -> TimerRecord]
  BY DEF TypeOK, CallRecord, TimerRecord
<1> QED
  BY <1>1, <1>2, <1>3 DEF End, Return

\* The head of a queue is a client whose statement waits.
LEMMA HeadOfQueue ==
  ASSUME TypeOK, Queues, NEW p \in Processes, queue[p] # <<>>
  PROVE  /\ Head(queue[p]) \in Clients
         /\ Author(Head(queue[p])) \in Agents
         /\ Home(Head(queue[p])) = p
         /\ call[Head(queue[p])].statement # "none" /\ ~call[Head(queue[p])].done
         /\ Tail(queue[p]) \in Seq(Clients)
<1>1. queue[p] \in Seq(Clients)
  BY DEF TypeOK
<1>2. Head(queue[p]) = queue[p][1] /\ 1 \in Places(p) /\ Tail(queue[p]) \in Seq(Clients)
  BY <1>1 DEF Places
<1>3. QueuedAt(p, 1)
  BY <1>2 DEF Queues
<1> QED
  BY <1>1, <1>2, <1>3 DEF QueuedAt

LEMMA EffectTypes ==
  ASSUME TypeOK, Calling, NEW x \in Clients, Author(x) \in Agents,
         call[x].statement # "none"
  PROVE  Effect(x) \in [author : Agents \cup {NoAgent}, left : -MaxDelay - 1 .. TTL]
<1>1. call[x] \in CallRecord
  BY DEF TypeOK, CallRecord
<1>2. call[x].age \in 0 .. MaxDelay
  BY <1>1 DEF CallRecord
<1>3. TTL - call[x].age \in -MaxDelay - 1 .. TTL
  BY <1>2, Bounds
<1>4. Renewal(x) \in [author : Agents \cup {NoAgent}, left : -MaxDelay - 1 .. TTL]
  BY <1>3 DEF Renewal
<1>5. NoClaim \in [author : Agents \cup {NoAgent}, left : -MaxDelay - 1 .. TTL]
  BY Bounds DEF NoClaim
<1>6. call[x].statement \in {"sweep", "insert", "renew", "release"}
  BY <1>1 DEF CallRecord, Statements
<1> QED
  BY <1>4, <1>5, <1>6 DEF Effect, TypeOK

LEMMA TypesInit == Init => TypeOK
<1> SUFFICES ASSUME Init PROVE TypeOK
  OBVIOUS
<1>1. Idle \in CallRecord /\ Off \in TimerRecord
  BY Bounds DEF Idle, Off, CallRecord, TimerRecord, Statements
<1>2. claim \in [author : Agents \cup {NoAgent}, left : -MaxDelay - 1 .. TTL]
  BY Bounds DEF Init, NoClaim
<1>3. /\ entry \in [Processes -> Timers \cup {NoTimer}]
      /\ timer \in [Timers -> TimerRecord] /\ call \in [Clients -> CallRecord]
      /\ queue \in [Processes -> Seq(Clients)]
  BY <1>1 DEF Init
<1> QED
  BY <1>2, <1>3 DEF Init, TypeOK, CallRecord, TimerRecord

\* The variables that an action leaves alone keep their types: the others are named.
LEMMA TypesStep == TypeOK /\ Queues /\ Calling /\ [Next]_vars => TypeOK'
<1> SUFFICES ASSUME TypeOK, Queues, Calling, [Next]_vars PROVE TypeOK'
  OBVIOUS
<1> USE DEF CallRecord, TimerRecord
<1>0. /\ \A a \in Agents : a \in Clients /\ Author(a) = a /\ home[a] \in Processes
      /\ \A i \in Timers : i \in Clients /\ Author(i) = timer[i].author
      /\ 0 \in 0 .. MaxDelay
      /\ {"sweep", "insert", "renew", "release"} \subseteq Statements
  BY HomesInProcesses, Names, Bounds DEF Clients, Author, Statements
<1>1. ASSUME NEW a \in Agents, Acquire(a) PROVE TypeOK'
  BY <1>0, <1>1, IssueTypes DEF Acquire, TypeOK
<1>2. ASSUME NEW a \in Agents, Release(a) PROVE TypeOK'
  <2>1. /\ call' \in [Clients -> CallRecord] /\ queue' \in [Processes -> Seq(Clients)]
    BY <1>0, <1>2, IssueTypes DEF Release
  <2>2. /\ entry' \in [Processes -> Timers \cup {NoTimer}]
        /\ timer' \in [Timers -> TimerRecord]
    BY <1>0, <1>2, DropTypes DEF Release
  <2> QED
    BY <1>2, <2>1, <2>2 DEF Release, TypeOK
<1>3. ASSUME NEW a \in Agents, Insert(a) PROVE TypeOK'
  <2>1. call[a].age \in 0 .. MaxDelay
    BY <1>0 DEF TypeOK
  <2> QED
    BY <1>0, <1>3, <2>1, IssueTypes DEF Insert, TypeOK
<1>4. ASSUME NEW a \in Agents, Granted(a) PROVE TypeOK'
  <2>1. PICK i \in Timers : /\ timer' = [timer EXCEPT ![i] = [author |-> a, next |-> Period]]
                            /\ entry' = [entry EXCEPT ![home[a]] = i]
    BY <1>4 DEF Granted
  <2>2. [author |-> a, next |-> Period] \in TimerRecord /\ Idle \in CallRecord
    BY Bounds, <1>0 DEF Idle, Statements
  <2>3. timer' \in [Timers -> TimerRecord] /\ entry' \in [Processes -> Timers \cup {NoTimer}]
    BY <2>1, <2>2 DEF TypeOK
  <2>4. call' \in [Clients -> CallRecord] /\ holds' \in SUBSET Agents
    BY <1>4, <2>2 DEF Granted, Return, TypeOK
  <2> QED
    BY <1>4, <2>3, <2>4 DEF Granted, TypeOK
<1>5. ASSUME NEW i \in Timers, Heartbeat(i) PROVE TypeOK'
  <2>1. timer' \in [Timers -> TimerRecord]
    BY SMTT(30), <1>5, Bounds DEF Heartbeat, TypeOK
  <2>2. timer[i].author \in Agents
    BY <1>5 DEF Heartbeat, TypeOK
  <2>3. call' \in [Clients -> CallRecord] /\ queue' \in [Processes -> Seq(Clients)]
    BY <1>0, <1>5, <2>2, IssueTypes DEF Heartbeat, TypeOK
  <2> QED
    BY <1>5, <2>1, <2>3 DEF Heartbeat, TypeOK
<1>6. ASSUME NEW i \in Timers, Lost(i) PROVE TypeOK'
  <2>1. timer[i].author \in Agents
    BY <1>6 DEF Lost, Handled, TypeOK, Calling, Idle
  <2>2. Home(i) \in Processes
    BY <1>0, <2>1 DEF Home
  <2>3. call' \in [Clients -> CallRecord] /\ queue' \in [Processes -> Seq(Clients)]
    BY <1>0, <1>6, <2>1, IssueTypes DEF Lost
  <2>4. /\ entry' \in [Processes -> Timers \cup {NoTimer}]
        /\ timer' \in [Timers -> TimerRecord]
    BY <1>6, <2>2, DropTypes DEF Lost
  <2> QED
    BY <1>6, <2>3, <2>4 DEF Lost, TypeOK
<1>7. ASSUME NEW p \in Processes, Execute(p) PROVE TypeOK'
  <2>1. PICK x : x = Head(queue[p])
    OBVIOUS
  <2>2. x \in Clients /\ Author(x) \in Agents /\ call[x].statement # "none"
    BY <1>7, <2>1, HeadOfQueue DEF Execute
  <2>3. claim' \in [author : Agents \cup {NoAgent}, left : -MaxDelay - 1 .. TTL]
    BY <1>7, <2>1, <2>2, EffectTypes DEF Execute
  <2>4. call' \in [Clients -> CallRecord] /\ timer' \in [Timers -> TimerRecord]
    <3>1. CASE GoesOn(x)
      BY ZenonT(60), <1>7, <2>1, <2>2, <3>1 DEF Execute, TypeOK
    <3>2. CASE ~GoesOn(x)
      BY <1>7, <2>1, <2>2, <3>2, EndTypes DEF Execute
    <3> QED
      BY <3>1, <3>2
  <2>5. queue' \in [Processes -> Seq(Clients)]
    BY <1>7, HeadOfQueue DEF Execute, TypeOK
  <2> QED
    BY <1>7, <2>3, <2>4, <2>5 DEF Execute, TypeOK
<1>8. ASSUME NEW p \in Processes, Fail(p) PROVE TypeOK'
  <2>1. PICK x : x = Head(queue[p])
    OBVIOUS
  <2>2. x \in Clients /\ End(x)
    BY <1>8, <2>1, HeadOfQueue DEF Fail
  <2>3. queue' \in [Processes -> Seq(Clients)]
    BY <1>8, HeadOfQueue DEF Fail, TypeOK
  <2> QED
    BY <1>8, <2>1, <2>2, <2>3, EndTypes DEF Fail, TypeOK
<1>9. ASSUME NEW p \in Processes, Crash(p) PROVE TypeOK'
  <2>1. Idle \in CallRecord /\ Off \in TimerRecord
    BY Bounds DEF Idle, Off, Statements
  <2>2. /\ call' \in [Clients -> CallRecord] /\ timer' \in [Timers -> TimerRecord]
        /\ entry' \in [Processes -> Timers \cup {NoTimer}]
    BY <1>9, <2>1 DEF Crash, TypeOK
  <2> QED
    BY <1>9, <2>2 DEF Crash, TypeOK
<1>10. ASSUME Tick PROVE TypeOK'
  <2>1. timer' \in [Timers -> TimerRecord]
    <3> SUFFICES ASSUME NEW i \in Timers PROVE timer'[i] \in TimerRecord
      BY <1>10 DEF Tick
    <3>1. timer[i] \in TimerRecord
      BY DEF TypeOK
    <3>2. timer[i].next > 0 => [timer[i] EXCEPT !.next = @ - 1] \in TimerRecord
      BY <3>1, Bounds
    <3> QED
      BY <1>10, <3>1, <3>2 DEF Tick
  <2>2. call' \in [Clients -> CallRecord]
    <3> SUFFICES ASSUME NEW x \in Clients PROVE call'[x] \in CallRecord
      BY <1>10 DEF Tick
    <3>1. call[x] \in CallRecord /\ call[x].age < MaxDelay
      BY <1>10 DEF TypeOK, Tick
    <3>2. [call[x] EXCEPT !.age = @ + 1] \in CallRecord
      BY <3>1, Bounds
    <3> QED
      BY <1>10, <3>1, <3>2 DEF Tick
  <2>3. claim' \in [author : Agents \cup {NoAgent}, left : -MaxDelay - 1 .. TTL]
    <3>1. claim.left \in -MaxDelay - 1 .. TTL
      BY DEF TypeOK
    <3>2. ~(claim.left < -MaxDelay) => claim.left - 1 \in -MaxDelay - 1 .. TTL
      BY <3>1, Bounds
    <3> QED
      BY <1>10, <3>2 DEF Tick, TypeOK
  <2> QED
    BY <1>10, <2>1, <2>2, <2>3 DEF Tick, TypeOK
<1>11. CASE UNCHANGED vars
  BY <1>11 DEF vars, TypeOK
<1> QED
  BY <1>1, <1>2, <1>3, <1>4, <1>5, <1>6, <1>7, <1>8, <1>9, <1>10, <1>11
  DEF Next, AgentStep, TimerStep

-----------------------------------------------------------------------------
(* Queues and calls *)

\* The author of the clients that wait is the same after the step.
AuthorsStay(S) == \A i \in Timers \cap S : timer'[i].author = timer[i].author

Waiting == {x \in Clients : call[x].statement # "none" /\ ~call[x].done}

LEMMA AuthorStays ==
  ASSUME NEW S, AuthorsStay(S), NEW x \in Clients \cap S, home' = home
  PROVE  Author(x)' = Author(x) /\ Home(x)' = Home(x)
  BY DEF AuthorsStay, Author, Home, Clients

LEMMA QueuesIssue ==
  ASSUME TypeOK, Queues, NEW x \in Clients, Author(x) \in Agents, x \notin Waiting,
         NEW statement, statement # "none", NEW age, Issue(x, statement, age),
         home' = home, AuthorsStay(Waiting \cup {x})
  PROVE  Queues'
<1>1. PICK q : q = Home(x)
  OBVIOUS
<1>2. q \in Processes /\ \A p \in Processes : queue[p] \in Seq(Clients)
  BY <1>1, HomesInProcesses DEF Home, TypeOK
<1>3. /\ queue' = [queue EXCEPT ![q] = Append(@, x)]
      /\ call' = [call EXCEPT ![x] = [statement |-> statement, done |-> FALSE, age |-> age]]
  BY <1>1 DEF Issue
<1>4. \A p \in Processes : \A k \in Places(p) : queue[p][k] \in Waiting /\ Home(queue[p][k]) = p
                                                /\ Author(queue[p][k]) \in Agents
  BY <1>2 DEF Queues, QueuedAt, Places, Waiting
<1>5. ASSUME NEW p \in Processes, NEW k \in Places(p)'
      PROVE  \/ k \in Places(p) /\ queue'[p][k] = queue[p][k]
             \/ p = q /\ k = Len(queue[p]) + 1 /\ queue'[p][k] = x
  BY <1>2, <1>3, <1>5 DEF TypeOK, Places
<1>6. ASSUME NEW p \in Processes, NEW k \in Places(p)' PROVE QueuedAt(p, k)'
  <2>1. CASE k \in Places(p) /\ queue'[p][k] = queue[p][k]
    <3>1. PICK y \in Waiting : y = queue[p][k]
      BY <1>4, <2>1
    <3>2. y \in Clients /\ y # x /\ call'[y] = call[y]
      BY <1>3, <3>1 DEF Waiting, TypeOK
    <3>3. Author(y)' = Author(y) /\ Home(y)' = Home(y)
      BY <3>1, <3>2, AuthorStays
    <3>4. Author(y) \in Agents /\ Home(y) = p /\ call[y].statement # "none" /\ ~call[y].done
      BY <1>4, <2>1, <3>1 DEF Waiting
    <3> QED
      BY <2>1, <3>1, <3>2, <3>3, <3>4 DEF QueuedAt
  <2>2. CASE p = q /\ queue'[p][k] = x
    <3>1. Author(x)' = Author(x) /\ Home(x)' = Home(x)
      BY AuthorStays
    <3>2. call'[x] = [statement |-> statement, done |-> FALSE, age |-> age]
      BY <1>3 DEF TypeOK
    <3> QED
      BY <1>1, <2>2, <3>1, <3>2 DEF QueuedAt
  <2> QED
    BY <1>5, <1>6, <2>1, <2>2
<1>7. ASSUME NEW p \in Processes, NEW k \in Places(p)', NEW l \in Places(p)',
             queue'[p][k] = queue'[p][l]
      PROVE  k = l
  <2>1. x \notin {queue[p][n] : n \in Places(p)}
    BY <1>4
  <2> QED
    BY <1>5, <1>7, <2>1 DEF Queues
<1> QED
  BY <1>6, <1>7 DEF Queues

LEMMA QueuesPop ==
  ASSUME TypeOK, Queues, NEW p \in Processes, queue[p] # <<>>,
         queue' = [queue EXCEPT ![p] = Tail(@)], home' = home,
         \A y \in Clients : y # Head(queue[p]) => call'[y] = call[y],
         AuthorsStay(Clients \ {Head(queue[p])})
  PROVE  Queues'
<1>1. PICK x : x = Head(queue[p])
  OBVIOUS
<1>2. \A q \in Processes : queue[q] \in Seq(Clients)
  BY DEF TypeOK
<1>3. x = queue[p][1] /\ 1 \in Places(p)
  BY <1>1, <1>2 DEF Places
<1>4. ASSUME NEW q \in Processes, NEW k \in Places(q)'
      PROVE  \E l \in Places(q) : /\ queue'[q][k] = queue[q][l]
                                  /\ queue[q][l] # x
                                  /\ l = IF q = p THEN k + 1 ELSE k
  <2>1. CASE q = p
    <3>1. queue'[p] = Tail(queue[p])
      BY DEF TypeOK
    <3>0. k \in 1 .. Len(Tail(queue[p]))
      BY <2>1, <3>1 DEF Places
    <3>2. k + 1 \in Places(p) /\ queue'[p][k] = queue[p][k + 1] /\ k + 1 # 1
      <4>1. queue[p] \in Seq(Clients) /\ queue[p] # <<>>
        BY <1>2
      <4>2. Len(Tail(queue[p])) = Len(queue[p]) - 1 /\ Tail(queue[p])[k] = queue[p][k + 1]
        BY <3>0, <4>1
      <4> QED
        <5>1. Len(queue[p]) \in Nat /\ k \in Int /\ 1 <= k /\ k <= Len(queue[p]) - 1
          BY <3>0, <4>1, <4>2
        <5>2. k + 1 \in Places(p)
          BY <5>1 DEF Places
        <5>3. queue'[p][k] = queue[p][k + 1]
          BY <3>1, <4>2
        <5>4. k + 1 # 1
          BY <5>1
        <5> QED
          BY <5>2, <5>3, <5>4
    <3>3. queue[p][k + 1] # x
      BY <1>3, <3>2 DEF Queues
    <3> QED
      BY <2>1, <3>2, <3>3
  <2>2. CASE q # p
    <3>1. queue'[q] = queue[q]
      BY <2>2 DEF TypeOK
    <3>2. k \in Places(q)
      BY <3>1 DEF Places
    <3>3. Home(queue[q][k]) = q /\ Home(queue[p][1]) = p
      BY <3>2, <1>3 DEF Queues, QueuedAt
    <3> QED
      BY <1>3, <2>2, <3>1, <3>2, <3>3
  <2> QED
    BY <2>1, <2>2
<1>5. ASSUME NEW q \in Processes, NEW k \in Places(q)' PROVE QueuedAt(q, k)'
  <2>1. PICK l \in Places(q) : queue'[q][k] = queue[q][l] /\ queue[q][l] # x
    BY <1>4, <1>5
  <2>2. PICK y : y = queue[q][l]
    OBVIOUS
  <2>3. y \in Clients /\ y # x
    BY <1>2, <2>1, <2>2 DEF Places
  <2>4. Author(y)' = Author(y) /\ Home(y)' = Home(y) /\ call'[y] = call[y]
    BY <1>1, <2>3, AuthorStays
  <2>5. Author(y) \in Agents /\ Home(y) = q /\ call[y].statement # "none" /\ ~call[y].done
    BY <2>1, <2>2 DEF Queues, QueuedAt
  <2> QED
    BY <2>1, <2>2, <2>4, <2>5 DEF QueuedAt
<1>6. ASSUME NEW q \in Processes, NEW k \in Places(q)', NEW l \in Places(q)',
             queue'[q][k] = queue'[q][l]
      PROVE  k = l
  <2>1. k \in Int /\ l \in Int
    BY DEF Places
  <2>2. PICK m \in Places(q), n \in Places(q) :
          /\ queue'[q][k] = queue[q][m] /\ m = IF q = p THEN k + 1 ELSE k
          /\ queue'[q][l] = queue[q][n] /\ n = IF q = p THEN l + 1 ELSE l
    BY <1>4
  <2>3. m = n
    BY <1>6, <2>2 DEF Queues
  <2> QED
    BY <2>1, <2>2, <2>3
<1> QED
  BY <1>5, <1>6 DEF Queues

LEMMA QueuesQuiet ==
  ASSUME TypeOK, Queues, queue' = queue, home' = home, AuthorsStay(Waiting),
         \A x \in Waiting : call'[x].statement = call[x].statement /\ ~call'[x].done
  PROVE  Queues'
<1>1. ASSUME NEW p \in Processes, NEW k \in Places(p) PROVE QueuedAt(p, k)'
  <2>1. PICK y : y = queue[p][k]
    OBVIOUS
  <2>2. y \in Waiting /\ Author(y) \in Agents /\ Home(y) = p
    BY <2>1 DEF Queues, QueuedAt, TypeOK, Waiting, Places
  <2>3. Author(y)' = Author(y) /\ Home(y)' = Home(y)
    BY <2>2, AuthorStays DEF Waiting
  <2> QED
    BY <2>1, <2>2, <2>3 DEF QueuedAt, Waiting
<1> QED
  BY <1>1 DEF Queues, Places

\* Only intervals that wait for nothing forget their author when an entry is dropped.
LEMMA DropKeepsAuthors ==
  ASSUME TypeOK, NEW p \in Processes, DropEntry(p)
  PROVE  \A i \in Timers : \/ timer'[i].author = timer[i].author
                           \/ i = entry[p] /\ call[i] = Idle /\ timer'[i] = Off
  BY DEF DropEntry, TypeOK

LEMMA WaitingIsBusy ==
  ASSUME Calling
  PROVE  /\ \A x \in Waiting : call[x] # Idle
         /\ \A i \in Timers : call[i] # Idle => timer[i].author # NoAgent
  BY DEF Waiting, Calling, Idle

LEMMA QueuesStep == TypeOK /\ Queues /\ Calling /\ [Next]_vars => Queues'
<1> SUFFICES ASSUME TypeOK, Queues, Calling, [Next]_vars PROVE Queues'
  OBVIOUS
<1>0. /\ \A a \in Agents : a \in Clients /\ a \notin Timers /\ Author(a) = a /\ home[a] \in Processes
      /\ \A i \in Timers : i \in Clients /\ Author(i) = timer[i].author
      /\ \A x \in Clients : call[x] = Idle => x \notin Waiting
      /\ \A x \in Clients : call[x].done => x \notin Waiting
  BY HomesInProcesses, Names DEF Clients, Author, Waiting, Idle
<1>1. ASSUME NEW a \in Agents, Acquire(a) PROVE Queues'
  BY <1>0, <1>1, QueuesIssue DEF Acquire, AuthorsStay
<1>2. ASSUME NEW a \in Agents, Release(a) PROVE Queues'
  <2>1. AuthorsStay(Waiting \cup {a})
    BY <1>0, <1>2, DropKeepsAuthors DEF Release, AuthorsStay
  <2> QED
    BY <1>0, <1>2, <2>1, QueuesIssue DEF Release
<1>3. ASSUME NEW a \in Agents, Insert(a) PROVE Queues'
  BY <1>0, <1>3, QueuesIssue DEF Insert, Handled, AuthorsStay
<1>4. ASSUME NEW a \in Agents, Granted(a) PROVE Queues'
  <2>1. PICK i \in Timers : /\ timer[i] = Off
                            /\ timer' = [timer EXCEPT ![i] = [author |-> a, next |-> Period]]
    BY <1>4 DEF Granted
  <2>2. i \notin Waiting
    BY <1>0, <2>1, WaitingIsBusy DEF Off
  <2>3. AuthorsStay(Waiting)
    BY <2>1, <2>2 DEF AuthorsStay, TypeOK
  <2>4. \A x \in Waiting : call'[x] = call[x]
    BY <1>0, <1>4 DEF Granted, Handled, Return, TypeOK, Waiting
  <2> QED
    BY <1>4, <2>3, <2>4, QueuesQuiet DEF Granted, Waiting
<1>5. ASSUME NEW i \in Timers, Heartbeat(i) PROVE Queues'
  <2>1. \A S : AuthorsStay(S)
    BY <1>5 DEF Heartbeat, AuthorsStay, TypeOK
  <2>2. timer[i].author \in Agents
    BY <1>5 DEF Heartbeat, TypeOK
  <2>3. CASE entry[Home(i)] = NoTimer
    BY <1>5, <2>1, <2>3, QueuesQuiet DEF Heartbeat, Waiting
  <2>4. CASE entry[Home(i)] # NoTimer
    BY <1>0, <1>5, <2>1, <2>2, <2>4, QueuesIssue DEF Heartbeat
  <2> QED
    BY <2>3, <2>4
<1>6. ASSUME NEW i \in Timers, Lost(i) PROVE Queues'
  <2>1. timer[i].author \in Agents
    BY <1>6, WaitingIsBusy DEF Lost, Handled, TypeOK, Idle
  <2>2. call[i] # Idle /\ i \notin Waiting /\ Home(i) \in Processes
    BY <1>0, <1>6, <2>1, HomesInProcesses DEF Lost, Handled, Idle, Home
  <2>3. AuthorsStay(Waiting \cup {i})
    BY <1>6, <2>2, DropKeepsAuthors, WaitingIsBusy DEF Lost, AuthorsStay
  <2> QED
    BY <1>0, <1>6, <2>1, <2>2, <2>3, QueuesIssue DEF Lost
<1>7. ASSUME NEW p \in Processes, queue[p] # <<>>, queue' = [queue EXCEPT ![p] = Tail(@)],
             End(Head(queue[p])) \/ (call' = [call EXCEPT ![Head(queue[p])].done = TRUE] /\ UNCHANGED timer),
             home' = home
      PROVE  Queues'
  <2>1. PICK x : x = Head(queue[p])
    OBVIOUS
  <2>2. \A y \in Clients : y # x => call'[y] = call[y]
    BY <1>7, <2>1 DEF End, Return, TypeOK
  <2>3. AuthorsStay(Clients \ {x})
    BY <1>7, <2>1 DEF End, TypeOK, AuthorsStay
  <2> QED
    BY <1>7, <2>1, <2>2, <2>3, QueuesPop
<1>8. ASSUME NEW p \in Processes, Execute(p) PROVE Queues'
  BY <1>7, <1>8 DEF Execute
<1>9. ASSUME NEW p \in Processes, Fail(p) PROVE Queues'
  BY <1>7, <1>9 DEF Fail
<1>10. ASSUME NEW p \in Processes, Crash(p) PROVE Queues'
  <2>1. queue' = [queue EXCEPT ![p] = <<>>] /\ home' = home
    BY <1>10 DEF Crash
  <2>2. ASSUME NEW q \in Processes, NEW k \in Places(q)'
        PROVE  q # p /\ k \in Places(q) /\ queue'[q][k] = queue[q][k] /\ QueuedAt(q, k)
    BY <2>1, <2>2 DEF TypeOK, Places, Queues
  <2>3. ASSUME NEW q \in Processes, NEW k \in Places(q)' PROVE QueuedAt(q, k)'
    <3>1. PICK y : y = queue[q][k]
      OBVIOUS
    <3>2. q # p /\ queue'[q][k] = y /\ Author(y) \in Agents /\ Home(y) = q
          /\ call[y].statement # "none" /\ ~call[y].done
      BY <2>2, <3>1 DEF QueuedAt
    <3>3. y \in Clients
      BY <2>2, <3>1 DEF TypeOK, Places
    <3>4. call'[y] = call[y] /\ (y \in Timers => timer'[y] = timer[y])
      BY <1>10, <3>2, <3>3 DEF Crash
    <3>5. Author(y)' = Author(y)
      BY <3>3, <3>4 DEF Author, Clients
    <3> QED
      BY <2>1, <3>2, <3>4, <3>5 DEF QueuedAt, Home
  <2> QED
    BY <2>2, <2>3 DEF Queues
<1>11. CASE Tick
  <2>1. \A S : AuthorsStay(S)
    BY <1>11 DEF Tick, AuthorsStay, TypeOK
  <2>2. \A x \in Waiting : call'[x].statement = call[x].statement /\ ~call'[x].done
    BY <1>11 DEF Tick, Waiting, TypeOK, Idle
  <2> QED
    BY <1>11, <2>1, <2>2, QueuesQuiet DEF Tick
<1>12. CASE UNCHANGED vars
  BY <1>12, QueuesQuiet DEF vars, AuthorsStay, Waiting
<1> QED
  BY <1>1, <1>2, <1>3, <1>4, <1>5, <1>6, <1>8, <1>9, <1>10, <1>11, <1>12
  DEF Next, AgentStep, TimerStep

LEMMA CallingIssue ==
  ASSUME TypeOK, Calling, NEW x \in Clients, Author(x) \in Agents, x \notin holds',
         NEW statement \in Statements \ {"none"}, NEW age, Issue(x, statement, age),
         x \in Agents => statement \in {"sweep", "insert", "release"},
         x \in Timers => statement \in {"renew", "release"},
         holds' \subseteq holds,
         \A i \in Timers : \/ timer'[i].author = timer[i].author /\ timer[i].author # NoAgent
                           \/ timer'[i] = timer[i]
                           \/ call[i] = Idle /\ i # x /\ timer'[i] = Off
  PROVE  Calling'
<1>1. call' = [call EXCEPT ![x] = [statement |-> statement, done |-> FALSE, age |-> age]]
  BY DEF Issue
<1>2. call \in [Clients -> CallRecord] /\ Agents \subseteq Clients /\ Timers \subseteq Clients
      /\ holds \subseteq Agents
  BY DEF TypeOK, CallRecord, Clients
<1>3. \A y \in Clients : y # x => call'[y] = call[y]
  BY <1>1, <1>2
<1>4. call'[x].statement = statement
  BY <1>1, <1>2
<1>5. ASSUME NEW i \in Timers, timer'[i].author = NoAgent
      PROVE  timer'[i] = Off /\ call'[i] = Idle
  <2>1. CASE i = x
    BY <1>2, <1>5, <2>1, Names DEF Author
  <2>2. CASE i # x
    BY <1>2, <1>3, <1>5, <2>2 DEF Calling
  <2> QED
    BY <2>1, <2>2
<1>6. \A y \in Clients : call'[y].statement = "none" => call'[y] = Idle
  BY <1>3, <1>4 DEF Calling
<1>7. \A a \in holds' : call'[a] = Idle
  BY <1>2, <1>3 DEF Calling
<1>8. \A a \in Agents : call'[a].statement \in {"none", "sweep", "insert", "release"}
  BY <1>2, <1>3, <1>4 DEF Calling
<1>9. \A i \in Timers : call'[i].statement \in {"none", "renew", "release"}
  BY <1>2, <1>3, <1>4 DEF Calling
<1> QED
  BY <1>5, <1>6, <1>7, <1>8, <1>9 DEF Calling

LEMMA CallingEnd ==
  ASSUME TypeOK, Calling, NEW x \in Clients, End(x), holds' = holds
  PROVE  Calling'
<1>1. call' = [call EXCEPT ![x] = Idle]
  BY DEF End, Return
<1>2. call \in [Clients -> CallRecord] /\ Agents \subseteq Clients /\ Timers \subseteq Clients
      /\ holds \subseteq Agents
  BY DEF TypeOK, CallRecord, Clients
<1>3. \A y \in Clients : call'[y] = IF y = x THEN Idle ELSE call[y]
  BY <1>1, <1>2
<1>4. \A i \in Timers : timer'[i] = timer[i] \/ (i = x /\ timer'[i] = Off)
  BY DEF End, TypeOK
<1>5. Idle.statement = "none"
  BY DEF Idle
<1>6. \A i \in Timers : timer'[i].author = NoAgent => timer'[i] = Off /\ call'[i] = Idle
  BY <1>2, <1>3, <1>4 DEF Calling
<1>7. \A y \in Clients : call'[y].statement = "none" => call'[y] = Idle
  BY <1>3 DEF Calling
<1>8. \A a \in Agents : call'[a].statement \in {"none", "sweep", "insert", "release"}
  BY <1>2, <1>3, <1>5 DEF Calling
<1>9. \A i \in Timers : call'[i].statement \in {"none", "renew", "release"}
  BY <1>2, <1>3, <1>5 DEF Calling
<1>10. \A a \in holds' : call'[a] = Idle
  BY <1>2, <1>3 DEF Calling
<1> QED
  BY <1>6, <1>7, <1>8, <1>9, <1>10 DEF Calling

LEMMA CallingStep == TypeOK /\ Queues /\ Calling /\ [Next]_vars => Calling'
<1> SUFFICES ASSUME TypeOK, Queues, Calling, [Next]_vars PROVE Calling'
  OBVIOUS
<1>0. /\ \A a \in Agents : a \in Clients /\ a \notin Timers /\ Author(a) = a /\ home[a] \in Processes
      /\ \A i \in Timers : i \in Clients /\ i \notin Agents /\ Author(i) = timer[i].author
      /\ holds \subseteq Agents
      /\ {"sweep", "insert", "renew", "release"} \subseteq Statements \ {"none"}
  BY HomesInProcesses, Names DEF Clients, Author, Statements, TypeOK
<1>1. ASSUME NEW a \in Agents, Acquire(a) PROVE Calling'
  BY <1>0, <1>1, CallingIssue DEF Acquire
<1>2. ASSUME NEW a \in Agents, Release(a) PROVE Calling'
  <2>1. \A i \in Timers : \/ timer'[i].author = timer[i].author /\ timer[i].author # NoAgent
                          \/ timer'[i] = timer[i]
                          \/ call[i] = Idle /\ i # a /\ timer'[i] = Off
    <3>1. DropEntry(home[a])
      BY <1>2 DEF Release
    <3> QED
      BY <1>0, <3>1, WaitingIsBusy DEF DropEntry, TypeOK
  <2> QED
    BY <1>0, <1>2, <2>1, CallingIssue DEF Release
<1>3. ASSUME NEW a \in Agents, Insert(a) PROVE Calling'
  BY <1>0, <1>3, CallingIssue DEF Insert, Handled, Calling, Idle
<1>4. ASSUME NEW a \in Agents, Granted(a) PROVE Calling'
  <2>1. PICK i \in Timers : timer' = [timer EXCEPT ![i] = [author |-> a, next |-> Period]]
    BY <1>4 DEF Granted
  <2>2. \A k \in Timers : timer'[k].author = NoAgent => timer'[k] = timer[k]
    BY <2>1, Names DEF TypeOK
  <2>3. /\ call' = [call EXCEPT ![a] = Idle] /\ holds' = holds \cup {a}
        /\ call \in [Clients -> CallRecord]
    BY <1>4 DEF Granted, Return, TypeOK, CallRecord
  <2>4. \A x \in Clients : call'[x] = IF x = a THEN Idle ELSE call[x]
    BY <1>0, <2>3
  <2> QED
    BY <1>0, <2>2, <2>3, <2>4 DEF Calling, Idle
<1>5. ASSUME NEW i \in Timers, Heartbeat(i) PROVE Calling'
  <2>1. timer[i].author \in Agents /\ timer' = [timer EXCEPT ![i].next = Period]
    BY <1>5 DEF Heartbeat, TypeOK
  <2>2. \A k \in Timers : \/ timer'[k].author = timer[k].author /\ timer[k].author # NoAgent
                          \/ timer'[k] = timer[k]
    BY <2>1, Names DEF TypeOK
  <2>3. CASE entry[Home(i)] = NoTimer
    BY <1>5, <2>1, <2>2, <2>3 DEF Heartbeat, Calling
  <2>4. CASE entry[Home(i)] # NoTimer
    BY <1>0, <1>5, <2>1, <2>2, <2>4, CallingIssue DEF Heartbeat
  <2> QED
    BY <2>3, <2>4
<1>6. ASSUME NEW i \in Timers, Lost(i) PROVE Calling'
  <2>1. timer[i].author \in Agents /\ call[i] # Idle
    BY <1>6, WaitingIsBusy DEF Lost, Handled, TypeOK, Idle
  <2>2. Home(i) \in Processes /\ DropEntry(Home(i))
    BY <1>0, <1>6, <2>1, HomesInProcesses DEF Home, Lost
  <2>3. \A k \in Timers : \/ timer'[k].author = timer[k].author /\ timer[k].author # NoAgent
                          \/ timer'[k] = timer[k]
                          \/ call[k] = Idle /\ k # i /\ timer'[k] = Off
    BY <2>1, <2>2, WaitingIsBusy DEF DropEntry, TypeOK
  <2> QED
    BY <1>0, <1>6, <2>1, <2>3, CallingIssue DEF Lost
<1>7. ASSUME NEW p \in Processes, Execute(p) PROVE Calling'
  <2>1. PICK x : x = Head(queue[p])
    OBVIOUS
  <2>2. x \in Clients /\ call[x].statement # "none"
    BY <1>7, <2>1, HeadOfQueue DEF Execute
  <2>3. CASE ~GoesOn(x)
    BY <1>7, <2>1, <2>2, <2>3, CallingEnd DEF Execute
  <2>4. CASE GoesOn(x)
    <3>1. \A y \in Clients : /\ call'[y].statement = call[y].statement
                             /\ y # x => call'[y] = call[y]
      BY ZenonT(60), <1>7, <2>1, <2>2, <2>4 DEF Execute, TypeOK
    <3>2. timer' = timer /\ holds' = holds
      BY <1>7, <2>1, <2>4 DEF Execute
    <3>3. call[x] # Idle
      BY <2>2 DEF Idle
    <3> QED
      BY <1>0, <2>2, <3>1, <3>2, <3>3 DEF Calling
  <2> QED
    BY <2>3, <2>4
<1>8. ASSUME NEW p \in Processes, Fail(p) PROVE Calling'
  BY <1>8, HeadOfQueue, CallingEnd DEF Fail
<1>9. ASSUME NEW p \in Processes, Crash(p) PROVE Calling'
  <2>1. /\ \A x \in Clients : call'[x] = Idle \/ call'[x] = call[x]
        /\ \A i \in Timers : (timer'[i] = Off /\ call'[i] = Idle)
                             \/ (timer'[i] = timer[i] /\ call'[i] = call[i])
        /\ holds' \subseteq holds
    BY <1>0, <1>9 DEF Crash
  <2> QED
    BY <1>0, <2>1 DEF Calling, Idle
<1>10. CASE Tick
  <2>1. /\ \A x \in Clients : /\ call'[x].statement = call[x].statement
                              /\ call[x] = Idle => call'[x] = Idle
        /\ \A i \in Timers : timer'[i].author = timer[i].author
        /\ \A i \in Timers : timer[i] = Off => timer'[i] = Off
        /\ holds' = holds
    BY <1>10 DEF Tick, TypeOK, Idle, Off
  <2> QED
    BY <1>0, <2>1 DEF Calling
<1>11. CASE UNCHANGED vars
  BY <1>11 DEF vars, Calling
<1> QED
  BY <1>1, <1>2, <1>3, <1>4, <1>5, <1>6, <1>7, <1>8, <1>9, <1>10, <1>11
  DEF Next, AgentStep, TimerStep

LEMMA QueuesInit == Init => Queues /\ Calling
<1> SUFFICES ASSUME Init PROVE Queues /\ Calling
  OBVIOUS
<1>1. \A p \in Processes : Places(p) = {}
  BY DEF Init, Places
<1>2. \A x \in Agents \cup Timers : call[x] = Idle
  BY DEF Init, Clients
<1> QED
  BY <1>1, <1>2 DEF Init, Queues, Calling, Idle, Clients

\* For every number of processes, agents and intervals, and all delays: the variables of
\* the lock manager keep their types, faults or not.
THEOREM LockerIsTyped == Spec => []TypeOK
<1>1. Init => TypeOK /\ Queues /\ Calling
  BY TypesInit, QueuesInit
<1>2. TypeOK /\ Queues /\ Calling /\ [Next]_vars => (TypeOK /\ Queues /\ Calling)'
  BY TypesStep, QueuesStep, CallingStep
<1> QED
  BY <1>1, <1>2, PTL DEF Spec

-----------------------------------------------------------------------------
(* The lease *)

\* Somebody relies on the row.
Needed ==
  \/ holds # {}
  \/ \E i \in Timers : call[i] # Idle
  \/ \E a \in Agents : Handled(a, "insert")

\* The row somebody relies on has not expired: no sweep and no insert changes it.
LEMMA NeededIsAlive ==
  ASSUME TypeOK, Calling, Lease, Needed
  PROVE  claim.author \in Agents /\ claim.left >= 0
<1>1. /\ claim.left \in Int
      /\ \A i \in Timers : timer[i].author \in Agents \cup {NoAgent} /\ timer[i].next \in Int
      /\ \A x \in Agents \cup Timers : call[x].age \in Int /\ 0 <= call[x].age
                                       /\ call[x].age <= MaxDelay
  BY Bounds DEF TypeOK, Clients
<1>2. ASSUME NEW i \in Timers, call[i] # Idle PROVE claim.author \in Agents /\ claim.left >= 0
  <2>1. Renewing(i)
    BY <1>2 DEF Lease
  <2>2. timer[i].author \in Agents
    BY <1>1, <1>2 DEF Calling
  <2> QED
    BY <1>1, <2>1, <2>2, Bounds DEF Renewing
<1>3. ASSUME NEW a \in holds PROVE claim.author \in Agents /\ claim.left >= 0
  <2>1. a \in Agents /\ Leased(a)
    BY DEF TypeOK, Lease
  <2>2. PICK i \in Timers : i = entry[home[a]]
    BY <2>1 DEF Leased
  <2>3. CASE call[i] = Idle
    BY <1>1, <2>1, <2>2, <2>3, Bounds DEF Leased
  <2>4. CASE call[i] # Idle
    BY <1>2, <2>4
  <2> QED
    BY <2>3, <2>4
<1>4. ASSUME NEW a \in Agents, Handled(a, "insert") PROVE claim.author \in Agents /\ claim.left >= 0
  <2>1. claim = [author |-> a, left |-> TTL - call[a].age]
    BY <1>4 DEF Lease, Fresh
  <2> QED
    BY <1>1, <2>1, Bounds
<1> QED
  BY <1>2, <1>3, <1>4 DEF Needed

LEMMA OneHolder ==
  ASSUME Lease, NEW a \in holds, NEW b \in holds
  PROVE  a = b
  BY DEF Lease, Leased

\* A heartbeat under way belongs to a holder, or to somebody whose release waits.
LEMMA RenewingAuthor ==
  ASSUME TypeOK, Queues, Calling, Lease, NEW i \in Timers, call[i] # Idle
  PROVE  /\ timer[i].author \in Agents /\ claim.author = timer[i].author
         /\ \/ timer[i].author \in holds
            \/ call[timer[i].author].statement = "release"
<1>1. Renewing(i)
  BY DEF Lease
<1> QED
  BY <1>1 DEF Renewing, BeforeRelease, Calling, TypeOK

\* What shows BeforeRelease after a step.
LEMMA StaysBefore ==
  ASSUME NEW i \in Timers, NEW a, NEW p, timer'[i].author = a, home'[a] = p,
         NEW k \in Places(p)', queue'[p][k] = i,
         \/ a \in holds'
         \/ \E l \in Places(p)' : k < l /\ queue'[p][l] = a /\ call'[a].statement = "release"
  PROVE  BeforeRelease(i)'
  BY DEF BeforeRelease, Places

LEMMA BeforeReleaseIssue ==
  ASSUME TypeOK, Queues, Calling, NEW i \in Timers, BeforeRelease(i), call[i] # Idle,
         NEW x \in Clients, Author(x) \in Agents, x \notin Waiting,
         NEW statement, NEW age, Issue(x, statement, age), home' = home,
         timer'[i].author = timer[i].author,
         \A a \in holds \ holds' : x = a /\ statement = "release"
  PROVE  BeforeRelease(i)'
<1>1. PICK a, p : a = timer[i].author /\ p = home[a]
  OBVIOUS
<1>2. a \in Agents /\ p \in Processes /\ a \in Clients
  BY <1>1, WaitingIsBusy, HomesInProcesses DEF TypeOK, Clients
<1>3. PICK k \in Places(p) :
        /\ queue[p][k] = i
        /\ \/ a \in holds
           \/ \E l \in Places(p) : k < l /\ queue[p][l] = a /\ call[a].statement = "release"
  BY <1>1 DEF BeforeRelease
<1>4. PICK q \in Processes : q = Home(x)
  BY HomesInProcesses DEF Home
<1>5. /\ queue' = [queue EXCEPT ![q] = Append(@, x)]
      /\ call' = [call EXCEPT ![x] = [statement |-> statement, done |-> FALSE, age |-> age]]
  BY <1>4 DEF Issue
<1>6. queue[p] \in Seq(Clients) /\ queue[q] \in Seq(Clients)
  BY <1>2 DEF TypeOK
<1>7. /\ Places(p) \subseteq Places(p)'
      /\ \A l \in Places(p) : queue'[p][l] = queue[p][l]
      /\ p = q => Len(queue[p]) + 1 \in Places(p)' /\ queue'[p][Len(queue[p]) + 1] = x
  BY SMTT(30), <1>2, <1>5, <1>6 DEF Places, TypeOK
<1>8. CASE a \in holds'
  BY <1>1, <1>3, <1>7, <1>8 DEF BeforeRelease
<1>9. CASE a \in holds \ holds'
  <2>1. x = a /\ statement = "release" /\ q = p
    BY <1>1, <1>2, <1>4, <1>9 DEF Home, Author
  <2>2. call'[a].statement = "release"
    BY <1>2, <1>5, <2>1 DEF TypeOK
  <2>3. k < Len(queue[p]) + 1
    BY <1>6 DEF Places
  <2> QED
    BY <1>1, <1>3, <1>7, <2>1, <2>2, <2>3 DEF BeforeRelease
<1>10. CASE a \notin holds
  <2>1. PICK l \in Places(p) : k < l /\ queue[p][l] = a /\ call[a].statement = "release"
    BY <1>3, <1>10
  <2>2. a \in Waiting
    BY <1>2, <2>1 DEF Queues, QueuedAt, Waiting
  <2>3. call'[a].statement = "release"
    BY <1>2, <1>5, <2>1, <2>2 DEF TypeOK
  <2> QED
    BY <1>1, <1>3, <1>7, <2>1, <2>3 DEF BeforeRelease
<1> QED
  BY <1>8, <1>9, <1>10

LEMMA BeforeReleasePop ==
  ASSUME TypeOK, Queues, Calling, NEW i \in Timers, BeforeRelease(i), call[i] # Idle,
         NEW p \in Processes, queue[p] # <<>>, i # Head(queue[p]),
         queue' = [queue EXCEPT ![p] = Tail(@)], home' = home, holds' = holds,
         \A y \in Clients : y # Head(queue[p]) => call'[y] = call[y],
         timer'[i].author = timer[i].author
  PROVE  BeforeRelease(i)'
<1>1. PICK a, q : a = timer[i].author /\ q = home[a]
  OBVIOUS
<1>2. a \in Agents /\ q \in Processes /\ a \in Clients
  BY <1>1, WaitingIsBusy, HomesInProcesses DEF TypeOK, Clients
<1>3. PICK k \in Places(q) :
        /\ queue[q][k] = i
        /\ \/ a \in holds
           \/ \E l \in Places(q) : k < l /\ queue[q][l] = a /\ call[a].statement = "release"
  BY <1>1 DEF BeforeRelease
<1>4. CASE q # p
  <2>1. queue'[q] = queue[q] /\ Places(q)' = Places(q)
    BY <1>2, <1>4 DEF TypeOK, Places
  <2>2. ASSUME NEW l \in Places(q), queue[q][l] = a PROVE call'[a] = call[a]
    <3>1. a # Head(queue[p])
      BY <1>2, <1>4, <2>2, HeadOfQueue DEF Queues, QueuedAt
    <3> QED
      BY <1>2, <3>1
  <2>3. k \in Places(q)' /\ queue'[q][k] = i
    BY <1>3, <2>1
  <2>4. \/ a \in holds'
        \/ \E l \in Places(q)' : k < l /\ queue'[q][l] = a /\ call'[a].statement = "release"
    BY <1>3, <2>1, <2>2
  <2> QED
    BY <1>1, <2>3, <2>4, StaysBefore
<1>5. CASE q = p
  <2>1. queue[p] \in Seq(Clients) /\ Len(queue[p]) \in Nat /\ queue[p][1] = Head(queue[p])
    BY DEF TypeOK
  <2>2. Len(Tail(queue[p])) = Len(queue[p]) - 1
    BY <2>1
  <2>3. queue'[p] = Tail(queue[p])
    BY DEF TypeOK
  <2>4. ASSUME NEW l \in Places(p), l # 1
        PROVE  l - 1 \in Places(p)' /\ queue'[p][l - 1] = queue[p][l]
    <3>1. l - 1 \in 1 .. Len(Tail(queue[p]))
      BY <2>1, <2>2, <2>4 DEF Places
    <3>2. Tail(queue[p])[l - 1] = queue[p][l]
      <4>1. PICK m \in 1 .. Len(Tail(queue[p])) : m = l - 1
        BY <3>1
      <4>2. Tail(queue[p])[m] = queue[p][m + 1]
        BY <2>1
      <4>3. m + 1 = l
        BY <2>1, <4>1 DEF Places
      <4> QED
        BY <4>1, <4>2, <4>3
    <3> QED
      BY <2>3, <3>1, <3>2 DEF Places
  <2>5. k \in Int /\ k # 1 /\ k >= 1
    BY <1>3, <1>5, <2>1 DEF Places
  <2>6. CASE a \in holds
    <3>1. k - 1 \in Places(p)' /\ queue'[p][k - 1] = i
      BY <1>3, <1>5, <2>4, <2>5
    <3> QED
      BY <1>1, <1>5, <2>6, <3>1, StaysBefore
  <2>7. CASE a \notin holds
    <3>1. PICK l \in Places(p) : k < l /\ queue[p][l] = a /\ call[a].statement = "release"
      BY <1>3, <1>5, <2>7
    <3>2. l \in Int /\ l # 1 /\ k - 1 < l - 1
      BY <2>5, <3>1 DEF Places
    <3>3. 1 \in Places(p)
      BY <2>1 DEF Places
    <3>4. a # Head(queue[p])
      BY <2>1, <3>1, <3>2, <3>3 DEF Queues
    <3>5. call'[a].statement = "release"
      BY <1>2, <3>1, <3>4
    <3>6. /\ k - 1 \in Places(p)' /\ queue'[p][k - 1] = i
          /\ l - 1 \in Places(p)' /\ queue'[p][l - 1] = a
      BY <1>3, <1>5, <2>4, <2>5, <3>1, <3>2
    <3> QED
      BY <1>1, <1>5, <3>2, <3>5, <3>6, StaysBefore
  <2> QED
    BY <2>6, <2>7
<1> QED
  BY <1>4, <1>5

LEMMA Numbers ==
  ASSUME TypeOK
  PROVE  /\ claim.left \in Int
         /\ \A i \in Timers : /\ timer[i].author \in Agents \cup {NoAgent}
                              /\ timer[i].next \in Int /\ timer[i].next <= Period
         /\ \A x \in Clients : call[x].age \in Int /\ 0 <= call[x].age /\ call[x].age <= MaxDelay
         /\ \A i \in Timers : i \in Clients /\ i \notin Agents /\ Author(i) = timer[i].author
         /\ \A a \in Agents : /\ a \in Clients /\ a \notin Timers /\ Author(a) = a
                              /\ a # NoAgent /\ home[a] \in Processes
         /\ holds \subseteq Agents
  BY Bounds, Names, HomesInProcesses DEF TypeOK, Clients, Author

\* An agent that holds nothing sends a statement.
LEMMA LeaseIssue ==
  ASSUME TypeOK, Queues, Calling, Lease, NEW a \in Agents, a \notin holds, a \notin Waiting,
         NEW statement, NEW age, Issue(a, statement, age),
         UNCHANGED <<home, claim, entry, timer, holds>>
  PROVE  Lease'
<1>1. /\ call'[a].done = FALSE
      /\ \A x \in Clients : x # a => call'[x] = call[x]
  BY DEF Issue, TypeOK, Clients
<1>2. ASSUME NEW b \in Agents, Handled(b, "insert")' PROVE Fresh(b)'
  BY <1>1, <1>2, Numbers DEF Handled, Lease, Fresh
<1>3. ASSUME NEW i \in Timers, call'[i] # Idle PROVE Renewing(i)'
  <2>1. call'[i] = call[i]
    BY <1>1, Numbers
  <2>2. Renewing(i)
    BY <1>3, <2>1 DEF Lease
  <2>3. BeforeRelease(i)'
    BY <1>3, <2>1, <2>2, Numbers, BeforeReleaseIssue DEF Renewing
  <2> QED
    BY <2>1, <2>2, <2>3 DEF Renewing
<1>4. ASSUME NEW b \in holds' PROVE Leased(b)'
  <2>1. Leased(b) /\ \A i \in Timers : call'[i] = call[i]
    BY <1>1, Numbers DEF Lease
  <2> QED
    BY <2>1 DEF Leased, Beats
<1>5. \A i \in Timers : Beats(i)' => timer'[i].author \in holds'
  BY DEF Lease, Beats
<1> QED
  BY <1>2, <1>3, <1>4, <1>5 DEF Lease

LEMMA LeaseRelease ==
  ASSUME TypeOK, Queues, Calling, Lease, NEW a \in Agents, Release(a)
  PROVE  Lease'
<1>1. /\ holds = {a} /\ holds' = {}
      /\ call[a] = Idle /\ a \notin Waiting /\ claim' = claim /\ home' = home
      /\ DropEntry(home[a]) /\ Issue(a, "release", 0)
  BY OneHolder DEF Release, Waiting, Idle
<1>2. /\ call'[a].done = FALSE
      /\ \A x \in Clients : x # a => call'[x] = call[x]
  BY <1>1 DEF Issue, TypeOK, Clients
<1>3. PICK j \in Timers : j = entry[home[a]]
  BY <1>1 DEF Lease, Leased
<1>4. \A k \in Timers : k # j => timer'[k] = timer[k]
  BY <1>1, <1>3 DEF DropEntry, TypeOK
<1>5. timer'[j] = Off \/ timer'[j].next = -1
  BY <1>1, <1>3, Names DEF DropEntry, TypeOK
<1>6. ASSUME NEW b \in Agents, Handled(b, "insert")' PROVE Fresh(b)'
  BY <1>1, <1>2, <1>6, Numbers DEF Handled, Lease, Fresh
<1>7. ASSUME NEW i \in Timers, call'[i] # Idle PROVE Renewing(i)'
  <2>1. call'[i] = call[i]
    BY <1>2, Numbers
  <2>2. Renewing(i)
    BY <1>7, <2>1 DEF Lease
  <2>3. timer'[i].author = timer[i].author
    BY <1>1, <1>7, <2>1, Numbers, DropKeepsAuthors
  <2>4. BeforeRelease(i)'
    BY <1>1, <1>7, <2>1, <2>2, <2>3, Numbers, BeforeReleaseIssue DEF Renewing
  <2> QED
    BY <1>1, <2>1, <2>2, <2>3, <2>4 DEF Renewing
<1>8. ASSUME NEW i \in Timers, Beats(i)' PROVE FALSE
  <2>1. CASE i = j
    BY <1>5, <1>8, <2>1 DEF Beats, Off
  <2>2. CASE i # j
    <3>1. Beats(i) /\ timer[i].author = a
      BY <1>1, <1>4, <1>8, <2>2 DEF Beats, Lease
    <3> QED
      BY <1>1, <1>3, <2>2, <3>1 DEF Lease, Leased
  <2> QED
    BY <2>1, <2>2
<1> QED
  BY <1>1, <1>6, <1>7, <1>8 DEF Lease

LEMMA LeaseGranted ==
  ASSUME TypeOK, Queues, Calling, Lease, NEW a \in Agents, Granted(a)
  PROVE  Lease'
<1>1. PICK i \in Timers : /\ timer[i] = Off
                          /\ timer' = [timer EXCEPT ![i] = [author |-> a, next |-> Period]]
                          /\ entry' = [entry EXCEPT ![home[a]] = i]
  BY DEF Granted
<1>2. /\ Handled(a, "insert") /\ holds' = holds \cup {a} /\ claim' = claim /\ home' = home
      /\ call' = [call EXCEPT ![a] = Idle]
  BY DEF Granted, Return
<1>3. claim.author = a /\ claim.left = TTL - call[a].age
  BY <1>2 DEF Lease, Fresh
<1>4. call[a].statement # "release" /\ call[a] # Idle
  BY <1>2 DEF Handled, Idle
<1>5. holds = {}
  BY <1>3, <1>4 DEF Lease, Leased, Calling
<1>6. \A k \in Timers : call[k] = Idle
  BY <1>3, <1>4, <1>5, RenewingAuthor
<1>7. \A x \in Clients : call'[x] = IF x = a THEN Idle ELSE call[x]
  BY <1>2 DEF TypeOK
<1>8. /\ timer'[i] = [author |-> a, next |-> Period]
      /\ \A k \in Timers : k # i => timer'[k] = timer[k]
      /\ entry'[home[a]] = i
  BY <1>1, Numbers DEF TypeOK
<1>9. ASSUME NEW b \in Agents, Handled(b, "insert")' PROVE Fresh(b)'
  <2>1. b # a
    BY <1>7, <1>9, Numbers DEF Handled, Idle
  <2> QED
    BY <1>2, <1>7, <1>9, <2>1, Numbers DEF Handled, Lease, Fresh
<1>10. \A k \in Timers : call'[k] = Idle
  BY <1>6, <1>7, Numbers
<1>11. ASSUME NEW k \in Timers, Beats(k)' PROVE k = i
  BY <1>5, <1>8, <1>11 DEF Beats, Lease
<1>12. Leased(a)'
  <2>1. claim.left >= Period + Period - MaxDelay
    BY <1>3, Numbers, Bounds
  <2>2. claim'.author = a /\ claim'.left >= timer'[i].next + Period - MaxDelay
    BY <1>2, <1>3, <1>8, <2>1
  <2>3. timer'[i].author = a /\ timer'[i].next >= 0
    BY <1>8, Bounds
  <2> QED
    BY <1>2, <1>8, <1>10, <1>11, <2>2, <2>3 DEF Leased
<1>13. ASSUME NEW k \in Timers, Beats(k)' PROVE timer'[k].author \in holds'
  BY <1>2, <1>8, <1>11, <1>13
<1>14. ASSUME NEW b \in holds' PROVE Leased(b)'
  BY <1>2, <1>5, <1>12, <1>14
<1> QED
  BY <1>9, <1>10, <1>13, <1>14 DEF Lease

LEMMA LeaseHeartbeat ==
  ASSUME TypeOK, Queues, Calling, Lease, NEW i \in Timers, Heartbeat(i)
  PROVE  Lease'
<1>1. PICK a : a = timer[i].author
  OBVIOUS
<1>2. a \in Agents /\ a \in holds /\ a \in Clients /\ i \notin Waiting
  BY <1>1, Numbers DEF Heartbeat, Beats, Lease, Waiting, Idle
<1>3. /\ claim.author = a /\ entry[home[a]] = i /\ claim.left >= Period - MaxDelay
  <2>1. Leased(a)
    BY <1>2 DEF Lease
  <2>2. Beats(i) /\ timer[i].next = 0 /\ call[i] = Idle
    BY <1>1 DEF Heartbeat, Beats
  <2>3. entry[home[a]] = i
    BY <1>1, <2>1, <2>2 DEF Leased
  <2>4. claim.left >= timer[i].next + Period - MaxDelay
    BY <2>1, <2>2, <2>3 DEF Leased
  <2> QED
    BY <2>1, <2>2, <2>3, <2>4, Bounds DEF Leased
<1>4. Home(i) = home[a] /\ home[a] \in Processes
  BY <1>1, <1>2, Numbers DEF Home
<1>5. Issue(i, "renew", 0)
  BY <1>3, <1>4, Names DEF Heartbeat
<1>6. /\ claim' = claim /\ home' = home /\ entry' = entry /\ holds' = holds
      /\ timer' = [timer EXCEPT ![i].next = Period]
  BY DEF Heartbeat
<1>7. /\ call'[i] = [statement |-> "renew", done |-> FALSE, age |-> 0]
      /\ \A x \in Clients : x # i => call'[x] = call[x]
  BY <1>5, Numbers DEF Issue, TypeOK
<1>8. /\ \A k \in Timers : timer'[k].author = timer[k].author
      /\ \A k \in Timers : k # i => timer'[k] = timer[k]
      /\ timer'[i].next = Period
  BY <1>6 DEF TypeOK
<1>9. ASSUME NEW b \in Agents, Handled(b, "insert")' PROVE Fresh(b)'
  BY <1>6, <1>7, <1>9, Numbers DEF Handled, Lease, Fresh
<1>10. Renewing(i)'
  <2>1. queue[home[a]] \in Seq(Clients) /\ queue'[home[a]] = Append(queue[home[a]], i)
    BY <1>4, <1>5 DEF Issue, TypeOK
  <2>2. PICK k : k = Len(queue[home[a]]) + 1
    OBVIOUS
  <2>3. k \in Places(home[a])' /\ queue'[home[a]][k] = i
    BY <1>6, <2>1, <2>2, Numbers DEF Places
  <2>4. PICK p : p = home[a]
    OBVIOUS
  <2>5. k \in Places(p)' /\ queue'[p][k] = i /\ home'[a] = p
    BY <1>6, <2>3, <2>4 DEF Places
  <2>6. BeforeRelease(i)'
    BY <1>1, <1>2, <1>6, <1>8, <2>5, StaysBefore
  <2>7. claim'.left >= Period - MaxDelay - call'[i].age
    BY <1>3, <1>6, <1>7, Numbers, Bounds
  <2> QED
    BY <1>1, <1>3, <1>6, <1>7, <1>8, <2>6, <2>7 DEF Renewing
<1>11. ASSUME NEW k \in Timers, k # i, call'[k] # Idle PROVE Renewing(k)'
  <2>1. call'[k] = call[k]
    BY <1>7, <1>11, Numbers
  <2>2. Renewing(k)
    BY <1>11, <2>1 DEF Lease
  <2>3. BeforeRelease(k)'
    BY <1>1, <1>2, <1>5, <1>6, <1>8, <1>11, <2>1, <2>2, Numbers, BeforeReleaseIssue DEF Renewing
  <2> QED
    BY <1>6, <1>8, <2>1, <2>2, <2>3 DEF Renewing
<1>12. \A k \in Timers : Beats(k)' => Beats(k)
  BY <1>8, Bounds DEF Beats, Heartbeat
<1>13. ASSUME NEW b \in holds' PROVE Leased(b)'
  <2>1. b = a
    BY <1>2, <1>6, OneHolder
  <2>2. \A k \in Timers : Beats(k)' /\ timer'[k].author = a => k = i
    BY <1>2, <1>3, <1>8, <1>12 DEF Lease, Leased
  <2>3. timer'[i].next = Period - call'[i].age /\ call'[i] # Idle /\ timer'[i].next >= 0
    BY <1>7, <1>8, Bounds DEF Idle
  <2>4. claim'.author = a /\ entry'[home'[a]] = i /\ timer'[i].author = a
    BY <1>1, <1>3, <1>6, <1>8
  <2> QED
    BY <2>1, <2>2, <2>3, <2>4 DEF Leased
<1>14. ASSUME NEW k \in Timers, Beats(k)' PROVE timer'[k].author \in holds'
  BY <1>6, <1>8, <1>12, <1>14 DEF Lease
<1> QED
  BY <1>9, <1>10, <1>11, <1>13, <1>14 DEF Lease

\* The statement of an agent leaves its queue; if it changes the row, nobody needs it.
LEMMA LeasePopAgent ==
  ASSUME TypeOK, Queues, Calling, Lease, NEW p \in Processes, queue[p] # <<>>,
         NEW x \in Agents, x = Head(queue[p]),
         queue' = [queue EXCEPT ![p] = Tail(@)], UNCHANGED <<home, entry, timer, holds>>,
         \A y \in Clients : y # x => call'[y] = call[y],
         claim' = claim \/ ~Needed,
         Handled(x, "insert")' => Fresh(x)'
  PROVE  Lease'
<1>1. \A i \in Timers : call'[i] = call[i]
  BY Numbers
<1>2. ASSUME NEW b \in Agents, Handled(b, "insert")' PROVE Fresh(b)'
  <2>1. CASE b = x
    BY <1>2, <2>1
  <2>2. CASE b # x
    <3>1. call'[b] = call[b] /\ Handled(b, "insert")
      BY <1>2, <2>2, Numbers DEF Handled
    <3>2. claim' = claim
      BY <3>1 DEF Needed
    <3> QED
      BY <3>1, <3>2 DEF Lease, Fresh
  <2> QED
    BY <2>1, <2>2
<1>3. ASSUME NEW i \in Timers, call'[i] # Idle PROVE Renewing(i)'
  <2>1. call'[i] = call[i] /\ claim' = claim /\ Renewing(i)
    BY <1>1, <1>3 DEF Needed, Lease
  <2>2. i # x
    BY Numbers
  <2>3. BeforeRelease(i)'
    BY <1>3, <2>1, <2>2, BeforeReleasePop DEF Renewing
  <2> QED
    BY <2>1, <2>3 DEF Renewing
<1>4. ASSUME NEW b \in holds' PROVE Leased(b)'
  <2>1. claim' = claim /\ Leased(b)
    BY <1>4 DEF Needed, Lease
  <2> QED
    BY <1>1, <2>1 DEF Leased, Beats
<1>5. \A i \in Timers : Beats(i)' => timer'[i].author \in holds'
  BY DEF Lease, Beats
<1> QED
  BY <1>2, <1>3, <1>4, <1>5 DEF Lease

\* A release that is due finds its lease given up, and no heartbeat before it.
LEMMA ReleasedIsNotNeeded ==
  ASSUME TypeOK, Queues, Calling, Lease, NEW p \in Processes, queue[p] # <<>>,
         NEW x \in Agents, x = Head(queue[p]),
         call[x].statement = "release", claim.author = x
  PROVE  ~Needed
<1>1. call[x] # Idle /\ x \notin holds
  BY DEF Idle, Calling
<1>2. holds = {}
  BY <1>1 DEF Lease, Leased
<1>3. ASSUME NEW i \in Timers, call[i] # Idle PROVE FALSE
  <2>1. Renewing(i) /\ timer[i].author = x
    BY <1>3 DEF Lease, Renewing
  <2>2. home[x] = p
    BY HeadOfQueue, Numbers DEF Home
  <2>3. PICK k \in Places(p), l \in Places(p) : k < l /\ queue[p][l] = x
    BY <1>2, <2>1, <2>2 DEF Renewing, BeforeRelease
  <2>4. queue[p] \in Seq(Clients)
    BY DEF TypeOK
  <2>5. queue[p][1] = x /\ 1 \in Places(p)
    BY <2>4 DEF Places
  <2>6. l = 1
    BY <2>3, <2>5 DEF Queues
  <2> QED
    BY <2>3, <2>4, <2>6 DEF Places
<1>4. ASSUME NEW b \in Agents, Handled(b, "insert") PROVE FALSE
  BY <1>4 DEF Lease, Fresh, Handled
<1> QED
  BY <1>2, <1>3, <1>4 DEF Needed

LEMMA LeaseExecuteAgent ==
  ASSUME TypeOK, Queues, Calling, Lease, NEW p \in Processes, Execute(p),
         NEW x \in Agents, x = Head(queue[p])
  PROVE  Lease'
<1>1. /\ queue[p] # <<>> /\ claim' = Effect(x) /\ queue' = [queue EXCEPT ![p] = Tail(@)]
      /\ UNCHANGED <<home, entry, holds>>
  BY DEF Execute
<1>2. x \in Clients /\ Author(x) = x /\ x \notin Timers
  BY Numbers
<1>3. call[x].statement \in {"sweep", "insert", "release"} /\ ~call[x].done
  BY <1>1, HeadOfQueue DEF Calling
<1>4. /\ timer' = timer
      /\ \A y \in Clients : y # x => call'[y] = call[y]
      /\ IF GoesOn(x) THEN call' = [call EXCEPT ![x].done = TRUE] ELSE call' = [call EXCEPT ![x] = Idle]
  BY <1>2 DEF Execute, End, Return, TypeOK
<1>5. claim' = claim \/ ~Needed
  <2>1. CASE call[x].statement = "sweep"
    <3>1. claim' = IF claim.left < -call[x].age THEN NoClaim ELSE claim
      BY <1>1, <2>1 DEF Effect
    <3> QED
      BY <1>2, <3>1, NeededIsAlive, Numbers
  <2>2. CASE call[x].statement = "insert"
    <3>1. claim' = IF claim = NoClaim THEN Renewal(x) ELSE claim
      BY <1>1, <2>2 DEF Effect
    <3> QED
      BY <3>1, NeededIsAlive, Names DEF NoClaim
  <2>3. CASE call[x].statement = "release"
    <3>1. claim' = IF claim.author = x THEN NoClaim ELSE claim
      BY <1>1, <1>2, <2>3 DEF Effect
    <3> QED
      BY <1>1, <2>3, <3>1, ReleasedIsNotNeeded
  <2> QED
    BY <1>3, <2>1, <2>2, <2>3
<1>6. ASSUME Handled(x, "insert")' PROVE Fresh(x)'
  <2>1. GoesOn(x)
    BY <1>2, <1>4, <1>6 DEF Handled, Idle, TypeOK
  <2>2. call'[x].statement = call[x].statement /\ call'[x].age = call[x].age
    BY <1>2, <1>4, <2>1 DEF TypeOK
  <2>3. call[x].statement = "insert" /\ claim = NoClaim
    BY <1>6, <2>1, <2>2 DEF Handled, GoesOn
  <2>4. claim' = [author |-> x, left |-> TTL - call[x].age]
    BY <1>1, <1>2, <2>3 DEF Effect, Renewal
  <2> QED
    BY <2>2, <2>4 DEF Fresh
<1> QED
  BY <1>1, <1>4, <1>5, <1>6, LeasePopAgent

\* A heartbeat reaches the database: it renews the row.
LEMMA LeaseExecuteTimer ==
  ASSUME TypeOK, Queues, Calling, Lease, NEW p \in Processes, Execute(p),
         NEW x \in Timers, x = Head(queue[p])
  PROVE  Lease'
<1>1. /\ queue[p] # <<>> /\ claim' = Effect(x) /\ queue' = [queue EXCEPT ![p] = Tail(@)]
      /\ home' = home /\ entry' = entry /\ holds' = holds
  BY DEF Execute
<1>2. call[x] # Idle /\ Renewing(x) /\ Author(x) = timer[x].author /\ x \in Clients
  BY <1>1, HeadOfQueue, Numbers DEF Idle, Lease
<1>3. claim' = [author |-> claim.author, left |-> TTL - call[x].age]
  BY <1>1, <1>2 DEF Renewing, Effect, Renewal
<1>4. ~GoesOn(x)
  BY <1>2 DEF GoesOn, Renewing
<1>5. End(x)
  BY <1>4 DEF Execute
<1>6. /\ \A y \in Clients : call'[y] = IF y = x THEN Idle ELSE call[y]
      /\ \A i \in Timers : \/ timer'[i] = timer[i]
                           \/ i = x /\ timer[x].next = -1 /\ timer'[x] = Off
  BY <1>5 DEF End, Return, TypeOK
<1>7. claim'.author = claim.author /\ claim'.left >= TTL - MaxDelay
  BY <1>2, <1>3, Numbers, Bounds
<1>8. ASSUME NEW b \in Agents, Handled(b, "insert")' PROVE FALSE
  <2>1. Handled(b, "insert") /\ call[b] # Idle
    BY <1>6, <1>8, Numbers DEF Handled, Idle
  <2>2. claim.author = b /\ call[b].statement # "release" /\ b \notin holds
    BY <2>1 DEF Lease, Fresh, Handled, Calling
  <2> QED
    BY <1>2, <2>2, RenewingAuthor
<1>9. ASSUME NEW i \in Timers, call'[i] # Idle PROVE Renewing(i)'
  <2>1. i # x /\ call'[i] = call[i] /\ timer'[i] = timer[i] /\ call[i] # Idle
    BY <1>6, <1>9, Numbers
  <2>2. Renewing(i)
    BY <2>1 DEF Lease
  <2>3. \A y \in Clients : y # Head(queue[p]) => call'[y] = call[y]
    BY <1>6
  <2>4. BeforeRelease(i)'
    BY <1>1, <2>1, <2>2, <2>3, BeforeReleasePop DEF Renewing
  <2>5. claim'.left >= Period - MaxDelay - call[i].age
    BY <1>7, Numbers, Bounds, <1>3
  <2> QED
    BY <1>7, <2>1, <2>2, <2>4, <2>5 DEF Renewing
<1>10. \A i \in Timers : Beats(i)' => timer'[i] = timer[i] /\ Beats(i)
  BY <1>6 DEF Beats, Off
<1>11. ASSUME NEW b \in holds' PROVE Leased(b)'
  <2>1. Leased(b)
    BY <1>1, <1>11 DEF Lease
  <2>2. PICK j \in Timers : j = entry[home[b]]
    BY <2>1 DEF Leased
  <2>3. timer'[j] = timer[j] /\ timer[j].author = b /\ timer[j].next >= 0
    BY <1>6, <2>1, <2>2 DEF Leased
  <2>4. \A k \in Timers : Beats(k)' /\ timer'[k].author = b => k = j
    BY <1>10, <2>1, <2>2 DEF Leased
  <2>5. IF call'[j] = Idle THEN claim'.left >= timer[j].next + Period - MaxDelay
                           ELSE timer[j].next = Period - call'[j].age
    <3>1. CASE j = x
      <4>1. timer[j].next = Period - call[j].age
        BY <1>2, <2>1, <2>2, <3>1 DEF Leased
      <4>2. claim'.left = TTL - call[j].age
        BY <1>3, <3>1
      <4> QED
        BY <1>2, <1>6, <3>1, <4>1, <4>2, Numbers, Bounds
    <3>2. CASE j # x
      <4>1. call'[j] = call[j]
        BY <1>6, <3>2, Numbers
      <4>2. claim'.left >= timer[j].next + Period - MaxDelay
        BY <1>3, <1>2, <1>7, Numbers, Bounds
      <4> QED
        BY <2>1, <2>2, <4>1, <4>2 DEF Leased
    <3> QED
      BY <3>1, <3>2
  <2>6. claim'.author = b /\ entry'[home'[b]] = j
    BY <1>1, <1>7, <2>1, <2>2 DEF Leased
  <2> QED
    BY <2>3, <2>4, <2>5, <2>6 DEF Leased
<1>12. ASSUME NEW i \in Timers, Beats(i)' PROVE timer'[i].author \in holds'
  BY <1>1, <1>10, <1>12 DEF Lease
<1> QED
  BY <1>8, <1>9, <1>11, <1>12 DEF Lease

LEMMA LeaseFail ==
  ASSUME TypeOK, Queues, Calling, Lease, NEW p \in Processes, Fail(p), ~missed'
  PROVE  Lease'
<1>1. PICK x : x = Head(queue[p])
  OBVIOUS
<1>2. /\ queue[p] # <<>> /\ queue' = [queue EXCEPT ![p] = Tail(@)] /\ End(x)
      /\ UNCHANGED <<home, claim, entry, holds>>
      /\ call[x].statement # "renew"
  BY <1>1 DEF Fail
<1>3. x \in Clients /\ call[x] # Idle
  BY <1>1, <1>2, HeadOfQueue DEF Idle
<1>4. x \in Agents
  BY <1>2, <1>3 DEF Lease, Renewing, Clients
<1>5. timer' = timer /\ \A y \in Clients : call'[y] = IF y = x THEN Idle ELSE call[y]
  BY <1>2, <1>4, Numbers DEF End, Return, TypeOK
<1>6. ~Handled(x, "insert")'
  BY <1>3, <1>5 DEF Handled, Idle
<1> QED
  BY <1>1, <1>2, <1>4, <1>5, <1>6, LeasePopAgent

LEMMA LeaseCrash ==
  ASSUME TypeOK, Queues, Calling, Lease, NEW p \in Processes, Crash(p)
  PROVE  Lease'
<1>1. PICK gone : gone = {x \in Clients : Author(x) \in Agents /\ Home(x) = p}
  OBVIOUS
<1>2. /\ \A x \in Clients : call'[x] = IF x \in gone THEN Idle ELSE call[x]
      /\ \A i \in Timers : timer'[i] = IF i \in gone THEN Off ELSE timer[i]
      /\ entry' = [entry EXCEPT ![p] = NoTimer] /\ queue' = [queue EXCEPT ![p] = <<>>]
      /\ holds' = {a \in holds : home[a] # p}
      /\ home' = home /\ claim' = claim
  BY <1>1 DEF Crash
<1>3. /\ \A a \in Agents : a \in gone <=> home[a] = p
      /\ \A i \in Timers : timer[i].author \in Agents => (i \in gone <=> home[timer[i].author] = p)
  BY <1>1, Numbers DEF Home
<1>4. ASSUME NEW b \in Agents, Handled(b, "insert")' PROVE Fresh(b)'
  <2>1. call'[b] = call[b]
    BY <1>2, <1>4, Numbers DEF Handled, Idle
  <2> QED
    BY <1>2, <1>4, <2>1 DEF Handled, Lease, Fresh
<1>5. ASSUME NEW i \in Timers, call'[i] # Idle PROVE Renewing(i)'
  <2>1. call'[i] = call[i] /\ timer'[i] = timer[i] /\ i \notin gone
    BY <1>2, <1>5, Numbers
  <2>2. Renewing(i)
    BY <1>5, <2>1 DEF Lease
  <2>3. PICK a \in Agents, q \in Processes : a = timer[i].author /\ q = home[a]
    BY <1>5, <2>1, RenewingAuthor, Numbers
  <2>4. q # p /\ queue'[q] = queue[q] /\ call'[a] = call[a]
    BY <1>2, <1>3, <2>1, <2>3, Numbers DEF TypeOK
  <2>5. PICK k \in Places(q) :
          /\ queue[q][k] = i
          /\ \/ a \in holds
             \/ \E l \in Places(q) : k < l /\ queue[q][l] = a /\ call[a].statement = "release"
    BY <2>2, <2>3 DEF Renewing, BeforeRelease
  <2>6. Places(q)' = Places(q)
    BY <2>4 DEF Places
  <2>7. a \in holds => a \in holds'
    BY <1>2, <2>3, <2>4
  <2>8. k \in Places(q)' /\ queue'[q][k] = i
    BY <2>4, <2>5, <2>6
  <2>9. \/ a \in holds'
        \/ \E l \in Places(q)' : k < l /\ queue'[q][l] = a /\ call'[a].statement = "release"
    BY <2>4, <2>5, <2>6, <2>7
  <2>10. BeforeRelease(i)'
    BY <1>2, <2>1, <2>3, <2>8, <2>9, StaysBefore
  <2> QED
    BY <1>2, <2>1, <2>2, <2>10 DEF Renewing
<1>6. \A i \in Timers : Beats(i)' => i \notin gone /\ timer'[i] = timer[i] /\ Beats(i)
  BY <1>2 DEF Beats, Off
<1>7. ASSUME NEW b \in holds' PROVE Leased(b)'
  <2>1. b \in Agents /\ home[b] # p /\ Leased(b)
    BY <1>2, <1>7, Numbers DEF Lease
  <2>2. PICK j \in Timers : j = entry[home[b]]
    BY <2>1 DEF Leased
  <2>3. entry'[home[b]] = j
    BY <1>2, <2>1, <2>2, Numbers DEF TypeOK
  <2>4. j \notin gone
    BY <1>3, <2>1, <2>2 DEF Leased
  <2>5. call'[j] = call[j] /\ timer'[j] = timer[j]
    BY <1>2, <2>4, Numbers
  <2>6. \A k \in Timers : Beats(k)' /\ timer'[k].author = b => k = j
    BY <1>6, <2>1, <2>2 DEF Leased
  <2> QED
    BY <1>2, <2>1, <2>2, <2>3, <2>5, <2>6 DEF Leased
<1>8. ASSUME NEW i \in Timers, Beats(i)' PROVE timer'[i].author \in holds'
  BY <1>2, <1>3, <1>6, <1>8, Numbers DEF Lease
<1> QED
  BY <1>4, <1>5, <1>7, <1>8 DEF Lease

LEMMA LeaseTick ==
  ASSUME TypeOK, Queues, Calling, Lease, Tick
  PROVE  Lease'
<1>1. /\ \A i \in Timers : timer[i].author # NoAgent => timer[i].next # 0
      /\ \A x \in Clients : call[x].age < MaxDelay
      /\ \A i \in Timers : timer'[i] = IF timer[i].next > 0
                                       THEN [timer[i] EXCEPT !.next = @ - 1] ELSE timer[i]
      /\ \A x \in Clients : call'[x] = IF call[x] = Idle THEN Idle
                                       ELSE [call[x] EXCEPT !.age = @ + 1]
      /\ claim' = IF claim = NoClaim \/ claim.left < -MaxDelay THEN claim
                  ELSE [claim EXCEPT !.left = @ - 1]
      /\ UNCHANGED <<home, entry, queue, holds>>
  BY DEF Tick
<1>2. \A x \in Clients : /\ call'[x].statement = call[x].statement /\ call'[x].done = call[x].done
                         /\ call[x] # Idle => call'[x].age = call[x].age + 1
  BY <1>1 DEF TypeOK
<1>3. \A x \in Clients : call[x] = Idle => call'[x] = Idle
  BY <1>1
<1>4. \A i \in Timers : /\ timer'[i].author = timer[i].author
                        /\ Beats(i)' => Beats(i)
                        /\ Beats(i) => timer'[i].next = timer[i].next - 1 /\ timer'[i].next >= 0
  <2> SUFFICES ASSUME NEW i \in Timers
               PROVE  /\ timer'[i].author = timer[i].author
                      /\ Beats(i)' => Beats(i)
                      /\ Beats(i) => timer'[i].next = timer[i].next - 1 /\ timer'[i].next >= 0
    OBVIOUS
  <2>1. timer[i] \in [author : Agents \cup {NoAgent}, next : -1 .. Period]
    BY DEF TypeOK
  <2>2. timer'[i].author = timer[i].author
    BY <1>1, <2>1
  <2>3. IF timer[i].next > 0 THEN timer'[i].next = timer[i].next - 1
                             ELSE timer'[i].next = timer[i].next
    BY <1>1, <2>1
  <2> QED
    BY <1>1, <2>2, <2>3, Numbers DEF Beats
<1>5. Needed => /\ claim.author \in Agents
                /\ claim' = [author |-> claim.author, left |-> claim.left - 1]
  <2> SUFFICES ASSUME Needed
               PROVE  /\ claim.author \in Agents
                      /\ claim' = [author |-> claim.author, left |-> claim.left - 1]
    OBVIOUS
  <2>1. claim.author \in Agents /\ claim.left >= 0
    BY NeededIsAlive
  <2>2. claim # NoClaim /\ ~(claim.left < -MaxDelay)
    BY <2>1, Names, Bounds, Numbers DEF NoClaim
  <2>3. claim \in [author : Agents \cup {NoAgent}, left : -MaxDelay - 1 .. TTL]
    BY DEF TypeOK
  <2> QED
    BY <1>1, <2>1, <2>2, <2>3
<1>6. ASSUME NEW b \in Agents, Handled(b, "insert")' PROVE Fresh(b)'
  <2>1. Handled(b, "insert") /\ call[b] # Idle
    BY <1>2, <1>6, Numbers DEF Handled, Idle
  <2>2. claim = [author |-> b, left |-> TTL - call[b].age]
    BY <2>1 DEF Lease, Fresh
  <2>3. claim' = [author |-> b, left |-> TTL - call[b].age - 1]
    BY <1>5, <2>1, <2>2 DEF Needed
  <2>4. TTL - call[b].age - 1 = TTL - call'[b].age
    BY <1>2, <2>1, Numbers, Bounds
  <2> QED
    BY <2>3, <2>4 DEF Fresh
<1>7. ASSUME NEW i \in Timers, call'[i] # Idle PROVE Renewing(i)'
  <2>1. call[i] # Idle /\ Renewing(i)
    BY <1>3, <1>7, Numbers DEF Lease
  <2>2. claim'.author = claim.author /\ claim'.left = claim.left - 1
    BY <1>5, <2>1 DEF Needed
  <2>3. claim'.left >= Period - MaxDelay - call'[i].age
    BY <1>2, <2>1, <2>2, Numbers, Bounds DEF Renewing
  <2>4. PICK a, p : a = timer[i].author /\ p = home[a]
    OBVIOUS
  <2>5. a \in Clients /\ Places(p)' = Places(p)
    BY <1>1, <2>1, <2>4, RenewingAuthor, Numbers DEF Places
  <2>6. PICK k \in Places(p) :
          /\ queue[p][k] = i
          /\ \/ a \in holds
             \/ \E l \in Places(p) : k < l /\ queue[p][l] = a /\ call[a].statement = "release"
    BY <2>1, <2>4 DEF Renewing, BeforeRelease
  <2>7. k \in Places(p)' /\ queue'[p][k] = i
    BY <1>1, <2>5, <2>6
  <2>8. \/ a \in holds'
        \/ \E l \in Places(p)' : k < l /\ queue'[p][l] = a /\ call'[a].statement = "release"
    BY <1>1, <1>2, <2>5, <2>6
  <2>9. timer'[i].author = a /\ home'[a] = p
    BY <1>1, <1>4, <2>4
  <2>10. BeforeRelease(i)'
    BY <2>7, <2>8, <2>9, StaysBefore
  <2> QED
    BY <1>2, <1>4, <2>1, <2>2, <2>3, <2>10, Numbers DEF Renewing
<1>8. ASSUME NEW b \in holds' PROVE Leased(b)'
  <2>1. b \in holds /\ b \in Agents /\ Leased(b)
    BY <1>1, <1>8, Numbers DEF Lease
  <2>2. claim'.author = claim.author /\ claim'.left = claim.left - 1
    BY <1>5, <2>1 DEF Needed
  <2>3. PICK j \in Timers : j = entry[home[b]]
    BY <2>1 DEF Leased
  <2>4. timer[j].author = b /\ timer[j].next >= 0
    BY <2>1, <2>3 DEF Leased
  <2>5. timer'[j].author = b /\ timer'[j].next = timer[j].next - 1 /\ timer'[j].next >= 0
    BY <1>4, <2>1, <2>4, Numbers DEF Beats
  <2>6. \A k \in Timers : Beats(k)' /\ timer'[k].author = b => k = j
    BY <1>4, <2>1, <2>3 DEF Leased
  <2>7. IF call'[j] = Idle THEN claim'.left >= timer'[j].next + Period - MaxDelay
                           ELSE timer'[j].next = Period - call'[j].age
    <3>1. CASE call[j] = Idle
      <4>1. claim.left >= timer[j].next + Period - MaxDelay
        BY <2>1, <2>3, <3>1 DEF Leased
      <4>2. claim'.left >= timer'[j].next + Period - MaxDelay
        BY <2>2, <2>5, <4>1, Numbers, Bounds
      <4> QED
        BY <1>3, <3>1, <4>2, Numbers
    <3>2. CASE call[j] # Idle
      <4>1. timer[j].next = Period - call[j].age
        BY <2>1, <2>3, <3>2 DEF Leased
      <4>2. timer'[j].next = Period - call'[j].age
        BY <1>2, <2>5, <3>2, <4>1, Numbers, Bounds
      <4>3. call'[j] # Idle
        <5>1. call'[j].statement # "none"
          BY <1>2, <3>2, Numbers DEF Calling
        <5> QED
          BY <5>1 DEF Idle
      <4> QED
        BY <4>2, <4>3
    <3> QED
      BY <3>1, <3>2
  <2>8. claim'.author = b /\ entry'[home'[b]] = j
    BY <1>1, <2>1, <2>2, <2>3 DEF Leased
  <2> QED
    BY <2>5, <2>6, <2>7, <2>8 DEF Leased
<1>9. ASSUME NEW i \in Timers, Beats(i)' PROVE timer'[i].author \in holds'
  BY <1>1, <1>4, <1>9 DEF Lease
<1> QED
  BY <1>6, <1>7, <1>8, <1>9 DEF Lease

\* A step in which no heartbeat fails keeps the lease.
LEMMA LeaseStep ==
  TypeOK /\ Queues /\ Calling /\ (~missed => Lease) /\ [Next]_vars => (~missed => Lease)'
<1> SUFFICES ASSUME TypeOK, Queues, Calling, ~missed => Lease, [Next]_vars, ~missed'
             PROVE  Lease'
  OBVIOUS
<1>1. ~missed
  BY DEF Next, AgentStep, TimerStep, Acquire, Release, Insert, Granted, Heartbeat, Lost,
         Execute, Fail, Crash, Tick, vars
<1>2. Lease
  BY <1>1
<1>3. ASSUME NEW a \in Agents, Acquire(a) PROVE Lease'
  BY <1>2, <1>3, LeaseIssue DEF Acquire, Waiting, Idle
<1>4. ASSUME NEW a \in Agents, Release(a) PROVE Lease'
  BY <1>2, <1>4, LeaseRelease
<1>5. ASSUME NEW a \in Agents, Insert(a) PROVE Lease'
  <2>1. a \notin holds /\ a \notin Waiting
    BY <1>5 DEF Insert, Handled, Calling, Idle, Waiting
  <2> QED
    BY <1>2, <1>5, <2>1, LeaseIssue DEF Insert
<1>6. ASSUME NEW a \in Agents, Granted(a) PROVE Lease'
  BY <1>2, <1>6, LeaseGranted
<1>7. ASSUME NEW i \in Timers, Heartbeat(i) PROVE Lease'
  BY <1>2, <1>7, LeaseHeartbeat
<1>8. ASSUME NEW i \in Timers, Lost(i) PROVE Lease'
  BY <1>2, <1>8 DEF Lost, Handled, Lease, Renewing, Idle
<1>9. ASSUME NEW p \in Processes, Execute(p) PROVE Lease'
  <2>1. PICK x : x = Head(queue[p])
    OBVIOUS
  <2>2. x \in Agents \/ x \in Timers
    BY <1>9, <2>1, HeadOfQueue DEF Execute, Clients
  <2> QED
    BY <1>2, <1>9, <2>1, <2>2, LeaseExecuteAgent, LeaseExecuteTimer
<1>10. ASSUME NEW p \in Processes, Fail(p) PROVE Lease'
  BY <1>2, <1>10, LeaseFail
<1>11. ASSUME NEW p \in Processes, Crash(p) PROVE Lease'
  BY <1>2, <1>11, LeaseCrash
<1>12. CASE Tick
  BY <1>2, <1>12, LeaseTick
<1>13. CASE UNCHANGED vars
  BY <1>2, <1>13 DEF vars, Lease, Handled, Fresh, Renewing, BeforeRelease, Places, Leased, Beats
<1> QED
  BY <1>3, <1>4, <1>5, <1>6, <1>7, <1>8, <1>9, <1>10, <1>11, <1>12, <1>13
  DEF Next, AgentStep, TimerStep

LEMMA LockerInvIsInductive ==
  /\ Init => LockerInv
  /\ LockerInv /\ [Next]_vars => LockerInv'
<1>1. Init => Lease
  BY DEF Init, Lease, Handled, Idle, Off, Beats, Clients
<1>2. Init => LockerInv
  BY <1>1, TypesInit, QueuesInit DEF LockerInv
<1>3. LockerInv /\ [Next]_vars => LockerInv'
  BY TypesStep, QueuesStep, CallingStep, LeaseStep DEF LockerInv
<1> QED
  BY <1>2, <1>3

\* acquireLock() grants the resource to one agent at a time, in one process or in several,
\* whatever crashes, fails or is handled late, as long as every heartbeat reached the
\* database and no call takes longer than half the time between two heartbeats.
THEOREM LockIsExclusive == Spec => []MutualExclusion
<1>1. LockerInv => MutualExclusion
  BY OneHolder DEF LockerInv, MutualExclusion
<1> QED
  BY <1>1, LockerInvIsInductive, PTL DEF Spec

\* The row of a holder is there and has not expired, and exactly the holder's interval
\* renews it, under the same conditions.
THEOREM LeaseIsKept == Spec => []LeaseKept
<1>1. LockerInv => LeaseKept
  <2> SUFFICES ASSUME LockerInv, ~missed PROVE LeaseKept
    BY DEF LeaseKept, HolderHasClaim, HeartbeatsMatch
  <2>1. TypeOK /\ Calling /\ Lease
    BY DEF LockerInv
  <2>2. ASSUME NEW a \in holds PROVE claim.author = a /\ claim.left >= 0
    BY <2>1, <2>2, NeededIsAlive DEF Needed, Lease, Leased
  <2>3. ASSUME NEW a \in Agents
        PROVE  LET beating == {i \in Timers : Beats(i) /\ timer[i].author = a} IN
               IF a \in holds THEN beating = {entry[home[a]]} ELSE beating = {}
    <3>1. CASE a \in holds
      <4>1. Leased(a) /\ a # NoAgent
        BY <2>1, <3>1, Names DEF Lease
      <4>2. /\ entry[home[a]] \in Timers /\ timer[entry[home[a]]].author = a
            /\ Beats(entry[home[a]])
            /\ \A k \in Timers : Beats(k) /\ timer[k].author = a => k = entry[home[a]]
        BY <4>1 DEF Leased, Beats
      <4> QED
        BY <3>1, <4>2
    <3>2. CASE a \notin holds
      BY <2>1, <3>2 DEF Lease
    <3> QED
      BY <3>1, <3>2
  <2> QED
    BY <2>2, <2>3 DEF LeaseKept, HolderHasClaim, HeartbeatsMatch
<1> QED
  BY <1>1, LockerInvIsInductive, PTL DEF Spec
=============================================================================
