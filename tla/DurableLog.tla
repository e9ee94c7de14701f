----------------------------- MODULE DurableLog -----------------------------
(***************************************************************************)
(* What a write-behind store promises its writers.  Per shard and table    *)
(* there is one log of accepted operations, of which a prefix is durable.  *)
(* An operation is accepted at the end of its log; one shard at a time     *)
(* moves the durable prefixes of its tables forward, atomically.  Nothing  *)
(* is reordered or applied twice, and there are two ways to lose what was  *)
(* accepted: a crash forgets exactly what was not durable; and a shard     *)
(* whose transaction failed may drop the batches behind its durable        *)
(* prefix, but nothing before it.                                          *)
(***************************************************************************)
EXTENDS SequencesExt

CONSTANTS Shards, Tables, Ops

VARIABLES
  log, durable,
  failed                     \* shards in which a transaction failed since the last crash

vars == <<log, durable, failed>>

Empty == [s \in Shards |-> [t \in Tables |-> <<>>]]

Init == log = Empty /\ durable = Empty /\ failed = {}

Accept(s, t, op) ==
  /\ log' = [log EXCEPT ![s][t] = Append(@, op)]
  /\ UNCHANGED <<durable, failed>>

Persist(s) ==
  /\ \A t \in Tables : /\ IsPrefix(durable[s][t], durable'[s][t])
                       /\ IsPrefix(durable'[s][t], log[s][t])
  /\ \A other \in Shards \ {s} : durable'[other] = durable[other]
  /\ UNCHANGED <<log, failed>>

Fail(shards) == failed' = failed \cup shards /\ UNCHANGED <<log, durable>>

\* What follows the dropped batches stays, and stays behind the durable prefix.
Kept(s, t) ==
  {durable[s][t] \o SubSeq(log[s][t], k, Len(log[s][t])) :
     k \in Len(durable[s][t]) + 1 .. Len(log[s][t]) + 1}

Drop(shards) ==
  /\ shards \subseteq failed
  /\ \A s \in Shards, t \in Tables :
       IF s \in shards THEN log'[s][t] \in Kept(s, t) ELSE log'[s][t] = log[s][t]
  /\ UNCHANGED <<durable, failed>>

Crash == log' = durable /\ failed' = {} /\ UNCHANGED durable

Next ==
  \/ \E s \in Shards : Persist(s)
  \/ \E s \in Shards, t \in Tables, op \in Ops : Accept(s, t, op)
  \/ \E shards \in SUBSET Shards : Fail(shards) \/ Drop(shards)
  \/ Crash

Spec == Init /\ [][Next]_vars
=============================================================================
