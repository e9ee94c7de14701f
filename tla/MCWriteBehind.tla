--------------------------- MODULE MCWriteBehind ----------------------------
(* Small sets of operations for WriteBehind.  An operation is named by its  *)
(* shard (A, B), its table (j: queue_jobs, n: nodes) and a number.          *)
EXTENDS WriteBehind

\* Operations on one shard, two of them status changes of one job.
OneShardOps == {"Aj1", "Aj2", "An1"}

\* Four operations on one shard.
OneTableOps == {"An1", "An2", "An3", "An4"}

\* A status change and another operation of one shard.
TwoOps == {"Aj1", "An1"}

\* Two operations on one shard and one on another.
TwoShardOps == {"Aj1", "An1", "Bn1"}

MCShardOf ==
  [op \in Ops |-> IF op \in {"Aj1", "Aj2"} \cup OneTableOps THEN "A" ELSE "B"]

MCTableOf ==
  [op \in Ops |-> IF op \in {"Aj1", "Aj2"} THEN "queue_jobs" ELSE "nodes"]

MCJobOf == [op \in Ops |-> IF op \in {"Aj1", "Aj2"} THEN "job1" ELSE NoJob]
=============================================================================
