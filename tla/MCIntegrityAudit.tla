-------------------------- MODULE MCIntegrityAudit --------------------------
(***************************************************************************)
(* Two processes on the file of shard main; the first also has shard s1.   *)
(* A start is a situation to explore: files, rows, open entries, bounds.   *)
(***************************************************************************)
EXTENDS IntegrityAudit

Main == "main of p1"
Other == "main of p2"
S1 == "s1 of p1"

MCEntries == {Main, Other, S1}
MCProcessOf == [e \in MCEntries |-> IF e = Other THEN "p2" ELSE "p1"]
MCFileOf == [e \in MCEntries |-> IF e = S1 THEN "s1.db" ELSE "main.db"]

Sound == [t \in Tables |-> Columns(t)]
\* No nodes; both settings tables have "name" for "key", and one has no "id".
Legacy == [nodes |-> {}, settings |-> {"id", "name"}, queue_settings |-> {"name"}]

MCFiles(main) == [f \in Files |-> IF f = "main.db" THEN main ELSE Sound]

Node(id, parent) == [id |-> id, parent |-> parent]
Rows(nodes, edges, knowledge) == [nodes |-> nodes, edges |-> edges, knowledge |-> knowledge]
NoRows == Rows(<<>>, <<>>, {})
MCStore(main, s1) == [f \in Files |-> IF f = "main.db" THEN main ELSE s1]

Bounds(main, other, s1) ==
  [opens |-> (Main :> main) @@ (Other :> other) @@ (S1 :> s1), users |-> {}, ids |-> {},
   failures |-> 0, closes |-> 0, crashes |-> 0, writes |-> 0, starts |-> 1, stops |-> 0]

Start(files, rows, open, bounds) ==
  [file |-> MCFiles(files), store |-> rows, open |-> open, budget |-> bounds]

Empty == MCStore(NoRows, NoRows)

\* An old file that two callers open, close and fail to open.
Opened ==
  Start(Legacy, Empty, <<>>, [Bounds(2, 0, 0) EXCEPT !.users = {"u1", "u2"}, !.failures = 1,
                                                     !.closes = 1, !.starts = 0])

\* A table too old for the indices: the initialisation rejects, the connection stays.
TooOld ==
  Start([Sound EXCEPT !["nodes"] = {"id"}], Empty, <<>>,
        [Bounds(1, 0, 0) EXCEPT !.users = {"u1", "u2"}])

\* Two processes that repair one old file; one crashes, or a statement fails.
Raced(crashes, failures) ==
  Start(Legacy, Empty, <<>>, [Bounds(2, 1, 0) EXCEPT !.users = {"u1", "u2"}, !.starts = 0,
                                                     !.crashes = crashes,
                                                     !.failures = failures])

\* Two open shards of one process that are closed while somebody opens them.
Closed ==
  Start(Sound, Empty, <<Main, S1>>, [Bounds(2, 0, 2) EXCEPT !.users = {"u1"}, !.failures = 1,
                                                            !.closes = 1, !.starts = 0])

\* An orphan and its child, a dangling edge and a sound one, users who write, and a failure.
Written ==
  Start(Sound,
        MCStore(Rows(<<Node(1, 2), Node(3, 1)>>, <<<<1, 2>>, <<2, 1>>>>, {2}), NoRows),
        <<Main>>, [Bounds(1, 0, 0) EXCEPT !.failures = 1, !.writes = 2, !.ids = {1, 2}])

\* More nodes than a page, and more than the limit.
Paged ==
  Start(Sound, MCStore(Rows(<<Node(1, 3), Node(2, NoId), Node(3, 2), Node(4, 5)>>, <<>>, {}),
                       NoRows),
        <<Main>>, [Bounds(1, 0, 0) EXCEPT !.writes = 1, !.ids = {5}])

\* Orphans in two shards, failures, and a worker that is stopped.
Orphaned == MCStore(Rows(<<Node(1, 2)>>, <<>>, {}), Rows(<<Node(1, 2)>>, <<<<1, 2>>>>, {}))

Audits ==
  Start(Sound, Orphaned, <<Main, S1>>,
        [Bounds(1, 0, 1) EXCEPT !.failures = 1, !.starts = 2, !.stops = 1, !.crashes = 1])

\* A shard that is closed during its audit, and that the audit or a user opens again.
Reopened ==
  Start(Sound, Orphaned, <<S1>>, [Bounds(0, 0, 2) EXCEPT !.failures = 1, !.closes = 1])

Reawaited ==
  Start(Sound, Orphaned, <<S1>>, [Bounds(0, 0, 2) EXCEPT !.users = {"u1"}, !.closes = 1])

MCStarts ==
  {Opened, TooOld, Raced(1, 0), Raced(0, 1), Closed, Written, Paged, Audits, Reopened,
   Reawaited}
=============================================================================
