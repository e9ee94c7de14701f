------------------------------ MODULE MCLocker ------------------------------
(* Two agents, in one process or in two. *)
EXTENDS Locker, TLC

CONSTANTS p1, p2, a1, a2

MCHomes == {a1 :> p1 @@ a2 :> p1, a1 :> p1 @@ a2 :> p2}
=============================================================================
