---------------------------- MODULE MCTableOps -----------------------------
(* TableOps with the id lists of its runs. *)
EXTENDS TableOps

MCLists == {<<1>>, <<2>>, <<1, 2>>}
=============================================================================
