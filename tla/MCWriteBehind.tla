--------------------------- MODULE MCWriteBehind ---------------------------
(* WriteBehind on a small instance, and mutants of its actions. *)
EXTENDS WriteBehind
=============================================================================
