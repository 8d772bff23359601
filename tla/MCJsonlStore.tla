---------------------------- MODULE MCJsonlStore ----------------------------
(* JsonlStore on logs of a few events. *)
EXTENDS JsonlStore
=============================================================================
