----------------------------- MODULE MCTeamMailbox -----------------------------
(* TeamMailbox with a lead, one teammate and three messages for any of them: *)
(* one may wake the teammate while the team is mounting, and its answer meet *)
(* the sweep that comes to the lead's queue with the third.  Only two of     *)
(* them are sent when there is a second restart.                             *)
EXTENDS TeamMailbox, TLC

CONSTANTS x, y, z, m1

(* No message is for anybody until Init has chosen its target. *)
AnyMessage == Permutations(Msg)

Bounded == crashes < 2 \/ \E m \in Msg : stage[m] = "idle"
MCSpec  == Init /\ [][Next /\ Bounded']_vars
=============================================================================
