--------------------------- MODULE MCTeamTaskBoard ---------------------------
(* TeamTaskBoard with a lead, one teammate and three tasks: what the         *)
(* teammate saw of t1 is followed, so t1 has the most revisions.  The        *)
(* instance is the union of two: all three tasks, whose dependencies may be  *)
(* a cycle, and nothing seen; or two of them and the teammate's looks.       *)
EXTENDS TeamTaskBoard

CONSTANTS t1, t2, t3, m1

Followed  == {<<m1, t1>>}
Revisions == [t \in Task |-> IF t = t1 THEN 3 ELSE IF t = t2 THEN 2 ELSE 1]

Bounded == view = NoCall \/ t3 \notin DOMAIN tasks
MCSpec  == Init /\ [][Next /\ Bounded']_vars
=============================================================================
