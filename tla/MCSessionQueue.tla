---------------------------- MODULE MCSessionQueue ----------------------------
(* SessionQueue with two queued inputs and a steer.  The instance is the     *)
(* union of two: both queued inputs and no restart, or one of them with the  *)
(* steer and the restarts.  Two queued inputs behave alike, so p is admitted *)
(* after q.                                                                  *)
EXTENDS SessionQueue, TLC

CONSTANTS q, p, s

Bounded == Has("admitted", p) => Has("admitted", q) /\ ~Has("admitted", s) /\ restarts = 0

(* The fairness of QueueSpec, for the steps that stay inside the bound.      *)
MCNext == QueueNext /\ Bounded'
MCFairness ==
    /\ WF_queueVars(Paces)
    /\ WF_queueVars(Assembles)
    /\ WF_queueVars(Works)
    /\ WF_queueVars(Proceeds /\ Bounded')
MCSpec == QueueInit /\ [][MCNext]_queueVars /\ MCFairness
=============================================================================
