---------------------------- MODULE MCExecutorLane ----------------------------
(* ExecutorLane with two queued inputs and a steer. *)
EXTENDS ExecutorLane, TLC

CONSTANTS q, r, s
=============================================================================
