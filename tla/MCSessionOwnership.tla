-------------------------- MODULE MCSessionOwnership --------------------------
(* SessionOwnership with two processes, or with one whose log is loaded     *)
(* while it is live.                                                        *)
EXTENDS SessionOwnership

CONSTANTS a, b, o1, o2

RunCalls    == [p \in Proc |-> IF p = a THEN Kinds ELSE {"append", "load", "loadOwned"}]
WriterCalls == [p \in Proc |-> {"append", "loadOwned", "load"}]
=============================================================================
