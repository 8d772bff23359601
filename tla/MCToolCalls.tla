----------------------------- MODULE MCToolCalls -----------------------------
(* ToolCalls with two calls that are safe together, an exclusive one and    *)
(* another safe one, on a pool of two.                                      *)
EXTENDS ToolCalls
=============================================================================
