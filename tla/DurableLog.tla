----------------------------- MODULE DurableLog -----------------------------
(***************************************************************************)
(* What a session's write path promises, whatever batching, timers and     *)
(* retries it uses: accepted events become durable in the order they were  *)
(* accepted, without gaps or duplicates, what is durable stays durable,    *)
(* and a flush that resolves vouches only for events that are durable.     *)
(***************************************************************************)
EXTENDS Naturals, Sequences

CONSTANT Event

VARIABLES
    accepted,   \* every event handed to the write path, in order
    stored,     \* the events the backend holds
    promised    \* how many accepted events some resolved flush vouched for

vars == <<accepted, stored, promised>>

Init ==
    /\ accepted = <<>>
    /\ stored = <<>>
    /\ promised = 0

Accept ==
    /\ \E e \in Event : accepted' = Append(accepted, e)
    /\ UNCHANGED <<stored, promised>>

(* A contiguous run of accepted events, starting where the store ends, becomes durable. *)
Persist ==
    /\ \E n \in Len(stored) .. Len(accepted) : stored' = SubSeq(accepted, 1, n)
    /\ UNCHANGED <<accepted, promised>>

Promise ==
    /\ \E n \in promised .. Len(stored) : promised' = n
    /\ UNCHANGED <<accepted, stored>>

Next == Accept \/ Persist \/ Promise

Spec == Init /\ [][Next]_vars
=============================================================================
