------------------------------ MODULE Schedule ------------------------------
(***************************************************************************)
(* The reminders of one session.  The log is the only state: reminders are *)
(* created, deleted and dispatched by events, and folded from them anew by *)
(* whoever asks.  At a step boundary of the agent loop the inbox hands the *)
(* model what is pending, and then the driver ticks: it decides what the   *)
(* session owes and hands it to the host, which appends the dispatches and *)
(* the admission of one steer, and waits until the store has them.  The    *)
(* step boundaries of the session's subagents tick the same driver.        *)
(*                                                                         *)
(* A process that dies while the store writes leaves a part of the batch,  *)
(* cut between two events or within one: recovery drops a torn line.       *)
(*                                                                         *)
(* The clock does not go back, and the session inherits no log.            *)
(***************************************************************************)
EXTENDS Naturals, Sequences, FiniteSets, SequencesExt

CONSTANTS
    MaxTime,    \* bound: the last instant
    MaxCreates, \* bound: how many reminders are created
    MaxCrashes, \* bound: how often the process dies
    Delays,     \* the delays of one-shot reminders
    Interval    \* the interval of fixed-rate reminders

ASSUME ScheduleAssumption ==
    /\ {MaxTime, MaxCreates, MaxCrashes} \subseteq Nat
    /\ Delays \subseteq Nat \ {0}
    /\ Interval \in Nat \ {0}

VARIABLES
    log,     \* session.events
    folded,  \* foldScheduleEvents(log), which every reader works out anew
    durable, \* how many of them the store has
    now,     \* Date.now()
    ticking, \* a tick waits for the host to flush what it delivered
    crashes, \* ghost
    torn     \* ghost: where the log has a dispatch whose admission a crash has cut off

vars == <<log, folded, durable, now, ticking, crashes, torn>>

(* `at` is the target of a create and the acceptedAt of a dispatch; the key *)
(* of an input is the `id` and the `at` of its admission.                   *)
Event(op, id, every, at) == [op |-> op, id |-> id, every |-> every, at |-> at]
Absent == 0
Batch  == 0

-----------------------------------------------------------------------------
(* resolveEveryOccurrence: the latest occurrence that was due at an instant. *)
(* mutant: missed occurrences are caught up one by one *)
EachOccurrence(target, acceptedAt) == target
Occurrence(target, acceptedAt) ==
    target + ((acceptedAt - target) \div Interval) * Interval

(* foldScheduleEvents.  `active` maps an id to its reminder; ids are given   *)
(* in the order of creation, which is that of the fold's map.                *)
Folded(active, seen) == [active |-> active, seen |-> seen, corrupt |-> FALSE]
Nothing == Folded(<<>>, {})
Forget(active, id) == [i \in DOMAIN active \ {id} |-> active[i]]
Put(active, id, every, at) ==
    [i \in DOMAIN active \cup {id} |-> IF i = id THEN [every |-> every, at |-> at] ELSE active[i]]

Fits(s, e) ==
    CASE e.op = "create"   -> e.id \notin s.seen
      [] e.op = "delete"   -> e.id \in DOMAIN s.active
      [] e.op = "dispatch" -> /\ e.id \in DOMAIN s.active
                              /\ s.active[e.id].every <=> e.at # Absent
                              /\ s.active[e.id].every => s.active[e.id].at <= e.at
      [] OTHER             -> TRUE

Advance(active, e) ==
    IF active[e.id].every
    THEN Put(active, e.id, active[e.id].every, Occurrence(active[e.id].at, e.at) + Interval)
    ELSE Forget(active, e.id)

FoldEvent(s, e) ==
    IF s.corrupt \/ ~Fits(s, e) THEN [s EXCEPT !.corrupt = TRUE]
    ELSE CASE e.op = "create"   -> Folded(Put(s.active, e.id, e.every, e.at), s.seen \cup {e.id})
           [] e.op = "delete"   -> Folded(Forget(s.active, e.id), s.seen)
           [] e.op = "dispatch" -> Folded(Advance(s.active, e), s.seen)
           [] OTHER             -> s

FoldFrom(s, events) ==
    LET upTo[n \in 0 .. Len(events)] == IF n = 0 THEN s ELSE FoldEvent(upTo[n - 1], events[n])
    IN  upTo[Len(events)]

Init ==
    /\ log = <<>>
    /\ folded = Nothing
    /\ durable = 0
    /\ now = 1
    /\ ticking = FALSE
    /\ crashes = 0
    /\ torn = {}

Appends(events) ==
    /\ log' = log \o events
    /\ folded' = FoldFrom(folded, events)
    /\ UNCHANGED <<durable, now, crashes, torn>>

-----------------------------------------------------------------------------
(* The inbox, whose entries are told apart by their keys. *)

(* The members of S in a sequence, in its order. *)
Among(seq, S) ==
    LET kept[n \in 0 .. Len(seq)] ==
            IF n = 0 THEN <<>>
            ELSE IF seq[n] \in S THEN Append(kept[n - 1], seq[n]) ELSE kept[n - 1]
    IN  kept[Len(seq)]

Key(e) == <<e.id, e.at>>
Keys(events, op) == {Key(e) : e \in {x \in ToSet(events) : x.op = op}}
PendingKeys == Keys(log, "admitted") \ Keys(log, "promoted")
IsPending(key) == key \in PendingKeys
Pending ==
    LET waiting == PendingKeys
    IN  Among(log, {e \in ToSet(log) : e.op = "admitted" /\ Key(e) \in waiting})

(* claimAtStepBoundary. *)
Claim ==
    /\ \E claimed \in {Pending} :
          /\ claimed # <<>>
          /\ Appends([n \in DOMAIN claimed |-> [claimed[n] EXCEPT !.op = "promoted"]])
    /\ UNCHANGED ticking

-----------------------------------------------------------------------------
(* The tools. *)

(* allocateScheduleId. *)
Free(seen) == CHOOSE id \in 1 .. MaxCreates : id \notin seen /\ 1 .. id - 1 \subseteq seen

Create(every, at) ==
    /\ Cardinality(folded.seen) < MaxCreates
    /\ Appends(<<Event("create", Free(folded.seen), every, at)>>)
    /\ UNCHANGED ticking

CreateOneShot == \E delay \in Delays : Create(FALSE, now + delay)
CreateEvery == Create(TRUE, now + Interval)

(* mutant: whatever was created can be deleted *)
DeletesInactive(id) ==
    /\ id \in folded.seen
    /\ Appends(<<Event("delete", id, FALSE, Absent)>>)
    /\ UNCHANGED ticking
Delete(id) ==
    /\ id \in DOMAIN folded.active
    /\ Appends(<<Event("delete", id, FALSE, Absent)>>)
    /\ UNCHANGED ticking

-----------------------------------------------------------------------------
(* The driver's tick and the host's delivery. *)

(* decideDue: the earliest of the one-shots that are due, or else all the    *)
(* fixed-rate reminders that are.                                            *)
Due(active) == {id \in DOMAIN active : active[id].at <= now}
Before(active, i, j) ==
    active[i].at < active[j].at \/ (active[i].at = active[j].at /\ i < j)
Earlier(active, ids, i) == {j \in ids : Before(active, j, i)}
InOrder(active, ids) ==
    [n \in 1 .. Cardinality(ids) |->
        CHOOSE i \in ids : Cardinality(Earlier(active, ids, i)) = n - 1]

(* What the host appends at once: an admission that is refused leaves its    *)
(* dispatches behind.                                                        *)
Delivers(dispatches, id, at) ==
    LET refused == IsPending(<<id, at>>)
    IN  /\ Appends(dispatches \o IF refused THEN <<>> ELSE <<Event("admitted", id, FALSE, at)>>)
        /\ ticking' = ~refused

(* mutant: every reminder's input has the same name *)
DeliversUnnamed(id, at) == Delivers(<<Event("dispatch", id, FALSE, Absent)>>, Batch, Absent)
DeliversOneShot(id, at) == Delivers(<<Event("dispatch", id, FALSE, Absent)>>, id, at)

(* mutant: a batch's input is not named by its instant *)
DeliversUntimed(ids) ==
    Delivers([n \in DOMAIN ids |-> Event("dispatch", ids[n], FALSE, now)], Batch, Absent)
DeliversBatch(ids) ==
    Delivers([n \in DOMAIN ids |-> Event("dispatch", ids[n], FALSE, now)], Batch, now)

(* A corrupt log is left alone, and so is a tick that meets another one.     *)
Tick ==
    LET active == folded.active
        due == Due(active)
        oneShots == {id \in due : ~active[id].every}
    IN  /\ ~ticking
        /\ ~folded.corrupt
        /\ due # {}
        /\ IF oneShots # {}
           THEN LET first == Head(InOrder(active, oneShots))
                IN  DeliversOneShot(first, active[first].at)
           ELSE DeliversBatch(InOrder(active, due))

(* The flush ends the tick, also one that fails: the events stay in memory.  *)
Flushed ==
    /\ ticking
    /\ ticking' = FALSE
    /\ durable' \in {durable, Len(log)}
    /\ UNCHANGED <<log, folded, now, crashes, torn>>

-----------------------------------------------------------------------------
(* Write-behind, the clock, and the process that dies. *)

Save ==
    /\ durable < Len(log)
    /\ durable' = Len(log)
    /\ UNCHANGED <<log, folded, now, ticking, crashes, torn>>

Passes ==
    /\ now < MaxTime
    /\ now' = now + 1
    /\ UNCHANGED <<log, folded, durable, ticking, crashes, torn>>

(* The dispatches at the end of a log: what a batch may leave behind that    *)
(* was cut before its admission.                                             *)
Unadmitted(events) ==
    {n \in DOMAIN events : \A m \in n .. Len(events) : events[m].op = "dispatch"}

Crash ==
    /\ crashes < MaxCrashes
    /\ crashes' = crashes + 1
    /\ \E n \in durable .. Len(log) :
          /\ log' = SubSeq(log, 1, n)
          /\ folded' = FoldFrom(Nothing, log')
          /\ durable' = n
          /\ torn' = torn \cup Unadmitted(log')
    /\ ticking' = FALSE
    /\ UNCHANGED now

StepBoundary == Claim \/ Tick

Next ==
    \/ StepBoundary
    \/ Flushed
    \/ CreateOneShot \/ CreateEvery
    \/ \E id \in 1 .. MaxCreates : Delete(id)
    \/ Save \/ Passes
    \/ Crash

(* Flushes settle, and a session that reminders can reach is one whose       *)
(* agent keeps taking steps.                                                 *)
Fairness == WF_vars(Claim) /\ WF_vars(Tick) /\ WF_vars(Flushed)
Spec == Init /\ [][Next]_vars /\ Fairness

-----------------------------------------------------------------------------
(* Properties. *)

TypeOK ==
    /\ log \in Seq([op : {"create", "delete", "dispatch", "admitted", "promoted"},
                    id : (1 .. MaxCreates) \cup {Batch}, every : BOOLEAN, at : Nat])
    /\ folded.seen \subseteq 1 .. MaxCreates /\ DOMAIN folded.active \subseteq folded.seen
    /\ folded.active \in [DOMAIN folded.active -> [every : BOOLEAN, at : Nat]]
    /\ durable \in 0 .. Len(log) /\ torn \subseteq 1 .. durable
    /\ now \in Nat \ {0} /\ ticking \in BOOLEAN /\ crashes \in 0 .. MaxCrashes

Dispatches == {n \in DOMAIN log : log[n].op = "dispatch"}

(* The event behind a dispatch and those that were appended with it.         *)
AdmissionOf(n, m) == log[m].op = "admitted" /\ \A k \in n .. m - 1 : k \in Dispatches
IsAdmitted(n) == \E m \in n + 1 .. Len(log) : AdmissionOf(n, m)
HasReached(n) ==
    \E m \in n + 1 .. Len(log) :
        /\ AdmissionOf(n, m)
        /\ \E k \in m + 1 .. Len(log) : log[k] = [log[m] EXCEPT !.op = "promoted"]

(* No sequence of creates, deletes, dispatches and crashes leads to a log    *)
(* that the strict fold refuses: it would refuse it for ever, and silence    *)
(* every reminder of the session (driver.ts:139, index.ts:328-345).          *)
StreamStaysFoldable == ~folded.corrupt

(* A reminder that is spent has an input to show for it: the admission is    *)
(* not refused, and a flush that fails or a crash takes both or neither.  A  *)
(* crash that tears the write is left out (assembly.ts:979-989).             *)
DispatchedIsAdmitted == \A n \in Dispatches \ torn : IsAdmitted(n)

(* The same without that exception: "the residual is a duplicate after a     *)
(* crash before the retry, never a loss" (driver.ts:13).                     *)
NoReminderLost == \A n \in Dispatches : IsAdmitted(n)

(* However late its occurrences are accepted, and over restarts, a           *)
(* fixed-rate reminder stays in step with its creation, and its next         *)
(* occurrence is the first that lies ahead of the last accepted one: those   *)
(* that were missed are skipped, and no other is (index.ts:10, 389-394).     *)
AcceptedAt(id) == {log[m].at : m \in {k \in Dispatches : log[k].id = id}}
FirstAhead(next, anchor, instants) ==
    /\ (next - anchor) % Interval = 0
    /\ \A a \in instants : a < next
    /\ next = anchor \/ \E a \in instants : next <= a + Interval
KeepsItsAnchor ==
    \A n \in DOMAIN log : log[n].op = "create" /\ log[n].every =>
        LET id == log[n].id
        IN  id \in DOMAIN folded.active =>
                FirstAhead(folded.active[id].at, log[n].at, AcceptedAt(id))

(* What is due is shown to the model in the end, over overlapping ticks,     *)
(* failing flushes and restarts, and also the second occurrence of the same  *)
(* reminder: an input whose name was used before is taken for consumed       *)
(* (index.ts:478, inbox.ts:87).                                              *)
NothingOwed == Due(folded.active) = {} /\ \A n \in Dispatches \ torn : HasReached(n)
DueReachesModel == []<>NothingOwed

=============================================================================
