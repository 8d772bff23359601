------------------------------ MODULE TeamMailbox ------------------------------
(***************************************************************************)
(* Messages between a lead agent and its teammates.  A message is queued   *)
(* by a transaction on the lead's log, delivered by appending it to its    *)
(* target's own log, and acknowledged by a second transaction; after a     *)
(* restart the mount sweep delivers what is queued and not acknowledged,   *)
(* and one more sweep, for the lead's messages, follows the publication of *)
(* the mounted session.                                                    *)
(*                                                                         *)
(* The live fold of the team's events is the log itself; synced of its     *)
(* entries are on disk.  A flush resolves once the entry it was called for *)
(* is on disk, or rejects.  The senders are the messages.                  *)
(***************************************************************************)
EXTENDS Naturals, Sequences, FiniteSets

CONSTANTS
    Msg,        \* messages, each sent at most once
    Lead,
    Member,     \* teammates
    Sweep,      \* recoverRoot, the one actor that is no send
    NoActor,
    Quiet,      \* messages with delivery "quiet"; the others are "wakeup"
    MaxPending, \* maxPendingMessagesPerMember
    MaxCrashes  \* bound: restarts

Actor  == Msg \cup {Sweep}
Target == Member \cup {Lead}

ASSUME MailboxAssumption ==
    /\ IsFiniteSet(Msg)
    /\ Lead \notin Member
    /\ Sweep \notin Msg
    /\ NoActor \notin Actor
    /\ Quiet \subseteq Msg
    /\ MaxPending \in Nat \ {0}
    /\ MaxCrashes \in Nat

VARIABLES
    target,  \* [Msg -> Target] whom each message is for
    log,     \* the lead's log: queued and delivered events, and its inbox
    synced,  \* how much of it is on disk
    inbox,   \* [Member -> Seq(Msg)] subagent/inbox events in a teammate's log
    held,    \* [Member -> Nat] how many of them are on disk
    child,   \* [Member -> status] the teammate's entry in the subagent table
    tx,      \* whose transaction awaits lead.flush()
    stage,   \* [Actor -> stage] where each send and the sweep are
    todo,    \* the sweep's snapshot of a target's queue, what is left of it
    others,  \* the targets it has yet to come to
    mount,   \* how far the mounting of the team is
    crashes

vars == <<target, log, synced, inbox, held, child, tx, stage, todo, others, mount, crashes>>

Entry(kind, m) == [kind |-> kind, msg |-> m]
Has(entries, kind, m) == \E i \in DOMAIN entries : entries[i] = Entry(kind, m)

(* foldTeam, of any part of the log. *)
Queue(entries, t) == {m \in Msg : target[m] = t /\ Has(entries, "queued", m)}
Delivered(entries) == {m \in Msg : Has(entries, "delivered", m)}
Pending(entries, t) == Queue(entries, t) \ Delivered(entries)

(* A sweep's snapshot of a target's queue, in the order of queueing. *)
Precedes(entries, m, n) ==
    \E i, j \in DOMAIN entries :
        i < j /\ entries[i] = Entry("queued", m) /\ entries[j] = Entry("queued", n)
Snapshots(entries, t) ==
    LET queue == Queue(entries, t)
    IN  {s \in [1 .. Cardinality(queue) -> queue] :
            \A i, k \in DOMAIN s : i < k => Precedes(entries, s[i], s[k])}

Synced    == SubSeq(log, 1, synced)
MsgOf(a)  == IF a = Sweep THEN Head(todo) ELSE a

Ended   == {"answered", "failed"}
Running == {"checked", "queueing", "delivering", "flushing", "acking", "committing"}

Init ==
    /\ target \in [Msg -> Target]
    /\ log = <<>>
    /\ synced = 0
    /\ inbox = [c \in Member |-> <<>>]
    /\ held = [c \in Member |-> 0]
    /\ child \in [Member -> {"alive", "gone"}]
    /\ tx = NoActor
    /\ stage = [a \in Actor |-> "idle"]
    /\ todo = <<>>
    /\ others = {}
    /\ mount = "published"
    /\ crashes = 0

-----------------------------------------------------------------------------
(* How an actor goes on: a send returns "accepted" or "queued", or throws;   *)
(* the sweep turns to its next message, or ends when a transaction throws.   *)
Goes(a, to) == stage' = [stage EXCEPT ![a] = to] /\ UNCHANGED <<todo, others, mount>>

Returns(a) ==
    /\ stage' = [stage EXCEPT ![a] = IF a = Sweep THEN "sweeping" ELSE "answered"]
    /\ todo' = IF a = Sweep THEN Tail(todo) ELSE todo
    /\ UNCHANGED <<others, mount>>

Throws(a) ==
    /\ stage' = [stage EXCEPT ![a] = IF a = Sweep THEN "idle" ELSE "failed"]
    /\ todo' = IF a = Sweep THEN <<>> ELSE todo
    /\ others' = IF a = Sweep THEN {} ELSE others
    /\ mount' = IF a # Sweep THEN mount
                ELSE IF mount = "mounting" THEN "failed" ELSE "published"

(* The two logs' write-behinds make more of them durable. *)
LogSyncs ==
    /\ synced < Len(log)
    /\ synced' = Len(log)
    /\ UNCHANGED <<log, inbox, held, child, tx, stage, todo, others, mount, crashes, target>>

InboxSyncs(c) ==
    /\ held[c] < Len(inbox[c])
    /\ held' = [held EXCEPT ![c] = Len(inbox[c])]
    /\ UNCHANGED <<log, synced, inbox, child, tx, stage, todo, others, mount, crashes, target>>

-----------------------------------------------------------------------------
(* sendMessage: a first look at the queue, without the transaction.  While   *)
(* the team is mounting only the teammates it has woken send: the result of  *)
(* a job that ends, to the lead.                                             *)
MaySend(m) ==
    \/ mount \in {"publishing", "draining", "published"}
    \/ mount = "mounting" /\ target[m] = Lead /\ \E c \in Member : child[c] = "alive"

HasRoom(t) == Cardinality(Pending(log, t)) < MaxPending

SendChecks(m) ==
    /\ stage[m] = "idle"
    /\ MaySend(m)
    /\ Goes(m, IF HasRoom(target[m]) THEN "checked" ELSE "failed")
    /\ UNCHANGED <<log, synced, inbox, held, child, tx, crashes, target>>

(* mutant: the first look is thought to be enough *)
RoomUnchecked(t) == TRUE

(* The transaction's own look. *)
StillHasRoom(t) == HasRoom(t)

SendQueues(m) ==
    /\ stage[m] = "checked"
    /\ tx = NoActor
    /\ \/ /\ StillHasRoom(target[m])
          /\ log' = Append(log, Entry("queued", m))
          /\ tx' = m
          /\ Goes(m, "queueing")
       \/ /\ ~StillHasRoom(target[m])
          /\ Goes(m, "failed")
          /\ UNCHANGED <<log, tx>>
    /\ UNCHANGED <<synced, inbox, held, child, crashes, target>>

(* mutant: the transaction answers without its flush *)
NotFlushed(kind, m) == TRUE

Flushed(kind, m) == Has(Synced, kind, m)

Queued(m) ==
    /\ tx = m
    /\ stage[m] = "queueing"
    /\ Flushed("queued", m)
    /\ tx' = NoActor
    /\ Goes(m, "delivering")
    /\ UNCHANGED <<log, synced, inbox, held, child, crashes, target>>

Acknowledged(a) ==
    /\ tx = a
    /\ stage[a] = "committing"
    /\ Flushed("delivered", MsgOf(a))
    /\ tx' = NoActor
    /\ Returns(a)
    /\ UNCHANGED <<log, synced, inbox, held, child, crashes, target>>

ChainSurvives == tx' = NoActor

(* lead.flush() rejects: the caller throws, the event stays. *)
TransactionThrows(a) ==
    /\ tx = a
    /\ ChainSurvives
    /\ Throws(a)
    /\ UNCHANGED <<log, synced, inbox, held, child, crashes, target>>

-----------------------------------------------------------------------------
(* deliver, to the lead: the message is appended to the lead's log unless    *)
(* the log has it from an earlier attempt.                                   *)

InLeadInbox(m) == Has(log, "inbox", m)

DeliversToLead(a) ==
    /\ stage[a] = "delivering"
    /\ target[MsgOf(a)] = Lead
    /\ log' = IF InLeadInbox(MsgOf(a)) THEN log ELSE Append(log, Entry("inbox", MsgOf(a)))
    /\ Goes(a, "flushing")
    /\ UNCHANGED <<synced, inbox, held, child, tx, crashes, target>>

(* To a teammate: its child is alive, or restored and can be rebuilt. *)
DeliversToMember(a) ==
    LET c == target[MsgOf(a)]
    IN  /\ stage[a] = "delivering"
        /\ c \in Member
        /\ child[c] \in {"alive", "restored"}
        /\ child' = [child EXCEPT ![c] = "alive"]
        /\ inbox' = [inbox EXCEPT ![c] = Append(@, MsgOf(a))]
        /\ Goes(a, "flushing")
        /\ UNCHANGED <<log, synced, held, tx, crashes, target>>

(* No live child, or the rebuild fails: the message stays queued. *)
NotDelivered(a) ==
    /\ stage[a] = "delivering"
    /\ target[MsgOf(a)] \in Member
    /\ child[target[MsgOf(a)]] \in {"gone", "restored"}
    /\ Returns(a)
    /\ UNCHANGED <<log, synced, inbox, held, child, tx, crashes, target>>

(* What the target's disk has of the message. *)
Holds(t, m) ==
    IF t = Lead THEN Has(Synced, "inbox", m)
    ELSE \E i \in 1 .. held[t] : inbox[t][i] = m

(* mutant: the acknowledgement does not wait for the target's flush *)
NotHeld(m) == TRUE

Held(m) == Holds(target[m], m)

DeliveryFlushed(a) ==
    /\ stage[a] = "flushing"
    /\ Held(MsgOf(a))
    /\ Goes(a, "acking")
    /\ UNCHANGED <<log, synced, inbox, held, child, tx, crashes, target>>

(* The flush rejects, or the lead's lane does not admit the notification:    *)
(* deliver is false, the appended message stays where it is.                 *)
DeliveryFails(a) ==
    /\ stage[a] = "flushing"
    /\ Returns(a)
    /\ UNCHANGED <<log, synced, inbox, held, child, tx, crashes, target>>

(* mutant: a second delivered event of a message is let through *)
AlreadyDeliveredNever(m) == FALSE

AlreadyDelivered(m) == m \in Delivered(log)

Acks(a) ==
    /\ stage[a] = "acking"
    /\ tx = NoActor
    /\ \/ /\ AlreadyDelivered(MsgOf(a))
          /\ Throws(a)
          /\ UNCHANGED <<log, tx>>
       \/ /\ ~AlreadyDelivered(MsgOf(a))
          /\ log' = Append(log, Entry("delivered", MsgOf(a)))
          /\ tx' = a
          /\ Goes(a, "committing")
    /\ UNCHANGED <<synced, inbox, held, child, crashes, target>>

-----------------------------------------------------------------------------
(* recoverRoot, over a snapshot of each queue: of the lead's alone after     *)
(* publication, otherwise of each target's when the sweep comes to it.       *)
DrainStarts ==
    /\ mount = "publishing"
    /\ mount' = "draining"
    /\ todo' \in Snapshots(log, Lead)
    /\ UNCHANGED others
    /\ stage' = [stage EXCEPT ![Sweep] = "sweeping"]
    /\ UNCHANGED <<log, synced, inbox, held, child, tx, crashes, target>>

Skips(m) ==
    \/ m \in Delivered(log)
    \/ m \in Quiet /\ target[m] \in Member /\ child[target[m]] # "alive"

SweepTakes ==
    /\ stage[Sweep] = "sweeping"
    /\ todo # <<>>
    /\ \/ Skips(Head(todo)) /\ Returns(Sweep)
       \/ ~Skips(Head(todo)) /\ Goes(Sweep, "delivering")
    /\ UNCHANGED <<log, synced, inbox, held, child, tx, crashes, target>>

SweepTurns ==
    /\ stage[Sweep] = "sweeping"
    /\ todo = <<>>
    /\ \E t \in others :
          /\ todo' \in Snapshots(log, t)
          /\ others' = others \ {t}
    /\ UNCHANGED <<log, synced, inbox, held, child, tx, stage, mount, crashes, target>>

SweepEnds ==
    /\ stage[Sweep] = "sweeping"
    /\ todo = <<>> /\ others = {}
    /\ stage' = [stage EXCEPT ![Sweep] = "idle"]
    /\ mount' = IF mount = "mounting" THEN "publishing" ELSE "published"
    /\ UNCHANGED <<log, synced, inbox, held, child, tx, todo, others, crashes, target>>

-----------------------------------------------------------------------------
(* close_agent or its death ends a child; resume_agent brings it back. *)
ChildStops(c) ==
    /\ child[c] # "gone"
    /\ child' = [child EXCEPT ![c] = "gone"]
    /\ UNCHANGED <<log, synced, inbox, held, tx, stage, todo, others, mount, crashes, target>>

ChildResumes(c) ==
    /\ child[c] = "gone"
    /\ mount \in {"publishing", "draining", "published"}
    /\ child' = [child EXCEPT ![c] = "alive"]
    /\ UNCHANGED <<log, synced, inbox, held, tx, stage, todo, others, mount, crashes, target>>

(* What a restart finds of a log with n entries on disk. *)
Survives(s, n) == {SubSeq(s, 1, k) : k \in n .. Len(s)}

(* The process dies, or a mount that failed is tried again when its sends    *)
(* are over: the children are restored or not, the team is folded from the   *)
(* log and its sweep begins.                                                 *)
Restart ==
    /\ crashes < MaxCrashes
    /\ crashes' = crashes + 1
    /\ log' \in Survives(log, synced)
    /\ synced' = synced
    /\ inbox' \in [Member -> UNION {Survives(inbox[c], held[c]) : c \in Member}]
    /\ \A c \in Member : inbox'[c] \in Survives(inbox[c], held[c])
    /\ UNCHANGED <<held, target>>
    /\ child' \in [Member -> {"restored", "gone"}]
    /\ tx' = NoActor
    /\ stage' = [a \in Actor |-> IF a = Sweep THEN "sweeping"
                                 ELSE IF stage[a] \in Running THEN "failed" ELSE stage[a]]
    /\ todo' = <<>>
    /\ others' = {t \in Target : Queue(log', t) # {}}
    /\ mount' = "mounting"

Acts(a) ==
    \/ Acknowledged(a)
    \/ TransactionThrows(a)
    \/ DeliversToLead(a)
    \/ DeliversToMember(a)
    \/ NotDelivered(a)
    \/ DeliveryFlushed(a)
    \/ DeliveryFails(a)
    \/ Acks(a)

SendGoesOn(m) == SendQueues(m) \/ Queued(m) \/ Acts(m)

SweepGoesOn == DrainStarts \/ SweepTurns \/ SweepTakes \/ SweepEnds \/ Acts(Sweep)

Next ==
    \/ LogSyncs
    \/ \E c \in Member : InboxSyncs(c) \/ ChildStops(c) \/ ChildResumes(c)
    \/ \E m \in Msg : SendChecks(m) \/ SendGoesOn(m)
    \/ SweepGoesOn
    \/ Restart

(* Write-behinds write, flushes settle and promises run: whatever can go on, *)
(* goes on.                                                                  *)
Fairness ==
    /\ WF_vars(LogSyncs)
    /\ \A c \in Member : WF_vars(InboxSyncs(c))
    /\ \A m \in Msg : WF_vars(SendGoesOn(m))
    /\ WF_vars(SweepGoesOn)

Spec == Init /\ [][Next]_vars /\ Fairness

-----------------------------------------------------------------------------
TypeOK ==
    /\ target \in [Msg -> Target]
    /\ log \in Seq([kind : {"queued", "inbox", "delivered"}, msg : Msg])
    /\ synced \in 0 .. Len(log)
    /\ inbox \in [Member -> Seq(Msg)]
    /\ held \in [Member -> Nat] /\ \A c \in Member : held[c] <= Len(inbox[c])
    /\ child \in [Member -> {"alive", "restored", "gone"}]
    /\ tx \in Actor \cup {NoActor}
    /\ stage \in [Actor -> Running \cup Ended \cup {"idle", "sweeping"}]
    /\ todo \in Seq(Msg) /\ others \subseteq Target
    /\ mount \in {"mounting", "failed", "publishing", "draining", "published"}
    /\ crashes \in 0 .. MaxCrashes

(* A message acknowledged as delivered is on its target's disk: no restart   *)
(* can skip it and have it lost ("FLUSH BEFORE ACK", scheduler.ts:436-439).  *)
DeliveredIsHeld == \A m \in Delivered(log) : Holds(target[m], m)

(* A message whose sender was answered is in the queue every restart folds.  *)
AnsweredSurvives ==
    \A m \in Msg : stage[m] = "answered" => Has(Synced, "queued", m)

(* However sends interleave and wherever a restart cuts the log, no target   *)
(* has more than its limit of messages that are not delivered ("this in-fn   *)
(* check makes the limit atomic", mailbox.ts:57-62).                         *)
MailboxBounded == \A t \in Target : Cardinality(Pending(log, t)) <= MaxPending

(* Every prefix a restart may fold is one foldTeam accepts: no message is    *)
(* queued or delivered twice, none delivered that was not queued.            *)
LogReplays ==
    \A i, j \in DOMAIN log :
        /\ i < j /\ log[i].msg = log[j].msg => log[i].kind # log[j].kind \/ log[i].kind = "inbox"
        /\ log[j].kind = "delivered" => Has(SubSeq(log, 1, j), "queued", log[j].msg)

(* The lead reads a message once, however often its delivery was tried: by   *)
(* its send, by the mount sweep and by the sweep after publication.          *)
LeadReadsOnce ==
    \A m \in Msg : Cardinality({i \in DOMAIN log : log[i] = Entry("inbox", m)}) <= 1

(* Once a message is acknowledged nobody delivers it again.                  *)
Places(entries, e) == {i \in DOMAIN entries : entries[i] = e}
Copies(m) == IF target[m] = Lead THEN Cardinality(Places(log, Entry("inbox", m)))
                                 ELSE Cardinality(Places(inbox[target[m]], m))

DeliveredIsOver == [][\A m \in Delivered(log) : Copies(m)' <= Copies(m)]_vars

(* Every send returns or throws: a failed transaction does not hold up those *)
(* that wait behind it.                                                      *)
SendsEnd == \A m \in Msg : stage[m] \in Running ~> stage[m] \in Ended

(* A message kept queued because its teammate had no live child reaches it   *)
(* once the child is and stays alive: "recoverRoot re-delivers once the      *)
(* child is alive again (e.g. after resume_agent)" (scheduler.ts:405-407).   *)
ChildAlive(m) == target[m] \in Member /\ child[target[m]] = "alive"

ResumedChildGetsItsMail ==
    \A m \in Msg \ Quiet :
        [](stage[m] = "answered" => <>(~ChildAlive(m) \/ m \in Delivered(log)))
=============================================================================
