--------------------------- MODULE TeamMailboxProofs ---------------------------
(***************************************************************************)
(* Proofs about TeamMailbox for any number of messages, teammates and      *)
(* restarts, and any limit.                                                *)
(*                                                                         *)
(* The log half of the invariant is stated for every prefix of the log     *)
(* that a restart may fold; the stage half says what each send and the     *)
(* sweep already know to be in a log or on a disk.                         *)
(***************************************************************************)
EXTENDS TeamMailbox, FiniteSetTheorems, TLAPS

Entries == [kind : {"queued", "inbox", "delivered"}, msg : Msg]

LogTypes ==
    /\ target \in [Msg -> Target]
    /\ log \in Seq(Entries)
    /\ synced \in 0 .. Len(log)
    /\ todo \in Seq(Msg)
    /\ inbox \in [Member -> Seq(Msg)]
    /\ held \in [Member -> Nat] /\ \A c \in Member : held[c] <= Len(inbox[c])

StageTypes ==
    /\ child \in [Member -> {"alive", "restored", "gone"}]
    /\ tx \in Actor \cup {NoActor}
    /\ stage \in [Actor -> Running \cup Ended \cup {"idle", "sweeping"}]
    /\ mount \in {"mounting", "failed", "publishing", "draining", "published"}
    /\ crashes \in 0 .. MaxCrashes
    /\ stage[Sweep] \in Running => todo # <<>>
    /\ others \subseteq Target

(* No entry is ever repeated, and an acknowledgement follows its message.    *)
EntriesOnce == \A i, j \in DOMAIN log : log[i] = log[j] => i = j
AcksFollow ==
    \A j \in DOMAIN log : log[j].kind = "delivered" =>
        \E i \in 1 .. j : log[i] = Entry("queued", log[j].msg)

(* What a send and the sweep know of the queue.                              *)
QueueInv ==
    /\ \A m \in Msg : stage[m] \in {"idle", "checked"} => ~Has(log, "queued", m)
    /\ \A m \in Msg : stage[m] \in Running \ {"checked"} => Has(log, "queued", m)
    /\ \A i \in DOMAIN todo : Has(log, "queued", todo[i])

(* What is on the disks.                                                     *)
Sent == {"delivering", "flushing", "acking", "committing", "answered"}
SyncInv == \A m \in Msg : stage[m] \in Sent => Has(Synced, "queued", m)
HeldInv ==
    /\ \A m \in Delivered(log) : Holds(target[m], m)
    /\ \A a \in Actor : stage[a] = "acking" => Holds(target[MsgOf(a)], MsgOf(a))

(* The limit, on every prefix of the log.                                    *)
RoomInv ==
    \A k \in 0 .. Len(log), t \in Target :
        Cardinality(Pending(SubSeq(log, 1, k), t)) <= MaxPending

IInv == /\ LogTypes /\ StageTypes
        /\ EntriesOnce /\ AcksFollow /\ QueueInv /\ SyncInv /\ HeldInv /\ RoomInv

-----------------------------------------------------------------------------
(* Prefixes and appends. *)
LEMMA HasInPrefix ==
  ASSUME NEW S, NEW s \in Seq(S), NEW k \in 0 .. Len(s), NEW kind, NEW m
  PROVE  Has(SubSeq(s, 1, k), kind, m) <=> \E i \in 1 .. k : s[i] = Entry(kind, m)
<1>1. DOMAIN SubSeq(s, 1, k) = 1 .. k /\ \A i \in 1 .. k : SubSeq(s, 1, k)[i] = s[i]
  OBVIOUS
<1> QED
  BY <1>1 DEF Has

LEMMA HasInAppend ==
  ASSUME NEW S, NEW s \in Seq(S), NEW e \in S, NEW kind, NEW m
  PROVE  Has(Append(s, e), kind, m) <=> Has(s, kind, m) \/ e = Entry(kind, m)
<1>1. /\ DOMAIN Append(s, e) = 1 .. Len(s) + 1
      /\ \A i \in 1 .. Len(s) : Append(s, e)[i] = s[i]
      /\ Append(s, e)[Len(s) + 1] = e
      /\ DOMAIN s = 1 .. Len(s) /\ Len(s) \in Nat
  OBVIOUS
<1> QED
  BY <1>1 DEF Has

LEMMA EntryFacts ==
  ASSUME NEW kind \in {"queued", "inbox", "delivered"}, NEW m \in Msg
  PROVE  /\ Entry(kind, m) \in Entries
         /\ Entry(kind, m).kind = kind /\ Entry(kind, m).msg = m
  BY DEF Entry, Entries

(* A sweep's snapshot consists of queued messages.                           *)
LEMMA SnapshotFacts ==
  ASSUME NEW entries, NEW t, NEW s \in Snapshots(entries, t)
  PROVE  /\ s \in Seq(Msg)
         /\ \A i \in DOMAIN s : Has(entries, "queued", s[i]) /\ target[s[i]] = t
<1> DEFINE queue == Queue(entries, t)
<1>1. queue \subseteq Msg
  BY DEF Queue
<1>2. Cardinality(queue) \in Nat
  BY <1>1, MailboxAssumption, FS_Subset, FS_CardinalityType
<1>3. s \in [1 .. Cardinality(queue) -> queue]
  BY DEF Snapshots
<1>5. \A m \in queue : Has(entries, "queued", m) /\ target[m] = t
  BY DEF Queue
<1> HIDE DEF queue
<1>4. s \in Seq(Msg)
  BY <1>1, <1>2, <1>3
<1> QED
  BY <1>3, <1>4, <1>5

(* The log is kept, has an entry appended, or is cut behind what is on disk. *)
Kept == log' = log /\ synced' = synced
Grows(e) == e \in Entries /\ log' = Append(log, e) /\ synced' = synced
Cut(k) == k \in synced .. Len(log) /\ log' = SubSeq(log, 1, k) /\ synced' = synced
Saves == log' = log /\ synced' = Len(log)

LEMMA MsgOfType ==
  ASSUME LogTypes, StageTypes, NEW a \in Actor, stage[a] \in Running
  PROVE  MsgOf(a) \in Msg
<1>1. CASE a = Sweep
  BY <1>1 DEF MsgOf, LogTypes, StageTypes
<1>2. CASE a # Sweep
  BY <1>2 DEF MsgOf, Actor
<1> QED
  BY <1>1, <1>2

LEMMA TypesSplit == LogTypes /\ StageTypes => TypeOK
  BY DEF LogTypes, StageTypes, TypeOK, Entries

LEMMA InitIInv == Init => IInv
<1> SUFFICES ASSUME Init PROVE IInv
  OBVIOUS
<1> USE DEF Init
<1>1. <<>> \in Seq(Entries) /\ <<>> \in Seq(Msg) /\ Len(<<>>) = 0 /\ DOMAIN <<>> = {}
  OBVIOUS
<1>2. LogTypes
  BY <1>1 DEF LogTypes
<1>3. StageTypes
  BY MailboxAssumption DEF StageTypes, Actor, Running
<1>4. \A kind, m : ~Has(log, kind, m)
  BY <1>1 DEF Has
<1>5. QueueInv /\ EntriesOnce /\ AcksFollow
  BY <1>1, <1>4 DEF QueueInv, EntriesOnce, AcksFollow, Running, Actor
<1>6. SyncInv /\ HeldInv
  BY <1>4 DEF SyncInv, HeldInv, Sent, Delivered, Actor
<1>7. RoomInv
  <2>1. ASSUME NEW k \in 0 .. Len(log), NEW t \in Target PROVE Pending(SubSeq(log, 1, k), t) = {}
    <3>1. \A m : ~Has(SubSeq(log, 1, k), "queued", m)
      BY <1>1, HasInPrefix, <1>4 DEF Has
    <3> QED
      BY <3>1 DEF Pending, Queue
  <2>2. Cardinality({}) = 0 /\ 0 <= MaxPending
    BY FS_EmptySet, MailboxAssumption
  <2> QED
    BY <2>1, <2>2 DEF RoomInv
<1> QED
  BY <1>2, <1>3, <1>5, <1>6, <1>7 DEF IInv

-----------------------------------------------------------------------------
(* How the steps move the stages, the log and the sweep's list: everything   *)
(* but a restart.                                                            *)
LEMMA StepCases ==
  ASSUME [Next]_vars
  PROVE  \/ LogSyncs
         \/ \E c \in Member : InboxSyncs(c) \/ ChildStops(c) \/ ChildResumes(c)
         \/ \E m \in Msg : SendChecks(m) \/ SendQueues(m) \/ Queued(m)
         \/ \E a \in Actor : Acts(a)
         \/ DrainStarts \/ SweepTurns \/ SweepTakes \/ SweepEnds
         \/ Restart
         \/ UNCHANGED vars
  BY DEF Next, SendGoesOn, SweepGoesOn, Actor

(* The stages keep their types. *)
LEMMA StageTypeStep ==
  ASSUME LogTypes, StageTypes, [Next]_vars
  PROVE  StageTypes'
<1> USE MailboxAssumption DEF StageTypes
<1> DEFINE Stages == Running \cup Ended \cup {"idle", "sweeping"}
<1>1. CASE LogSyncs \/ UNCHANGED vars \/ \E c \in Member : InboxSyncs(c)
  BY <1>1 DEF LogSyncs, InboxSyncs, vars
<1>2. CASE \E c \in Member : ChildStops(c) \/ ChildResumes(c)
  BY <1>2 DEF ChildStops, ChildResumes
<1>3. ASSUME NEW m \in Msg, SendChecks(m) \/ SendQueues(m) \/ Queued(m)
      PROVE  StageTypes'
  BY <1>3 DEF SendChecks, SendQueues, Queued, Goes, Actor, Running, Ended
<1>4. ASSUME NEW a \in Actor, Acts(a)
      PROVE  StageTypes'
  <2>1. CASE Acknowledged(a)
    BY <1>4, <2>1 DEF Acknowledged, Returns, Running, Ended, Actor
  <2>2. CASE TransactionThrows(a)
    BY <1>4, <2>2 DEF TransactionThrows, ChainSurvives, Throws, Running, Ended, Actor
  <2>3. CASE DeliversToLead(a)
    BY <1>4, <2>3 DEF DeliversToLead, Goes, Running, Ended, Actor
  <2>4. CASE DeliversToMember(a)
    BY <1>4, <2>4 DEF DeliversToMember, Goes, Running, Ended, Actor
  <2>5. CASE NotDelivered(a)
    BY <1>4, <2>5 DEF NotDelivered, Returns, Running, Ended, Actor
  <2>6. CASE DeliveryFlushed(a)
    BY <1>4, <2>6 DEF DeliveryFlushed, Goes, Running, Ended, Actor
  <2>7. CASE DeliveryFails(a)
    BY <1>4, <2>7 DEF DeliveryFails, Returns, Running, Ended, Actor
  <2>8. CASE Acks(a)
    BY <1>4, <2>8 DEF Acks, Goes, Throws, Running, Ended, Actor
  <2> QED
    BY <1>4, <2>1, <2>2, <2>3, <2>4, <2>5, <2>6, <2>7, <2>8 DEF Acts
<1>5. CASE DrainStarts
  BY <1>5 DEF DrainStarts, Running, Ended, Actor
<1>6. CASE SweepTakes
  BY <1>6 DEF SweepTakes, Goes, Returns, Running, Ended, Actor
<1>7. CASE SweepTurns \/ SweepEnds
  BY <1>7 DEF SweepTurns, SweepEnds, Running, Ended, Actor
<1>8. CASE Restart
  <2>1. stage' \in [Actor -> Running \cup Ended \cup {"idle", "sweeping"}] /\ stage'[Sweep] \notin Running
    BY <1>8 DEF Restart, Running, Ended, Actor
  <2>2. crashes' \in 0 .. MaxCrashes
    BY <1>8 DEF Restart
  <2> QED
    BY <1>8, <2>1, <2>2 DEF Restart
<1> QED
  BY <1>1, <1>2, <1>3, <1>4, <1>5, <1>6, <1>7, <1>8, StepCases

(* A new entry: never written before, within the limit, acknowledged last.   *)
Fresh(e) ==
    /\ \A i \in DOMAIN log : log[i] # e
    /\ e.kind = "queued" => HasRoom(target[e.msg])
    /\ e.kind = "delivered" => Has(log, "queued", e.msg) /\ Holds(target[e.msg], e.msg)

LogMoves ==
    \/ Kept
    \/ Saves
    \/ \E k \in synced .. Len(log) : Cut(k)
    \/ \E e \in Entries : Grows(e) /\ Fresh(e)

(* What an actor that runs works on is queued. *)
LEMMA WorkIsQueued ==
  ASSUME LogTypes, StageTypes, QueueInv, NEW a \in Actor,
         stage[a] \in Running \ {"checked"}
  PROVE  MsgOf(a) \in Msg /\ Has(log, "queued", MsgOf(a))
<1>1. CASE a = Sweep
  <2>1. todo \in Seq(Msg) /\ todo # <<>>
    BY <1>1 DEF LogTypes, StageTypes
  <2>2. 1 \in DOMAIN todo /\ Head(todo) = todo[1] /\ todo[1] \in Msg
    BY <2>1
  <2> QED
    BY <1>1, <2>2 DEF MsgOf, QueueInv
<1>2. CASE a # Sweep
  BY <1>2 DEF MsgOf, Actor, QueueInv
<1> QED
  BY <1>1, <1>2

LEMMA LogStep ==
  ASSUME IInv, [Next]_vars
  PROVE  target' = target /\ LogMoves
<1> USE DEF IInv
<1>1. CASE \/ LogSyncs \/ UNCHANGED vars \/ DrainStarts \/ SweepTurns \/ SweepTakes \/ SweepEnds
           \/ \E c \in Member : InboxSyncs(c) \/ ChildStops(c) \/ ChildResumes(c)
  BY <1>1 DEF LogSyncs, vars, DrainStarts, SweepTurns, SweepTakes, SweepEnds, InboxSyncs,
              ChildStops, ChildResumes, LogMoves, Kept, Saves
<1>2. ASSUME NEW m \in Msg, SendChecks(m) \/ Queued(m)
      PROVE  target' = target /\ LogMoves
  BY <1>2 DEF SendChecks, Queued, LogMoves, Kept
<1>3. ASSUME NEW m \in Msg, SendQueues(m)
      PROVE  target' = target /\ LogMoves
  <2>1. CASE ~StillHasRoom(target[m])
    BY <1>3, <2>1 DEF SendQueues, LogMoves, Kept
  <2>2. CASE StillHasRoom(target[m])
    <3>1. /\ log' = Append(log, Entry("queued", m)) /\ synced' = synced /\ target' = target
          /\ stage[m] = "checked"
      BY <1>3, <2>2 DEF SendQueues
    <3>2. ~Has(log, "queued", m)
      BY <3>1 DEF QueueInv
    <3>3. Fresh(Entry("queued", m))
      BY <3>2, <2>2, EntryFacts DEF Fresh, Has, StillHasRoom
    <3> QED
      BY <3>1, <3>3, EntryFacts DEF LogMoves, Grows
  <2> QED
    BY <2>1, <2>2
<1>4. ASSUME NEW a \in Actor, Acts(a)
      PROVE  target' = target /\ LogMoves
  <2>1. CASE \/ Acknowledged(a) \/ TransactionThrows(a) \/ DeliversToMember(a)
             \/ NotDelivered(a) \/ DeliveryFlushed(a) \/ DeliveryFails(a)
    BY <2>1 DEF Acknowledged, TransactionThrows, DeliversToMember, NotDelivered,
                DeliveryFlushed, DeliveryFails, LogMoves, Kept
  <2>2. CASE DeliversToLead(a)
    <3>1. MsgOf(a) \in Msg
      BY <2>2, MsgOfType DEF DeliversToLead, Running
    <3>2. CASE InLeadInbox(MsgOf(a))
      BY <2>2, <3>2 DEF DeliversToLead, LogMoves, Kept
    <3>3. CASE ~InLeadInbox(MsgOf(a))
      <4>1. Fresh(Entry("inbox", MsgOf(a)))
        BY <3>1, <3>3, EntryFacts DEF Fresh, InLeadInbox, Has
      <4> QED
        BY <2>2, <3>1, <3>3, <4>1, EntryFacts DEF DeliversToLead, LogMoves, Grows
    <3> QED
      BY <3>2, <3>3
  <2>3. CASE Acks(a)
    <3>1. stage[a] = "acking" /\ synced' = synced /\ target' = target
      BY <2>3 DEF Acks
    <3>2. MsgOf(a) \in Msg /\ Has(log, "queued", MsgOf(a))
      BY <3>1, WorkIsQueued DEF Running
    <3>3. Holds(target[MsgOf(a)], MsgOf(a))
      BY <3>1 DEF HeldInv
    <3>4. CASE AlreadyDelivered(MsgOf(a))
      BY <2>3, <3>4 DEF Acks, LogMoves, Kept
    <3>5. CASE ~AlreadyDelivered(MsgOf(a))
      <4>1. ~Has(log, "delivered", MsgOf(a))
        BY <3>2, <3>5 DEF AlreadyDelivered, Delivered
      <4>2. Fresh(Entry("delivered", MsgOf(a)))
        BY <3>2, <3>3, <4>1, EntryFacts DEF Fresh, Has
      <4> QED
        BY <2>3, <3>1, <3>2, <3>5, <4>2, EntryFacts DEF Acks, LogMoves, Grows
    <3> QED
      BY <3>4, <3>5
  <2> QED
    BY <1>4, <2>1, <2>2, <2>3 DEF Acts
<1>5. CASE Restart
  <2>1. PICK k \in synced .. Len(log) : log' = SubSeq(log, 1, k)
    BY <1>5 DEF Restart, Survives
  <2> QED
    BY <1>5, <2>1 DEF Restart, LogMoves, Cut
<1> QED
  BY <1>1, <1>2, <1>3, <1>4, <1>5, StepCases

(* Where the entries of the next log are. *)
LEMMA NextLog ==
  ASSUME LogTypes, LogMoves
  PROVE  /\ log' \in Seq(Entries)
         /\ synced' \in 0 .. Len(log')
         /\ synced <= synced'
         /\ \A i \in 1 .. synced : log'[i] = log[i]
<1>0. log \in Seq(Entries) /\ synced \in 0 .. Len(log) /\ Len(log) \in Nat
  BY DEF LogTypes
<1>1. CASE Kept \/ Saves
  BY <1>0, <1>1 DEF Kept, Saves
<1>2. ASSUME NEW k \in synced .. Len(log), Cut(k)
      PROVE  /\ log' \in Seq(Entries) /\ synced' \in 0 .. Len(log') /\ synced <= synced'
             /\ \A i \in 1 .. synced : log'[i] = log[i]
  <2>1. log' = SubSeq(log, 1, k) /\ synced' = synced
    BY <1>2 DEF Cut
  <2>2. /\ SubSeq(log, 1, k) \in Seq(Entries) /\ Len(SubSeq(log, 1, k)) = k
        /\ \A i \in 1 .. k : SubSeq(log, 1, k)[i] = log[i]
    BY <1>0
  <2> QED
    BY <1>0, <2>1, <2>2
<1>3. ASSUME NEW e \in Entries, Grows(e)
      PROVE  /\ log' \in Seq(Entries) /\ synced' \in 0 .. Len(log') /\ synced <= synced'
             /\ \A i \in 1 .. synced : log'[i] = log[i]
  BY <1>0, <1>3 DEF Grows
<1> QED
  BY <1>1, <1>2, <1>3 DEF LogMoves

(* What is on a disk stays there. *)
LEMMA SyncedKeeps ==
  ASSUME LogTypes, LogMoves, NEW kind, NEW m, Has(Synced, kind, m)
  PROVE  Has(Synced, kind, m)' /\ Has(log', kind, m)
<1>1. PICK i \in 1 .. synced : log[i] = Entry(kind, m)
  BY HasInPrefix DEF LogTypes, Synced
<1>2. i \in 1 .. synced' /\ log'[i] = Entry(kind, m) /\ i \in DOMAIN log'
  BY <1>1, NextLog DEF LogTypes
<1>3. Has(SubSeq(log', 1, synced'), kind, m)
  BY <1>2, NextLog, HasInPrefix
<1> QED
  BY <1>2, <1>3 DEF Has, Synced

(* The teammates' logs are kept, grow, or are cut behind what is on disk.    *)
InboxMoves ==
    \/ inbox' = inbox /\ held' = held
    \/ \E c \in Member : inbox' = inbox /\ held' = [held EXCEPT ![c] = Len(inbox[c])]
    \/ \E c \in Member, m \in Msg :
          inbox' = [inbox EXCEPT ![c] = Append(@, m)] /\ held' = held
    \/ /\ inbox' \in [Member -> UNION {Survives(inbox[c], held[c]) : c \in Member}]
       /\ \A c \in Member : inbox'[c] \in Survives(inbox[c], held[c])
       /\ held' = held

LEMMA InboxStep ==
  ASSUME LogTypes, StageTypes, [Next]_vars
  PROVE  InboxMoves
<1>1. CASE \/ LogSyncs \/ UNCHANGED vars \/ DrainStarts \/ SweepTurns \/ SweepTakes \/ SweepEnds
           \/ \E c \in Member : InboxSyncs(c) \/ ChildStops(c) \/ ChildResumes(c)
           \/ \E m \in Msg : SendChecks(m) \/ SendQueues(m) \/ Queued(m)
  BY <1>1 DEF LogSyncs, vars, DrainStarts, SweepTurns, SweepTakes, SweepEnds, InboxSyncs, ChildStops,
              ChildResumes, SendChecks, SendQueues, Queued, InboxMoves
<1>2. ASSUME NEW a \in Actor, Acts(a)
      PROVE  InboxMoves
  <2>1. CASE DeliversToMember(a)
    BY <2>1, MsgOfType DEF DeliversToMember, InboxMoves, Running
  <2>2. CASE ~DeliversToMember(a)
    BY <1>2, <2>2 DEF Acts, Acknowledged, TransactionThrows, NotDelivered, DeliveryFlushed,
                      DeliveryFails, DeliversToLead, Acks, InboxMoves
  <2> QED
    BY <2>1, <2>2
<1>3. CASE Restart
  BY <1>3 DEF Restart, InboxMoves
<1> QED
  BY <1>1, <1>2, <1>3, StepCases

LEMMA InboxKeeps ==
  ASSUME LogTypes, InboxMoves
  PROVE  /\ inbox' \in [Member -> Seq(Msg)]
         /\ held' \in [Member -> Nat]
         /\ \A c \in Member : /\ held'[c] <= Len(inbox'[c])
                              /\ held[c] <= held'[c]
                              /\ \A i \in 1 .. held[c] : inbox'[c][i] = inbox[c][i]
<1>0. /\ inbox \in [Member -> Seq(Msg)] /\ held \in [Member -> Nat]
      /\ \A c \in Member : held[c] <= Len(inbox[c])
  BY DEF LogTypes
<1>1. CASE inbox' = inbox /\ held' = held
  BY <1>0, <1>1
<1>2. CASE \E c \in Member : inbox' = inbox /\ held' = [held EXCEPT ![c] = Len(inbox[c])]
  BY <1>0, <1>2
<1>3. CASE \E c \in Member, m \in Msg :
             inbox' = [inbox EXCEPT ![c] = Append(@, m)] /\ held' = held
  BY <1>0, <1>3
<1>4. CASE /\ inbox' \in [Member -> UNION {Survives(inbox[c], held[c]) : c \in Member}]
           /\ \A c \in Member : inbox'[c] \in Survives(inbox[c], held[c])
           /\ held' = held
  <2>1. ASSUME NEW c \in Member
        PROVE  /\ inbox'[c] \in Seq(Msg) /\ held'[c] <= Len(inbox'[c])
               /\ \A i \in 1 .. held[c] : inbox'[c][i] = inbox[c][i]
    <3>1. PICK k \in held[c] .. Len(inbox[c]) : inbox'[c] = SubSeq(inbox[c], 1, k)
      BY <1>4 DEF Survives
    <3>2. inbox[c] \in Seq(Msg) /\ held[c] \in Nat
      BY <1>0
    <3> QED
      BY <1>4, <3>1, <3>2
  <2> DEFINE Pieces == UNION {Survives(inbox[c], held[c]) : c \in Member}
  <2>2. inbox' \in [Member -> Pieces]
    BY <1>4
  <2> HIDE DEF Pieces
  <2>3. inbox' \in [Member -> Seq(Msg)]
    BY <2>1, <2>2
  <2>4. held' = held
    BY <1>4
  <2>5. held' \in [Member -> Nat] /\ \A c \in Member : held[c] <= held'[c]
    BY <1>0, <2>4
  <2> QED
    BY <2>1, <2>3, <2>5
<1> QED
  BY <1>1, <1>2, <1>3, <1>4 DEF InboxMoves

LEMMA HoldsKeeps ==
  ASSUME LogTypes, LogMoves, InboxMoves, NEW t \in Target, NEW m, Holds(t, m)
  PROVE  Holds(t, m)'
<1>1. CASE t = Lead
  BY <1>1, SyncedKeeps DEF Holds
<1>2. CASE t # Lead
  <2>1. t \in Member
    BY <1>2 DEF Target
  <2>2. PICK i \in 1 .. held[t] : inbox[t][i] = m
    BY <1>2 DEF Holds
  <2>3. i \in 1 .. held'[t] /\ inbox'[t][i] = m
    BY <2>1, <2>2, InboxKeeps DEF LogTypes
  <2> QED
    BY <1>2, <2>3 DEF Holds
<1> QED
  BY <1>1, <1>2

-----------------------------------------------------------------------------
(* The log half of the invariant. *)
LEMMA LogHalf ==
  ASSUME LogTypes, LogMoves, EntriesOnce, AcksFollow
  PROVE  EntriesOnce' /\ AcksFollow'
<1>0. log \in Seq(Entries) /\ synced \in 0 .. Len(log) /\ Len(log) \in Nat
  BY DEF LogTypes
<1>1. CASE Kept \/ Saves
  BY <1>1 DEF Kept, Saves, EntriesOnce, AcksFollow
<1>2. ASSUME NEW k \in synced .. Len(log), Cut(k)
      PROVE  EntriesOnce' /\ AcksFollow'
  <2>1. /\ DOMAIN log' = 1 .. k /\ \A i \in 1 .. k : log'[i] = log[i]
        /\ DOMAIN log = 1 .. Len(log) /\ k <= Len(log) /\ k \in Nat
    BY <1>0, <1>2 DEF Cut
  <2> QED
    BY <2>1, <1>0 DEF EntriesOnce, AcksFollow
<1>3. ASSUME NEW e \in Entries, Grows(e), Fresh(e)
      PROVE  EntriesOnce' /\ AcksFollow'
  <2>1. /\ DOMAIN log' = 1 .. Len(log) + 1 /\ \A i \in 1 .. Len(log) : log'[i] = log[i]
        /\ log'[Len(log) + 1] = e /\ DOMAIN log = 1 .. Len(log)
    BY <1>0, <1>3 DEF Grows
  <2>2. EntriesOnce'
    BY <2>1, <1>0, <1>3 DEF EntriesOnce, Fresh
  <2>3. ASSUME NEW j \in DOMAIN log', log'[j].kind = "delivered"
        PROVE  \E i \in 1 .. j : log'[i] = Entry("queued", log'[j].msg)
    <3>1. CASE j = Len(log) + 1
      <4>1. PICK i \in DOMAIN log : log[i] = Entry("queued", e.msg)
        BY <1>3, <2>1, <2>3, <3>1 DEF Fresh, Has
      <4> QED
        BY <1>0, <2>1, <3>1, <4>1
    <3>2. CASE j # Len(log) + 1
      BY <1>0, <2>1, <2>3, <3>2 DEF AcksFollow
    <3> QED
      BY <3>1, <3>2
  <2> QED
    BY <2>2, <2>3 DEF AcksFollow
<1> QED
  BY <1>1, <1>2, <1>3 DEF LogMoves

(* The queue of a prefix. *)
LEMMA PendingOfPrefix ==
  ASSUME NEW s \in Seq(Entries), NEW k \in 0 .. Len(s), NEW t, NEW m
  PROVE  m \in Pending(SubSeq(s, 1, k), t) <=>
            /\ m \in Msg /\ target[m] = t
            /\ \E i \in 1 .. k : s[i] = Entry("queued", m)
            /\ ~\E i \in 1 .. k : s[i] = Entry("delivered", m)
  BY HasInPrefix DEF Pending, Queue, Delivered

LEMMA WholeLog ==
  ASSUME NEW s \in Seq(Entries)
  PROVE  SubSeq(s, 1, Len(s)) = s /\ Len(s) \in 0 .. Len(s)
  OBVIOUS

LEMMA PendingFinite ==
  ASSUME NEW s, NEW t
  PROVE  IsFiniteSet(Pending(s, t)) /\ Cardinality(Pending(s, t)) \in Nat
  BY MailboxAssumption, FS_Subset, FS_CardinalityType DEF Pending, Queue

LEMMA RoomStep ==
  ASSUME LogTypes, LogMoves, target' = target, RoomInv
  PROVE  RoomInv'
<1>0. log \in Seq(Entries) /\ synced \in 0 .. Len(log) /\ Len(log) \in Nat
  BY DEF LogTypes
<1>00. MaxPending \in Nat
  BY MailboxAssumption
<1>1. CASE Kept \/ Saves
  BY <1>1 DEF Kept, Saves, RoomInv, Pending, Queue, Delivered
<1> DEFINE P(s, k, t) == Pending(SubSeq(s, 1, k), t)
<1>2. ASSUME NEW j \in synced .. Len(log), Cut(j)
      PROVE  RoomInv'
  <2>1. ASSUME NEW k \in 0 .. Len(log'), NEW t \in Target
        PROVE  Cardinality(P(log, k, t)') <= MaxPending
    <3>1. k \in 0 .. Len(log) /\ SubSeq(log', 1, k) = SubSeq(log, 1, k)
      BY <1>0, <1>2 DEF Cut
    <3> QED
      BY <3>1 DEF RoomInv, Pending, Queue, Delivered
  <2> QED
    BY <2>1 DEF RoomInv
<1>3. ASSUME NEW e \in Entries, Grows(e), Fresh(e)
      PROVE  RoomInv'
  <2>1. /\ DOMAIN log' = 1 .. Len(log) + 1 /\ \A i \in 1 .. Len(log) : log'[i] = log[i]
        /\ log'[Len(log) + 1] = e /\ log' \in Seq(Entries) /\ Len(log') = Len(log) + 1
    BY <1>0, <1>3 DEF Grows
  <2>2. ASSUME NEW k \in 0 .. Len(log'), NEW t \in Target
        PROVE  Cardinality(Pending(SubSeq(log', 1, k), t)) <= MaxPending
    <3>1. CASE k <= Len(log)
      <4>1. k \in 0 .. Len(log) /\ SubSeq(log', 1, k) = SubSeq(log, 1, k)
        BY <1>0, <2>1, <3>1
      <4> QED
        BY <4>1 DEF RoomInv
    <3>2. CASE k = Len(log) + 1
      <4> DEFINE old == Pending(SubSeq(log, 1, Len(log)), t)
                 new == Pending(SubSeq(log', 1, k), t)
      <4>1. IsFiniteSet(old) /\ Cardinality(old) \in Nat /\ Cardinality(old) <= MaxPending
        BY <1>0, PendingFinite DEF RoomInv
      <4>2. ASSUME NEW m \in new PROVE m \in old \/ e = Entry("queued", m)
        BY <1>0, <2>1, <2>2, <3>2, <4>2, PendingOfPrefix
      <4>3. CASE e.kind = "queued" /\ target[e.msg] = t
        <5>1. HasRoom(t)
          BY <1>3, <4>3 DEF Fresh
        <5>2. Cardinality(old) < MaxPending
          BY <1>0, <5>1, WholeLog DEF HasRoom
        <5>3. new \subseteq old \cup {e.msg}
          BY <4>2 DEF Entry
        <5> HIDE DEF old, new
        <5>4. /\ IsFiniteSet(old \cup {e.msg})
              /\ Cardinality(old \cup {e.msg}) \in Nat
              /\ Cardinality(old \cup {e.msg}) <= Cardinality(old) + 1
          BY <4>1, FS_AddElement, FS_CardinalityType
        <5>5. Cardinality(new) <= Cardinality(old \cup {e.msg}) /\ Cardinality(new) \in Nat
          BY <5>3, <5>4, FS_Subset, FS_CardinalityType
        <5>6. Cardinality(new) <= MaxPending
          BY <1>00, <4>1, <5>2, <5>4, <5>5
        <5> QED
          BY <5>6 DEF new
      <4>4. CASE ~(e.kind = "queued" /\ target[e.msg] = t)
        <5>0. \A m \in new : target[m] = t
          BY DEF Pending, Queue
        <5>1. new \subseteq old
          BY <4>2, <4>4, <5>0 DEF Entry
        <5> HIDE DEF old, new
        <5>2. Cardinality(new) <= Cardinality(old) /\ Cardinality(new) \in Nat
          BY <4>1, <5>1, FS_Subset, FS_CardinalityType
        <5>3. Cardinality(new) <= MaxPending
          BY <1>00, <4>1, <5>2
        <5> QED
          BY <5>3 DEF new
      <4> QED
        BY <4>3, <4>4
    <3> QED
      BY <1>0, <2>1, <2>2, <3>1, <3>2
  <2> QED
    BY <2>2 DEF RoomInv, Pending, Queue, Delivered
<1> QED
  BY <1>1, <1>2, <1>3 DEF LogMoves

-----------------------------------------------------------------------------
(* Which messages the next log has queued or acknowledged. *)
LEMMA NextHas ==
  ASSUME LogTypes, LogMoves, NEW kind, NEW m, Has(log', kind, m)
  PROVE  \/ Has(log, kind, m)
         \/ Entry(kind, m) \in Entries /\ Grows(Entry(kind, m)) /\ Fresh(Entry(kind, m))
<1>0. log \in Seq(Entries) /\ synced \in 0 .. Len(log) /\ Len(log) \in Nat
  BY DEF LogTypes
<1>1. CASE Kept \/ Saves
  BY <1>1 DEF Kept, Saves
<1>2. ASSUME NEW k \in synced .. Len(log), Cut(k)
      PROVE  Has(log, kind, m)
  BY <1>0, <1>2 DEF Cut, Has
<1>3. ASSUME NEW e \in Entries, Grows(e), Fresh(e)
      PROVE  Has(log, kind, m) \/ e = Entry(kind, m)
  BY <1>0, <1>3, HasInAppend DEF Grows
<1> QED
  BY <1>1, <1>2, <1>3 DEF LogMoves

(* Only a restart takes entries away. *)
LEMMA HasKeeps ==
  ASSUME LogTypes, Kept \/ Saves \/ \E e \in Entries : Grows(e), NEW kind, NEW m,
         Has(log, kind, m)
  PROVE  Has(log', kind, m)
<1>1. CASE Kept \/ Saves
  BY <1>1 DEF Kept, Saves
<1>2. ASSUME NEW e \in Entries, Grows(e)
      PROVE  Has(log', kind, m)
  <2>1. log \in Seq(Entries) /\ log' = Append(log, e)
    BY <1>2 DEF LogTypes, Grows
  <2> QED
    BY <2>1, HasInAppend
<1> QED
  BY <1>1, <1>2

LEMMA RunsOn ==
  ASSUME LogTypes, StageTypes, [Next]_vars, ~Restart, IInv
  PROVE  Kept \/ Saves \/ \E e \in Entries : Grows(e)
<1>1. CASE \/ LogSyncs \/ UNCHANGED vars \/ DrainStarts \/ SweepTurns \/ SweepTakes \/ SweepEnds
           \/ \E c \in Member : InboxSyncs(c) \/ ChildStops(c) \/ ChildResumes(c)
  BY <1>1 DEF LogSyncs, vars, DrainStarts, SweepTurns, SweepTakes, SweepEnds, InboxSyncs,
              ChildStops, ChildResumes, Kept, Saves
<1>2. ASSUME NEW m \in Msg, SendChecks(m) \/ Queued(m) \/ SendQueues(m)
      PROVE  Kept \/ \E e \in Entries : Grows(e)
  BY <1>2, EntryFacts DEF SendChecks, Queued, SendQueues, Kept, Grows
<1>3. ASSUME NEW a \in Actor, Acts(a)
      PROVE  Kept \/ \E e \in Entries : Grows(e)
  <2>1. CASE DeliversToLead(a) \/ Acks(a)
    <3>1. MsgOf(a) \in Msg
      BY <2>1, MsgOfType DEF DeliversToLead, Acks, Running
    <3> QED
      BY <2>1, <3>1, EntryFacts DEF DeliversToLead, Acks, Kept, Grows
  <2>2. CASE ~(DeliversToLead(a) \/ Acks(a))
    BY <1>3, <2>2 DEF Acts, Acknowledged, TransactionThrows, NotDelivered, DeliveryFlushed,
                      DeliveryFails, DeliversToMember, Kept
  <2> QED
    BY <2>1, <2>2
<1> QED
  BY <1>1, <1>2, <1>3, StepCases

(* Only its own send queues a message. *)
LEMMA OwnSendQueues ==
  ASSUME LogTypes, StageTypes, [Next]_vars, NEW m \in Msg, Grows(Entry("queued", m))
  PROVE  SendQueues(m) /\ stage'[m] = "queueing"
<1>0. /\ log \in Seq(Entries) /\ Len(log) \in Nat
      /\ log' = Append(log, Entry("queued", m)) /\ Entry("queued", m) \in Entries
  BY DEF LogTypes, Grows
<1>1. /\ log' # log /\ Len(log') = Len(log) + 1
      /\ \A e \in Entries : log' = Append(log, e) => e = Entry("queued", m)
  BY <1>0
<1>2. CASE \/ LogSyncs \/ UNCHANGED vars \/ DrainStarts \/ SweepTurns \/ SweepTakes \/ SweepEnds
           \/ \E c \in Member : InboxSyncs(c) \/ ChildStops(c) \/ ChildResumes(c)
           \/ \E n \in Msg : SendChecks(n) \/ Queued(n)
  BY <1>1, <1>2 DEF LogSyncs, vars, DrainStarts, SweepTurns, SweepTakes, SweepEnds, InboxSyncs,
                    ChildStops, ChildResumes, SendChecks, Queued
<1>3. ASSUME NEW n \in Msg, SendQueues(n)
      PROVE  SendQueues(m) /\ stage'[m] = "queueing"
  <2>1. log' = Append(log, Entry("queued", n)) /\ stage' = [stage EXCEPT ![n] = "queueing"]
    BY <1>1, <1>3 DEF SendQueues, Goes
  <2>2. Entry("queued", n) = Entry("queued", m)
    BY <1>1, <2>1, EntryFacts
  <2>3. n = m
    BY <2>2, EntryFacts
  <2> QED
    BY <1>3, <2>1, <2>3 DEF StageTypes, Actor
<1>4. ASSUME NEW a \in Actor, Acts(a)
      PROVE  FALSE
  <2>1. CASE DeliversToLead(a) \/ Acks(a)
    <3>1. MsgOf(a) \in Msg
      BY <2>1, MsgOfType DEF DeliversToLead, Acks, Running
    <3>2. PICK kind \in {"inbox", "delivered"} : log' = Append(log, Entry(kind, MsgOf(a)))
      BY <1>1, <2>1 DEF DeliversToLead, Acks
    <3> QED
      BY <1>1, <3>1, <3>2, EntryFacts
  <2>2. CASE ~(DeliversToLead(a) \/ Acks(a))
    BY <1>1, <1>4, <2>2 DEF Acts, Acknowledged, TransactionThrows, NotDelivered,
                            DeliveryFlushed, DeliveryFails, DeliversToMember
  <2> QED
    BY <2>1, <2>2
<1>5. CASE Restart
  <2>1. PICK k \in synced .. Len(log) : log' = SubSeq(log, 1, k)
    BY <1>5 DEF Restart, Survives
  <2>2. Len(log') <= Len(log)
    BY <1>0, <2>1 DEF LogTypes
  <2> QED
    BY <1>0, <1>1, <2>2
<1> QED
  BY <1>2, <1>3, <1>4, <1>5, StepCases

(* How the stages of a send go on.  A restart ends those that run. *)
LEMMA StageSteps ==
  ASSUME IInv, [Next]_vars, NEW m \in Msg
  PROVE  /\ stage'[m] \in {"idle", "checked"} => stage[m] \in {"idle", "checked"}
         /\ stage'[m] \in Running \ {"checked"} =>
               ~Restart /\ (stage[m] \in Running \ {"checked"} \/ SendQueues(m))
         /\ stage'[m] \in Sent => stage[m] \in Sent \/ Flushed("queued", m)
<1> DEFINE Steps == /\ stage'[m] \in {"idle", "checked"} => stage[m] \in {"idle", "checked"}
                    /\ stage'[m] \in Running \ {"checked"} =>
                          stage[m] \in Running \ {"checked"} \/ SendQueues(m)
                    /\ stage'[m] \in Sent => stage[m] \in Sent \/ Flushed("queued", m)
<1>0. stage \in [Actor -> Running \cup Ended \cup {"idle", "sweeping"}] /\ m \in Actor /\ m # Sweep
  BY MailboxAssumption DEF IInv, StageTypes, Actor
<1>1. ASSUME \/ LogSyncs \/ UNCHANGED vars
             \/ \E c \in Member : InboxSyncs(c) \/ ChildStops(c) \/ ChildResumes(c)
      PROVE  Steps
  BY <1>1 DEF LogSyncs, vars, InboxSyncs, ChildStops, ChildResumes
<1>2. ASSUME DrainStarts \/ SweepTurns \/ SweepTakes \/ SweepEnds
      PROVE  Steps
  BY <1>0, <1>2 DEF DrainStarts, SweepTurns, SweepTakes, SweepEnds, Goes, Returns
<1>3. ASSUME NEW n \in Msg, SendChecks(n) \/ SendQueues(n) \/ Queued(n)
      PROVE  Steps
  <2>1. CASE n = m
    BY <1>0, <1>3, <2>1 DEF SendChecks, SendQueues, Queued, Goes, Running, Sent
  <2>2. CASE n # m
    BY <1>0, <1>3, <2>2 DEF SendChecks, SendQueues, Queued, Goes
  <2> QED
    BY <2>1, <2>2
<1>4. ASSUME NEW a \in Actor, Acts(a)
      PROVE  Steps
  <2>1. CASE a = m
    <3>1. CASE Acknowledged(a) \/ NotDelivered(a) \/ DeliveryFails(a)
      BY <1>0, <2>1, <3>1 DEF Acknowledged, NotDelivered, DeliveryFails, Returns, Running, Sent
    <3>2. CASE TransactionThrows(a)
      BY <1>0, <2>1, <3>2 DEF TransactionThrows, Throws, Running, Sent
    <3>3. CASE DeliversToLead(a) \/ DeliversToMember(a) \/ DeliveryFlushed(a)
      BY <1>0, <2>1, <3>3 DEF DeliversToLead, DeliversToMember, DeliveryFlushed, Goes, Running, Sent
    <3>4. CASE Acks(a)
      BY <1>0, <2>1, <3>4 DEF Acks, Throws, Goes, Running, Sent
    <3> QED
      BY <1>4, <3>1, <3>2, <3>3, <3>4 DEF Acts
  <2>2. CASE a # m
    BY <1>0, <1>4, <2>2 DEF Acts, Acknowledged, NotDelivered, DeliveryFails, TransactionThrows,
          DeliversToLead, DeliversToMember, DeliveryFlushed, Acks, Returns, Throws, Goes
  <2> QED
    BY <2>1, <2>2
<1>5. ASSUME Restart
      PROVE  Steps
  BY <1>0, <1>5 DEF Restart, Running, Sent
<1>6. Restart => stage'[m] \notin Running
  BY <1>0 DEF Restart, Running
<1> QED
  BY <1>1, <1>2, <1>3, <1>4, <1>5, <1>6, StepCases

(* The sweep's list: kept, shortened, dropped, or a new snapshot.            *)
LEMMA TodoStep ==
  ASSUME LogTypes, StageTypes, [Next]_vars
  PROVE  \/ todo' = todo
         \/ todo # <<>> /\ todo' = Tail(todo)
         \/ todo' = <<>>
         \/ log' = log /\ todo' \in Snapshots(log, Lead)
         \/ SweepTurns
<1>1. CASE \/ LogSyncs \/ UNCHANGED vars \/ SweepEnds
           \/ \E c \in Member : InboxSyncs(c) \/ ChildStops(c) \/ ChildResumes(c)
           \/ \E m \in Msg : SendChecks(m) \/ SendQueues(m) \/ Queued(m)
  BY <1>1 DEF LogSyncs, vars, SweepEnds, InboxSyncs, ChildStops, ChildResumes,
              SendChecks, SendQueues, Queued, Goes
<1>2. CASE DrainStarts \/ SweepTakes \/ Restart
  BY <1>2 DEF DrainStarts, SweepTakes, Restart, Goes, Returns
<1>3. ASSUME NEW a \in Actor, Acts(a)
      PROVE  \/ todo' = todo
             \/ todo # <<>> /\ todo' = Tail(todo)
             \/ todo' = <<>>
  <2>2. CASE Acknowledged(a) \/ NotDelivered(a) \/ DeliveryFails(a)
    BY <2>2 DEF Acknowledged, NotDelivered, DeliveryFails, Returns, StageTypes, Running
  <2>3. CASE TransactionThrows(a) \/ Acks(a)
    BY <2>3 DEF TransactionThrows, Acks, Throws, Goes
  <2>4. CASE DeliversToLead(a) \/ DeliversToMember(a) \/ DeliveryFlushed(a)
    BY <2>4 DEF DeliversToLead, DeliversToMember, DeliveryFlushed, Goes
  <2> QED
    BY <1>3, <2>2, <2>3, <2>4 DEF Acts
<1> QED
  BY <1>1, <1>2, <1>3, StepCases

LEMMA QueueStep ==
  ASSUME IInv, LogTypes, StageTypes, QueueInv, LogMoves, [Next]_vars
  PROVE  QueueInv'
<1>1. ASSUME NEW m \in Msg, stage'[m] \in {"idle", "checked"}
      PROVE  ~Has(log', "queued", m)
  <2>1. ~Has(log, "queued", m)
    BY <1>1, StageSteps DEF QueueInv
  <2>2. ~Grows(Entry("queued", m))
    BY <1>1, OwnSendQueues
  <2> QED
    BY <2>1, <2>2, NextHas
<1>2. ASSUME NEW m \in Msg, stage'[m] \in Running \ {"checked"}
      PROVE  Has(log', "queued", m)
  <2>1. ~Restart /\ (stage[m] \in Running \ {"checked"} \/ SendQueues(m))
    BY <1>2, StageSteps
  <2>2. CASE stage[m] \in Running \ {"checked"}
    BY <2>1, <2>2, RunsOn, HasKeeps DEF QueueInv
  <2>3. CASE SendQueues(m) /\ stage[m] \notin Running \ {"checked"}
    <3>1. StillHasRoom(target[m])
      BY <1>2, <2>3 DEF SendQueues, Goes, StageTypes, Actor, Running
    <3>2. log' = Append(log, Entry("queued", m)) /\ log \in Seq(Entries) /\ Entry("queued", m) \in Entries
      BY <2>3, <3>1, EntryFacts DEF SendQueues, LogTypes
    <3> QED
      BY <3>2, HasInAppend
  <2> QED
    BY <2>1, <2>2, <2>3
<1>3. \A i \in DOMAIN todo' : Has(log', "queued", todo'[i])
  <2>0. \A i \in DOMAIN todo : Has(log, "queued", todo[i])
    BY DEF QueueInv
  <2>00. todo \in Seq(Msg)
    BY DEF LogTypes
  <2>1. CASE Restart
    BY <2>1 DEF Restart
  <2>2. CASE ~Restart
    <3>1. \A m : Has(log, "queued", m) => Has(log', "queued", m)
      BY <2>2, RunsOn, HasKeeps
    <3>2. CASE todo' = todo
      BY <2>0, <3>1, <3>2
    <3>3. CASE todo # <<>> /\ todo' = Tail(todo)
      <4>1. \A i \in DOMAIN todo' : i + 1 \in DOMAIN todo /\ todo'[i] = todo[i + 1]
        BY <2>00, <3>3
      <4> QED
        BY <2>0, <3>1, <4>1
    <3>4. CASE todo' = <<>>
      BY <3>4
    <3>5. CASE log' = log /\ todo' \in Snapshots(log, Lead)
      BY <3>5, SnapshotFacts
    <3>6. CASE SweepTurns
      BY <3>6, SnapshotFacts DEF SweepTurns
    <3> QED
      BY <2>2, <3>2, <3>3, <3>4, <3>5, <3>6, TodoStep
  <2> QED
    BY <2>1, <2>2
<1> QED
  BY <1>1, <1>2, <1>3 DEF QueueInv

LEMMA SyncStep ==
  ASSUME IInv, LogTypes, LogMoves, SyncInv, [Next]_vars
  PROVE  SyncInv'
<1> SUFFICES ASSUME NEW m \in Msg, stage'[m] \in Sent
             PROVE  Has(Synced, "queued", m)'
  BY DEF SyncInv
<1>1. Has(Synced, "queued", m)
  BY StageSteps DEF SyncInv, Flushed
<1> QED
  BY <1>1, SyncedKeeps

(* Who is about to acknowledge was, or has just seen the target's flush.     *)
LEMMA AckingStep ==
  ASSUME LogTypes, StageTypes, [Next]_vars, NEW a \in Actor, stage'[a] = "acking"
  PROVE  /\ MsgOf(a)' = MsgOf(a)
         /\ stage[a] = "acking" \/ (Held(MsgOf(a)) /\ stage[a] = "flushing")
<1> DEFINE Goal == /\ a = Sweep => todo' = todo
                   /\ stage[a] = "acking" \/ (Held(MsgOf(a)) /\ stage[a] = "flushing")
<1>0. stage \in [Actor -> Running \cup Ended \cup {"idle", "sweeping"}] /\ Sweep \notin Msg
  BY MailboxAssumption DEF StageTypes
<1>1. ASSUME \/ LogSyncs \/ UNCHANGED vars
             \/ \E c \in Member : InboxSyncs(c) \/ ChildStops(c) \/ ChildResumes(c)
      PROVE  Goal
  BY <1>1 DEF LogSyncs, vars, InboxSyncs, ChildStops, ChildResumes
<1>2. ASSUME DrainStarts \/ SweepTurns \/ SweepTakes \/ SweepEnds
      PROVE  Goal
  BY <1>0, <1>2 DEF DrainStarts, SweepTurns, SweepTakes, SweepEnds, Goes, Returns, Actor
<1>3. ASSUME NEW n \in Msg, SendChecks(n) \/ SendQueues(n) \/ Queued(n)
      PROVE  Goal
  BY <1>0, <1>3 DEF SendChecks, SendQueues, Queued, Goes, Actor
<1>4. ASSUME NEW b \in Actor, Acts(b)
      PROVE  Goal
  <2>1. CASE a = b
    <3>1. CASE Acknowledged(b) \/ NotDelivered(b) \/ DeliveryFails(b) \/ TransactionThrows(b)
      BY <1>0, <2>1, <3>1 DEF Acknowledged, NotDelivered, DeliveryFails, TransactionThrows,
                              Returns, Throws
    <3>2. CASE DeliversToLead(b) \/ DeliversToMember(b) \/ Acks(b)
      BY <1>0, <2>1, <3>2 DEF DeliversToLead, DeliversToMember, Acks, Goes, Throws
    <3>3. CASE DeliveryFlushed(b)
      BY <1>0, <2>1, <3>3 DEF DeliveryFlushed, Goes
    <3> QED
      BY <1>4, <3>1, <3>2, <3>3 DEF Acts
  <2>2. CASE a # b
    BY <1>0, <1>4, <2>2 DEF Acts, Acknowledged, NotDelivered, DeliveryFails, TransactionThrows,
          DeliversToLead, DeliversToMember, DeliveryFlushed, Acks, Returns, Throws, Goes
  <2> QED
    BY <2>1, <2>2
<1>5. ASSUME Restart
      PROVE  Goal
  BY <1>0, <1>5 DEF Restart, Running
<1>6. Goal
  BY <1>1, <1>2, <1>3, <1>4, <1>5, StepCases
<1> QED
  BY <1>6 DEF MsgOf

LEMMA HeldStep ==
  ASSUME IInv, LogTypes, StageTypes, HeldInv, LogMoves, InboxMoves, target' = target, [Next]_vars
  PROVE  HeldInv'
<1>0. \A m \in Msg : target[m] \in Target
  BY DEF LogTypes
<1>1. ASSUME NEW m \in Msg, Has(log', "delivered", m)
      PROVE  Holds(target[m], m)'
  <2>1. CASE Has(log, "delivered", m)
    BY <1>0, <2>1, HoldsKeeps DEF HeldInv, Delivered
  <2>2. CASE Fresh(Entry("delivered", m))
    BY <1>0, <2>2, HoldsKeeps, EntryFacts DEF Fresh
  <2> QED
    BY <1>1, <2>1, <2>2, NextHas
<1>2. ASSUME NEW a \in Actor, stage'[a] = "acking"
      PROVE  Holds(target[MsgOf(a)], MsgOf(a))'
  <2>1. /\ MsgOf(a)' = MsgOf(a)
        /\ stage[a] = "acking" \/ (Held(MsgOf(a)) /\ stage[a] = "flushing")
    BY <1>2, AckingStep
  <2>2. MsgOf(a) \in Msg
    BY <2>1, MsgOfType DEF Running
  <2>3. Holds(target[MsgOf(a)], MsgOf(a))
    BY <2>1 DEF Held, HeldInv
  <2>4. \A m : m \in Msg /\ Holds(target[m], m) => Holds(target[m], m)'
    BY <1>0, HoldsKeeps
  <2> QED
    BY <2>1, <2>2, <2>3, <2>4
<1> QED
  BY <1>1, <1>2 DEF HeldInv, Delivered

LEMMA TodoType ==
  ASSUME LogTypes, StageTypes, [Next]_vars
  PROVE  todo' \in Seq(Msg)
<1>1. ASSUME todo # <<>>, todo' = Tail(todo) PROVE todo' \in Seq(Msg)
  BY <1>1 DEF LogTypes
<1>2. ASSUME todo' \in Snapshots(log, Lead) PROVE todo' \in Seq(Msg)
  BY <1>2, SnapshotFacts
<1>3. ASSUME SweepTurns PROVE todo' \in Seq(Msg)
  BY <1>3, SnapshotFacts DEF SweepTurns
<1>4. todo \in Seq(Msg) /\ <<>> \in Seq(Msg)
  BY DEF LogTypes
<1> QED
  BY <1>1, <1>2, <1>3, <1>4, TodoStep

LEMMA InductiveStep == IInv /\ [Next]_vars => IInv'
<1> SUFFICES ASSUME IInv, [Next]_vars PROVE IInv'
  OBVIOUS
<1>0. /\ LogTypes /\ StageTypes /\ EntriesOnce /\ AcksFollow
      /\ QueueInv /\ SyncInv /\ HeldInv /\ RoomInv
  BY DEF IInv
<1>1. target' = target /\ LogMoves
  BY LogStep
<1>2. InboxMoves
  BY <1>0, InboxStep
<1>3. LogTypes'
  BY <1>0, <1>1, <1>2, NextLog, InboxKeeps, TodoType DEF LogTypes
<1>4. StageTypes'
  BY <1>0, StageTypeStep
<1>5. EntriesOnce' /\ AcksFollow'
  BY <1>0, <1>1, LogHalf
<1>6. QueueInv'
  BY <1>0, <1>1, QueueStep
<1>7. SyncInv'
  BY <1>0, <1>1, SyncStep
<1>8. HeldInv'
  BY <1>0, <1>1, <1>2, HeldStep
<1>9. RoomInv'
  BY <1>0, <1>1, RoomStep
<1> QED
  BY <1>3, <1>4, <1>5, <1>6, <1>7, <1>8, <1>9 DEF IInv

(* The invariant holds throughout: types, the log's order, what is queued,   *)
(* on disk and within the limit.                                             *)
THEOREM MailboxInvariance == Spec => []IInv
<1>1. Init => IInv
  BY InitIInv
<1>2. IInv /\ [Next]_vars => IInv'
  BY InductiveStep
<1> QED
  BY <1>1, <1>2, PTL DEF Spec

(* Every variable keeps its type, for any number of messages and teammates.  *)
THEOREM MailboxTypes == Spec => []TypeOK
<1>1. IInv => TypeOK
  BY TypesSplit DEF IInv
<1> QED
  BY <1>1, MailboxInvariance, PTL

(* What is acknowledged is on its target's disk: realDeliver flushes the     *)
(* target before the delivered event is appended (scheduler.ts:434-456).     *)
THEOREM AcknowledgedIsOnDisk == Spec => []DeliveredIsHeld
<1>1. IInv => DeliveredIsHeld
  BY DEF IInv, HeldInv, DeliveredIsHeld
<1> QED
  BY <1>1, MailboxInvariance, PTL

(* A send that was answered has its message on the lead's disk, whatever     *)
(* became of its delivery (mailbox.ts:68-82).                                *)
THEOREM AnsweredIsQueued == Spec => []AnsweredSurvives
<1>1. IInv => AnsweredSurvives
  BY DEF IInv, SyncInv, Sent, AnsweredSurvives
<1> QED
  BY <1>1, MailboxInvariance, PTL

(* The transaction's look keeps every queue within its limit, before and     *)
(* after any restart (mailbox.ts:57-66).                                     *)
THEOREM QueuesStayBounded == Spec => []MailboxBounded
<1>1. IInv => MailboxBounded
  <2> SUFFICES ASSUME IInv PROVE MailboxBounded
    OBVIOUS
  <2>1. log \in Seq(Entries) /\ RoomInv
    BY DEF IInv, LogTypes
  <2> QED
    BY <2>1, WholeLog DEF RoomInv, MailboxBounded
<1> QED
  BY <1>1, MailboxInvariance, PTL

(* foldTeam accepts every prefix of the log (fold.ts:138-152).               *)
THEOREM EveryPrefixReplays == Spec => []LogReplays
<1>1. IInv => LogReplays
  <2> SUFFICES ASSUME IInv, NEW i \in DOMAIN log, NEW j \in DOMAIN log
               PROVE  /\ i < j /\ log[i].msg = log[j].msg =>
                            log[i].kind # log[j].kind \/ log[i].kind = "inbox"
                      /\ log[j].kind = "delivered" =>
                            Has(SubSeq(log, 1, j), "queued", log[j].msg)
    BY DEF LogReplays
  <2>1. /\ log \in Seq(Entries) /\ EntriesOnce /\ AcksFollow
        /\ DOMAIN log = 1 .. Len(log) /\ Len(log) \in Nat
    BY DEF IInv, LogTypes
  <2>2. log[i] \in Entries /\ log[j] \in Entries /\ i \in Nat /\ j \in Nat
    BY <2>1
  <2>3. i < j => log[i] # log[j]
    BY <2>1, <2>2 DEF EntriesOnce
  <2>4. log[i].msg = log[j].msg /\ log[i].kind = log[j].kind => log[i] = log[j]
    BY <2>2 DEF Entries
  <2>5. ASSUME log[j].kind = "delivered"
        PROVE  Has(SubSeq(log, 1, j), "queued", log[j].msg)
    <3>1. \E k \in 1 .. j : log[k] = Entry("queued", log[j].msg)
      BY <2>1, <2>5 DEF AcksFollow
    <3>2. j \in 0 .. Len(log)
      BY <2>1
    <3> QED
      BY <2>1, <3>1, <3>2, HasInPrefix
  <2> QED
    BY <2>3, <2>4, <2>5
<1> QED
  BY <1>1, MailboxInvariance, PTL

(* However often a delivery to the lead is tried, the lead's log holds the   *)
(* message once (the look at the log in scheduler.ts:367-371).               *)
THEOREM LeadReadsEachOnce == Spec => []LeadReadsOnce
<1>1. IInv => LeadReadsOnce
  <2> SUFFICES ASSUME IInv, NEW m \in Msg
               PROVE  Cardinality({i \in DOMAIN log : log[i] = Entry("inbox", m)}) <= 1
    BY DEF LeadReadsOnce
  <2> DEFINE S == {i \in DOMAIN log : log[i] = Entry("inbox", m)}
  <2>1. \A i, j \in S : i = j
    BY DEF IInv, EntriesOnce
  <2> HIDE DEF S
  <2>2. CASE S = {}
    BY <2>2, FS_EmptySet DEF S
  <2>3. ASSUME NEW i \in S
        PROVE  Cardinality(S) <= 1
    <3>1. S = {i}
      BY <2>1
    <3> QED
      BY <3>1, FS_Singleton
  <2> QED
    BY <2>2, <2>3 DEF S
<1> QED
  BY <1>1, MailboxInvariance, PTL

-----------------------------------------------------------------------------
(* Nobody delivers what was acknowledged.  The lead looks for the message in *)
(* its log; for a teammate the send and the sweep are never at it together:  *)
(* what the sweep has in its list has a send that ended - while the team is  *)
(* mounting nothing is sent to a teammate - and who is at a message before   *)
(* its acknowledgement is the one who will make it.                          *)
Undecided == {"queueing", "delivering", "flushing", "acking"}

OverInv ==
    /\ \A m \in Msg : stage[m] # "sweeping"
    /\ \A i \in DOMAIN todo : target[todo[i]] # Lead => stage[todo[i]] \in Ended
    /\ others # {} => mount = "mounting"
    /\ mount = "mounting" => \A m \in Msg : target[m] # Lead => stage[m] \in Ended \cup {"idle"}
    /\ \A a \in Actor :
          stage[a] \in Undecided /\ target[MsgOf(a)] # Lead => MsgOf(a) \notin Delivered(log)

(* A send that ended has ended; one that a restart finds running ends. *)
LEMMA SendStays ==
  ASSUME StageTypes, [Next]_vars, NEW m \in Msg, stage[m] # "sweeping"
  PROVE  /\ stage'[m] # "sweeping"
         /\ stage[m] \in Ended => stage'[m] \in Ended
         /\ stage[m] = "idle" => stage'[m] \in Ended \cup {"idle"} \/ SendChecks(m)
         /\ Restart => stage'[m] \in Ended \cup {"idle"}
<1> DEFINE Goal == /\ stage'[m] # "sweeping"
                   /\ stage[m] \in Ended => stage'[m] \in Ended
                   /\ stage[m] = "idle" => stage'[m] \in Ended \cup {"idle"} \/ SendChecks(m)
<1>0. /\ stage \in [Actor -> Running \cup Ended \cup {"idle", "sweeping"}]
      /\ m \in Actor /\ m # Sweep
  BY MailboxAssumption DEF StageTypes, Actor
<1>1. ASSUME \/ LogSyncs \/ UNCHANGED vars
             \/ \E c \in Member : InboxSyncs(c) \/ ChildStops(c) \/ ChildResumes(c)
      PROVE  Goal
  BY <1>1 DEF LogSyncs, vars, InboxSyncs, ChildStops, ChildResumes
<1>2. ASSUME DrainStarts \/ SweepTurns \/ SweepTakes \/ SweepEnds
      PROVE  Goal
  BY <1>0, <1>2 DEF DrainStarts, SweepTurns, SweepTakes, SweepEnds, Goes, Returns
<1>3. ASSUME NEW n \in Msg, SendChecks(n) \/ SendQueues(n) \/ Queued(n)
      PROVE  Goal
  <2>1. CASE n = m
    BY <1>0, <1>3, <2>1 DEF SendChecks, SendQueues, Queued, Goes, Ended
  <2>2. CASE n # m
    BY <1>0, <1>3, <2>2 DEF SendChecks, SendQueues, Queued, Goes
  <2> QED
    BY <2>1, <2>2
<1>4. ASSUME NEW a \in Actor, Acts(a)
      PROVE  Goal
  <2>1. CASE a = m
    <3>1. CASE Acknowledged(a) \/ NotDelivered(a) \/ DeliveryFails(a)
      BY <1>0, <2>1, <3>1 DEF Acknowledged, NotDelivered, DeliveryFails, Returns, Ended
    <3>2. CASE TransactionThrows(a)
      BY <1>0, <2>1, <3>2 DEF TransactionThrows, Throws, Ended
    <3>3. CASE DeliversToLead(a) \/ DeliversToMember(a) \/ DeliveryFlushed(a)
      BY <1>0, <2>1, <3>3 DEF DeliversToLead, DeliversToMember, DeliveryFlushed, Goes, Ended
    <3>4. CASE Acks(a)
      BY <1>0, <2>1, <3>4 DEF Acks, Throws, Goes, Ended
    <3> QED
      BY <1>4, <3>1, <3>2, <3>3, <3>4 DEF Acts
  <2>2. CASE a # m
    BY <1>0, <1>4, <2>2 DEF Acts, Acknowledged, NotDelivered, DeliveryFails, TransactionThrows,
          DeliversToLead, DeliversToMember, DeliveryFlushed, Acks, Returns, Throws, Goes
  <2> QED
    BY <2>1, <2>2
<1>5. ASSUME Restart
      PROVE  Goal /\ stage'[m] \in Ended \cup {"idle"}
  BY <1>0, <1>5 DEF Restart, Running, Ended
<1> QED
  BY <1>1, <1>2, <1>3, <1>4, <1>5, StepCases

(* How one comes to be at a message: it goes on, queues it, or takes it.     *)
LEMMA UndecidedStep ==
  ASSUME LogTypes, StageTypes, [Next]_vars, NEW a \in Actor, stage'[a] \in Undecided
  PROVE  /\ MsgOf(a)' = MsgOf(a)
         /\ \/ stage[a] \in Undecided
            \/ a \in Msg /\ stage[a] = "checked"
            \/ a = Sweep /\ log' = log /\ Head(todo) \notin Delivered(log)
<1> DEFINE Goal == /\ a = Sweep => todo' = todo
                   /\ \/ stage[a] \in Undecided
                      \/ a \in Msg /\ stage[a] = "checked"
                      \/ a = Sweep /\ log' = log /\ Head(todo) \notin Delivered(log)
<1>0. stage \in [Actor -> Running \cup Ended \cup {"idle", "sweeping"}] /\ Sweep \notin Msg
  BY MailboxAssumption DEF StageTypes
<1> USE DEF Undecided
<1>1. ASSUME \/ LogSyncs \/ UNCHANGED vars
             \/ \E c \in Member : InboxSyncs(c) \/ ChildStops(c) \/ ChildResumes(c)
      PROVE  Goal
  BY <1>1 DEF LogSyncs, vars, InboxSyncs, ChildStops, ChildResumes
<1>2. ASSUME DrainStarts \/ SweepTurns \/ SweepTakes \/ SweepEnds
      PROVE  Goal
  BY <1>0, <1>2 DEF DrainStarts, SweepTurns, SweepTakes, SweepEnds, Goes, Returns, Actor, Skips
<1>3. ASSUME NEW n \in Msg, SendChecks(n) \/ SendQueues(n) \/ Queued(n)
      PROVE  Goal
  BY <1>0, <1>3 DEF SendChecks, SendQueues, Queued, Goes, Actor
<1>4. ASSUME NEW b \in Actor, Acts(b)
      PROVE  Goal
  <2>1. CASE a = b
    <3>1. CASE Acknowledged(b) \/ NotDelivered(b) \/ DeliveryFails(b) \/ TransactionThrows(b)
      BY <1>0, <2>1, <3>1 DEF Acknowledged, NotDelivered, DeliveryFails, TransactionThrows,
                              Returns, Throws
    <3>2. CASE DeliversToLead(b) \/ DeliversToMember(b) \/ Acks(b)
      BY <1>0, <2>1, <3>2 DEF DeliversToLead, DeliversToMember, Acks, Goes, Throws
    <3>3. CASE DeliveryFlushed(b)
      BY <1>0, <2>1, <3>3 DEF DeliveryFlushed, Goes
    <3> QED
      BY <1>4, <3>1, <3>2, <3>3 DEF Acts
  <2>2. CASE a # b
    BY <1>0, <1>4, <2>2 DEF Acts, Acknowledged, NotDelivered, DeliveryFails, TransactionThrows,
          DeliversToLead, DeliversToMember, DeliveryFlushed, Acks, Returns, Throws, Goes
  <2> QED
    BY <2>1, <2>2
<1>5. ASSUME Restart
      PROVE  Goal
  BY <1>0, <1>5 DEF Restart, Running
<1>6. Goal
  BY <1>1, <1>2, <1>3, <1>4, <1>5, StepCases
<1> QED
  BY <1>6 DEF MsgOf

(* An acknowledgement is made by one who is at the message. *)
LEMMA OwnAcks ==
  ASSUME LogTypes, StageTypes, [Next]_vars, NEW m \in Msg, Grows(Entry("delivered", m))
  PROVE  \E a \in Actor : stage[a] = "acking" /\ MsgOf(a) = m /\ stage'[a] = "committing"
<1>0. /\ log \in Seq(Entries) /\ Len(log) \in Nat
      /\ log' = Append(log, Entry("delivered", m)) /\ Entry("delivered", m) \in Entries
  BY DEF LogTypes, Grows
<1>1. /\ log' # log /\ Len(log') = Len(log) + 1
      /\ \A e \in Entries : log' = Append(log, e) => e = Entry("delivered", m)
  BY <1>0
<1>2. CASE \/ LogSyncs \/ UNCHANGED vars \/ DrainStarts \/ SweepTurns \/ SweepTakes \/ SweepEnds
           \/ \E c \in Member : InboxSyncs(c) \/ ChildStops(c) \/ ChildResumes(c)
           \/ \E n \in Msg : SendChecks(n) \/ Queued(n)
  BY <1>1, <1>2 DEF LogSyncs, vars, DrainStarts, SweepTurns, SweepTakes, SweepEnds, InboxSyncs,
                    ChildStops, ChildResumes, SendChecks, Queued
<1>3. ASSUME NEW n \in Msg, SendQueues(n)
      PROVE  FALSE
  <2>1. log' = Append(log, Entry("queued", n))
    BY <1>1, <1>3 DEF SendQueues
  <2> QED
    BY <1>1, <2>1, EntryFacts
<1>4. ASSUME NEW a \in Actor, Acts(a)
      PROVE  stage[a] = "acking" /\ MsgOf(a) = m /\ stage'[a] = "committing"
  <2>1. CASE DeliversToLead(a) \/ Acks(a)
    <3>1. MsgOf(a) \in Msg
      BY <2>1, MsgOfType DEF DeliversToLead, Acks, Running
    <3>2. CASE DeliversToLead(a)
      <4>1. log' = Append(log, Entry("inbox", MsgOf(a)))
        BY <1>1, <3>2 DEF DeliversToLead
      <4> QED
        BY <1>1, <3>1, <4>1, EntryFacts
    <3>3. CASE Acks(a)
      <4>1. /\ log' = Append(log, Entry("delivered", MsgOf(a))) /\ stage[a] = "acking"
            /\ stage' = [stage EXCEPT ![a] = "committing"]
        BY <1>1, <3>3 DEF Acks, Goes
      <4>2. Entry("delivered", MsgOf(a)) = Entry("delivered", m)
        BY <1>1, <3>1, <4>1, EntryFacts
      <4>3. MsgOf(a) = m
        BY <3>1, <4>2, EntryFacts
      <4> QED
        BY <4>1, <4>3 DEF StageTypes
    <3> QED
      BY <2>1, <3>2, <3>3
  <2>2. CASE ~(DeliversToLead(a) \/ Acks(a))
    BY <1>1, <1>4, <2>2 DEF Acts, Acknowledged, TransactionThrows, NotDelivered,
                            DeliveryFlushed, DeliveryFails, DeliversToMember
  <2> QED
    BY <2>1, <2>2
<1>5. ~Restart
  <2>1. SUFFICES ASSUME Restart PROVE FALSE
    OBVIOUS
  <2>2. PICK k \in synced .. Len(log) : log' = SubSeq(log, 1, k)
    BY <2>1 DEF Restart, Survives
  <2>3. Len(log') <= Len(log)
    BY <1>0, <2>2 DEF LogTypes
  <2> QED
    BY <1>0, <1>1, <2>3
<1> QED
  BY <1>2, <1>3, <1>4, <1>5, StepCases

(* A send and the sweep are not at one message of a teammate together. *)
LEMMA OneIsAt ==
  ASSUME LogTypes, StageTypes, OverInv, NEW a \in Actor, NEW b \in Actor,
         stage[a] \in Undecided, stage[b] \in Undecided,
         MsgOf(a) = MsgOf(b), target[MsgOf(a)] # Lead
  PROVE  a = b
<1>1. Undecided \subseteq Running /\ Undecided \cap Ended = {}
  BY DEF Undecided, Running, Ended
<1>2. ASSUME stage[Sweep] \in Undecided, NEW m \in Msg, stage[m] \in Undecided,
             Head(todo) = m, target[m] # Lead
      PROVE  FALSE
  <2>1. todo \in Seq(Msg) /\ todo # <<>>
    BY <1>1, <1>2 DEF LogTypes, StageTypes
  <2>2. 1 \in DOMAIN todo /\ todo[1] = m
    BY <1>2, <2>1
  <2> QED
    BY <1>1, <1>2, <2>2 DEF OverInv
<1> QED
  BY <1>2 DEF MsgOf, Actor

(* The mounting ends with its sweep, and begins with a restart. *)
LEMMA MountStep ==
  ASSUME StageTypes, [Next]_vars, others # {} => mount = "mounting"
  PROVE  /\ others' # {} => mount' = "mounting"
         /\ mount' = "mounting" => Restart \/ mount = "mounting"
<1> DEFINE Goal == /\ others' # {} => mount' = "mounting"
                   /\ mount' = "mounting" => Restart \/ mount = "mounting"
<1>1. ASSUME \/ LogSyncs \/ UNCHANGED vars
             \/ \E c \in Member : InboxSyncs(c) \/ ChildStops(c) \/ ChildResumes(c)
      PROVE  Goal
  BY <1>1 DEF LogSyncs, vars, InboxSyncs, ChildStops, ChildResumes
<1>2. ASSUME NEW n \in Msg, SendChecks(n) \/ SendQueues(n) \/ Queued(n)
      PROVE  Goal
  BY <1>2 DEF SendChecks, SendQueues, Queued, Goes
<1>3. ASSUME DrainStarts \/ SweepTurns \/ SweepTakes \/ SweepEnds \/ Restart
      PROVE  Goal
  BY <1>3 DEF DrainStarts, SweepTurns, SweepTakes, SweepEnds, Restart, Goes, Returns
<1>4. ASSUME NEW a \in Actor, Acts(a)
      PROVE  Goal
  <2>1. \/ UNCHANGED <<others, mount>>
        \/ Throws(a)
    BY <1>4 DEF Acts, Acknowledged, NotDelivered, DeliveryFails, TransactionThrows,
          DeliversToLead, DeliversToMember, DeliveryFlushed, Acks, Returns, Goes
  <2>2. CASE Throws(a)
    <3>1. CASE a = Sweep
      <4>1. others' = {} /\ mount' \in {"failed", "published"}
        BY <2>2, <3>1 DEF Throws
      <4> QED
        BY <4>1
    <3>2. CASE a # Sweep
      <4>1. others' = others
        BY <2>2, <3>2 DEF Throws
      <4>2. mount' = mount
        BY <2>2, <3>2 DEF Throws
      <4> QED
        BY <4>1, <4>2
    <3> QED
      BY <3>1, <3>2
  <2> QED
    BY <2>1, <2>2
<1> QED
  BY <1>1, <1>2, <1>3, <1>4, StepCases

LEMMA OverStep ==
  ASSUME IInv, OverInv, [Next]_vars
  PROVE  OverInv'
<1>0. /\ LogTypes /\ StageTypes /\ QueueInv /\ AcksFollow /\ target' = target /\ LogMoves
      /\ log \in Seq(Entries) /\ todo \in Seq(Msg)
  BY LogStep DEF IInv, LogTypes
<1>1. \A m \in Msg : stage'[m] # "sweeping"
  BY <1>0, SendStays DEF OverInv
<1>2. ASSUME NEW i \in DOMAIN todo', target[todo'[i]] # Lead
      PROVE  stage'[todo'[i]] \in Ended
  <2>1. todo' \in Seq(Msg)
    BY <1>0, TodoType
  <2>2. PICK m \in Msg : m = todo'[i]
    BY <1>2, <2>1
  <2>3. CASE SweepTurns
    <3>1. PICK t \in others : todo' \in Snapshots(log, t)
      BY <2>3 DEF SweepTurns
    <3>2. Has(log, "queued", m)
      BY <1>2, <2>2, <3>1, SnapshotFacts
    <3>3. stage[m] # "idle" /\ mount = "mounting"
      BY <1>0, <2>3, <3>2 DEF QueueInv, OverInv, SweepTurns
    <3>4. stage[m] \in Ended
      BY <1>2, <2>2, <3>3 DEF OverInv
    <3> QED
      BY <2>2, <2>3, <3>4 DEF SweepTurns
  <2>4. ASSUME NEW k \in DOMAIN todo, todo[k] = m
        PROVE  stage'[m] \in Ended
    <3>1. stage[m] \in Ended
      BY <1>2, <2>2, <2>4 DEF OverInv
    <3> QED
      BY <1>0, <3>1, SendStays DEF OverInv
  <2>5. CASE todo' = todo
    BY <1>2, <2>2, <2>4, <2>5
  <2>6. CASE todo # <<>> /\ todo' = Tail(todo)
    <3>1. i + 1 \in DOMAIN todo /\ todo'[i] = todo[i + 1]
      BY <1>0, <1>2, <2>6
    <3> QED
      BY <2>2, <2>4, <3>1
  <2>7. CASE log' = log /\ todo' \in Snapshots(log, Lead)
    BY <1>2, <2>7, SnapshotFacts
  <2>8. CASE todo' = <<>>
    BY <1>2, <2>8
  <2> QED
    BY <1>0, <1>2, <2>2, <2>3, <2>5, <2>6, <2>7, <2>8, TodoStep
<1>3. ASSUME NEW a \in Actor, stage'[a] \in Undecided, target[MsgOf(a)'] # Lead
      PROVE  ~Has(log', "delivered", MsgOf(a)')
  <2>1. MsgOf(a)' = MsgOf(a)
    BY <1>0, <1>3, UndecidedStep
  <2>2. PICK m : m = MsgOf(a)
    OBVIOUS
  <2>3. SUFFICES ASSUME Has(log', "delivered", m) PROVE FALSE
    BY <2>1, <2>2
  <2>4. CASE stage[a] \in Undecided
    <3>1. m \in Msg
      BY <1>0, <2>2, <2>4, MsgOfType DEF Undecided, Running
    <3>2. ~Has(log, "delivered", m)
      BY <1>3, <2>1, <2>2, <2>4, <3>1 DEF OverInv, Delivered
    <3>3. Grows(Entry("delivered", m))
      BY <1>0, <2>3, <3>2, NextHas
    <3>4. PICK b \in Actor : stage[b] = "acking" /\ MsgOf(b) = m /\ stage'[b] = "committing"
      BY <1>0, <3>1, <3>3, OwnAcks
    <3>5. a = b
      BY <1>0, <1>3, <2>1, <2>2, <2>4, <3>4, OneIsAt DEF Undecided
    <3> QED
      BY <1>3, <3>4, <3>5 DEF Undecided
  <2>5. CASE a \in Msg /\ stage[a] = "checked"
    <3>1. m = a /\ ~Has(log, "queued", m)
      BY <1>0, <2>2, <2>5, MailboxAssumption DEF MsgOf, QueueInv
    <3>2. Has(log, "delivered", m) \/ Fresh(Entry("delivered", m))
      BY <1>0, <2>3, NextHas
    <3>3. ~Fresh(Entry("delivered", m))
      BY <2>5, <3>1, EntryFacts DEF Fresh
    <3>4. PICK j \in DOMAIN log : log[j] = Entry("delivered", m)
      BY <3>2, <3>3 DEF Has
    <3>5. log[j].kind = "delivered" /\ log[j].msg = m
      BY <2>5, <3>1, <3>4, EntryFacts
    <3>6. PICK i \in 1 .. j : log[i] = Entry("queued", m)
      BY <1>0, <3>5 DEF AcksFollow
    <3>7. i \in DOMAIN log
      BY <1>0, <3>4
    <3> QED
      BY <3>1, <3>6, <3>7 DEF Has
  <2>6. CASE a = Sweep /\ log' = log /\ Head(todo) \notin Delivered(log)
    <3>1. MsgOf(a)' \in Msg
      <4>1. LogTypes' /\ StageTypes'
        BY InductiveStep DEF IInv
      <4>2. todo' # <<>> /\ todo' \in Seq(Msg)
        BY <1>3, <2>6, <4>1 DEF LogTypes, StageTypes, Undecided, Running
      <4> QED
        BY <2>6, <4>2 DEF MsgOf
    <3> QED
      BY <2>1, <2>2, <2>3, <2>6, <3>1 DEF MsgOf, Delivered
  <2> QED
    BY <1>0, <1>3, <2>4, <2>5, <2>6, UndecidedStep
<1>4. others' # {} => mount' = "mounting"
  BY <1>0, MountStep DEF OverInv
<1>5. ASSUME NEW m \in Msg, mount' = "mounting", target[m] # Lead
      PROVE  stage'[m] \in Ended \cup {"idle"}
  <2>1. CASE Restart
    BY <1>0, <2>1, SendStays DEF OverInv
  <2>2. CASE ~Restart
    <3>1. mount = "mounting" /\ stage[m] \in Ended \cup {"idle"}
      BY <1>0, <1>5, <2>2, MountStep DEF OverInv
    <3>2. ~SendChecks(m)
      BY <1>5, <3>1 DEF SendChecks, MaySend
    <3> QED
      BY <1>0, <3>1, <3>2, SendStays DEF OverInv
  <2> QED
    BY <2>1, <2>2
<1> QED
  BY <1>0, <1>1, <1>2, <1>3, <1>4, <1>5 DEF OverInv, Delivered

LEMMA OverAlways == Spec => []OverInv
<1>1. Init => OverInv
  <2> SUFFICES ASSUME Init PROVE OverInv
    OBVIOUS
  <2>1. \A a \in Actor : stage[a] = "idle"
    BY DEF Init
  <2>2. DOMAIN todo = {} /\ others = {}
    BY DEF Init
  <2> QED
    BY <2>1, <2>2 DEF OverInv, Undecided, Actor
<1>2. IInv /\ OverInv /\ [Next]_vars => OverInv'
  BY OverStep
<1> QED
  BY <1>1, <1>2, MailboxInvariance, PTL DEF Spec

LEMMA FewerPlaces ==
  ASSUME NEW S, NEW s \in Seq(S), NEW t, NEW e, Places(t, e) \subseteq Places(s, e)
  PROVE  Cardinality(Places(t, e)) <= Cardinality(Places(s, e))
<1>1. DOMAIN s = 1 .. Len(s) /\ Len(s) \in Int /\ 1 \in Int
  OBVIOUS
<1>2. IsFiniteSet(DOMAIN s)
  BY <1>1, FS_Interval
<1>3. IsFiniteSet(Places(s, e))
  BY <1>2, FS_Subset DEF Places
<1> QED
  BY <1>3, FS_Subset

(* Of one that was acknowledged the logs get no more copies. *)
LEMMA NoMoreCopies ==
  ASSUME IInv, OverInv, [Next]_vars, NEW m \in Delivered(log)
  PROVE  Copies(m)' <= Copies(m)
<1>0. /\ LogTypes /\ StageTypes /\ target' = target /\ LogMoves
      /\ log \in Seq(Entries) /\ Len(log) \in Nat /\ inbox \in [Member -> Seq(Msg)]
      /\ m \in Msg /\ Holds(target[m], m) /\ target[m] \in Target
  BY LogStep DEF IInv, LogTypes, HeldInv, Delivered
<1>1. CASE target[m] = Lead
  <2> DEFINE e == Entry("inbox", m)
  <2>1. Has(log, "inbox", m)
    BY <1>0, <1>1, HasInPrefix DEF Holds, Synced, LogTypes, Has
  <2>2. ASSUME NEW i \in DOMAIN log', log'[i] = e
        PROVE  i \in DOMAIN log /\ log[i] = e
    <3>1. CASE Kept \/ Saves
      BY <2>2, <3>1 DEF Kept, Saves
    <3>2. CASE \E k \in synced .. Len(log) : Cut(k)
      BY <1>0, <2>2, <3>2 DEF Cut, LogTypes
    <3>3. ASSUME NEW f \in Entries, Grows(f), Fresh(f)
          PROVE  i \in DOMAIN log /\ log[i] = e
      <4>1. f # e
        BY <2>1, <3>3 DEF Fresh, Has
      <4> HIDE DEF e
      <4> QED
        BY <1>0, <2>2, <3>3, <4>1 DEF Grows
    <3> QED
      BY <1>0, <3>1, <3>2, <3>3 DEF LogMoves
  <2>3. Places(log', e) \subseteq Places(log, e)
    BY <2>2 DEF Places
  <2>4. Cardinality(Places(log', e)) <= Cardinality(Places(log, e))
    BY <1>0, <2>3, FewerPlaces
  <2> QED
    BY <1>0, <1>1, <2>4 DEF Copies
<1>2. CASE target[m] # Lead
  <2> DEFINE c == target[m]
  <2>1. c \in Member
    BY <1>0, <1>2 DEF Target
  <2>2. ASSUME NEW i \in DOMAIN inbox'[c], inbox'[c][i] = m
        PROVE  i \in DOMAIN inbox[c] /\ inbox[c][i] = m
    <3>1. CASE inbox' = inbox
      BY <2>2, <3>1
    <3>2. ASSUME NEW a \in Actor, DeliversToMember(a)
          PROVE  i \in DOMAIN inbox[c] /\ inbox[c][i] = m
      <4>1. MsgOf(a) # m
        BY <1>2, <3>2 DEF DeliversToMember, OverInv, Undecided
      <4>2. inbox' = [inbox EXCEPT ![target[MsgOf(a)]] = Append(@, MsgOf(a))]
        BY <3>2 DEF DeliversToMember
      <4>3. inbox'[c] = inbox[c] \/ inbox'[c] = Append(inbox[c], MsgOf(a))
        BY <1>0, <2>1, <4>2
      <4>4. inbox[c] \in Seq(Msg) /\ MsgOf(a) \in Msg
        BY <1>0, <2>1, <3>2, MsgOfType DEF DeliversToMember, Running
      <4> HIDE DEF c
      <4> QED
        BY <2>2, <4>1, <4>3, <4>4
    <3>3. CASE Restart
      <4>1. PICK k \in held[c] .. Len(inbox[c]) : inbox'[c] = SubSeq(inbox[c], 1, k)
        BY <2>1, <3>3 DEF Restart, Survives
      <4>2. inbox[c] \in Seq(Msg) /\ held[c] \in Nat
        BY <1>0, <2>1 DEF LogTypes
      <4> HIDE DEF c
      <4> QED
        BY <2>2, <4>1, <4>2
    <3>4. inbox' = inbox \/ (\E a \in Actor : DeliversToMember(a)) \/ Restart
      <4>1. CASE \/ LogSyncs \/ UNCHANGED vars \/ DrainStarts \/ SweepTurns \/ SweepTakes \/ SweepEnds
                 \/ \E d \in Member : InboxSyncs(d) \/ ChildStops(d) \/ ChildResumes(d)
                 \/ \E n \in Msg : SendChecks(n) \/ SendQueues(n) \/ Queued(n)
        BY <4>1 DEF LogSyncs, vars, DrainStarts, SweepTurns, SweepTakes, SweepEnds, InboxSyncs, ChildStops,
                    ChildResumes, SendChecks, SendQueues, Queued
      <4>2. ASSUME NEW a \in Actor, Acts(a), ~DeliversToMember(a)
            PROVE  inbox' = inbox
        BY <4>2 DEF Acts, Acknowledged, TransactionThrows, NotDelivered, DeliveryFlushed,
                    DeliveryFails, DeliversToLead, Acks
      <4> QED
        BY <4>1, <4>2, StepCases
    <3> QED
      BY <3>1, <3>2, <3>3, <3>4
  <2>3. Places(inbox'[c], m) \subseteq Places(inbox[c], m)
    BY <2>2 DEF Places
  <2>4. inbox[c] \in Seq(Msg)
    BY <1>0, <2>1
  <2>5. Cardinality(Places(inbox'[c], m)) <= Cardinality(Places(inbox[c], m))
    BY <2>3, <2>4, FewerPlaces
  <2> QED
    BY <1>0, <1>2, <2>5 DEF Copies
<1> QED
  BY <1>1, <1>2

(* Once a message is acknowledged nobody delivers it again: neither its send, *)
(* nor the sweep of a mount, nor the one after publication, over any restarts *)
(* (the look at the log in scheduler.ts:367-371, and the fold's refusal of a *)
(* second acknowledgement).                                                  *)
THEOREM AcknowledgedIsOver == Spec => DeliveredIsOver
<1>1. IInv /\ OverInv /\ [Next]_vars => \A m \in Delivered(log) : Copies(m)' <= Copies(m)
  BY NoMoreCopies
<1>2. IInv /\ OverInv /\ [Next]_vars =>
        [\A m \in Delivered(log) : Copies(m)' <= Copies(m)]_vars
  BY <1>1
<1> QED
  BY <1>2, MailboxInvariance, OverAlways, PTL DEF Spec, DeliveredIsOver
=============================================================================
