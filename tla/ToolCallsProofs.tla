---------------------------- MODULE ToolCallsProofs ----------------------------
(***************************************************************************)
(* Proofs about ToolCalls for any number of calls, any of them exclusive,  *)
(* and a pool of any size.                                                 *)
(*                                                                         *)
(* The invariant has a part for the pool, one for what each call is to be  *)
(* answered, one for the log up to the cursor, one for where the lane      *)
(* stands, and, after a crash, one for the markers a log holds.            *)
(***************************************************************************)
EXTENDS ToolCalls, FiniteSetTheorems, TLAPS

Events ==
    {e \in [kind : {"call", "dispatch", "result", "end"}, call : 0..N, verdict : Verdicts] :
        e.kind # "end" => e.call \in Call}

Waits == {"prepare", "save", "race", "drain"}
Batch == pc \in Waits \cup {"finalize", "observe", "fill"}

Types ==
    /\ checkpoint \in BOOLEAN /\ stop \in BOOLEAN /\ refused \in BOOLEAN
    /\ unsaved \in BOOLEAN /\ threw \in BOOLEAN
    /\ log \in Seq(Events)
    /\ durable \in 0..Len(log)
    /\ pc \in Waits \cup {"finalize", "observe", "fill", "ended", "closed", "down", "repaired"}
    /\ ending \in {"open", "aborted", "unsaved", "refused", "answered", "died"}
    /\ next \in 1..N + 1
    /\ started \in 0..N
    /\ committed \in 0..N
    /\ slot \in [Call -> {"none", "real"} \cup Synthetic]
    /\ pool \in SUBSET Call
    /\ body \in [Call -> {"none", "hooks", "running", "ok", "failed", "unran"}]

(* The pool: who is in it, and who may join it.                             *)
PoolInv ==
    /\ Active \subseteq pool
    /\ \A i \in pool : i < next /\ body[i] # "none"
    /\ Cardinality(pool) <= MaxParallel
    /\ \A i, j \in pool : i \in Exclusive => i = j
    /\ ending # "open" => pool = {}

(* The slots: what a call's answer has to do with its body.                 *)
SlotInv ==
    /\ \A i \in Call : body[i] # "none" => i <= started /\ i < next
    /\ \A i \in Call : i >= next => slot[i] = "none"
    /\ \A i \in Call : slot[i] \in {"invalid", "undispatched"} => body[i] = "none"
    /\ \A i \in Active : slot[i] = "none"
    /\ \A i \in Call : body[i] = "ok" => slot[i] = "real"
    /\ \A i \in 1..next - 1 : i \in pool \/ slot[i] # "none" \/ BatchAborted
    /\ \A i \in Call : body[i] \in {"failed", "unran"} => slot[i] # "none" \/ BatchAborted
    /\ ending \in {"aborted", "unsaved"} => \A i \in 1..started : i < next => slot[i] # "none"

(* A log whose first n calls are answered, with what their slots say.       *)
Answered(events, n, slots) ==
    /\ \A k \in DOMAIN events : events[k].kind = "result" =>
          events[k].call \in 1..n /\ events[k].verdict = slots[events[k].call]
    /\ \A j, k \in DOMAIN events :
          events[j].kind = "result" /\ events[k].kind = "result" /\ j < k =>
              events[j].call < events[k].call
    /\ \A i \in 1..n :
          /\ slots[i] # "none"
          /\ \E k \in DOMAIN events : events[k].kind = "result" /\ events[k].call = i

(* A call that was prepared, not started and not answered is the last one:  *)
(* the batch had been stopped.                                              *)
Gap(j) == j = next - 1 /\ BatchAborted
NoGaps == \A j \in 1..next - 1 : j <= started \/ slot[j] # "none" \/ Gap(j)

(* Where the lane stands.                                                   *)
LaneInv ==
    /\ committed < next
    /\ pc = "save" => started = next /\ Has("dispatch", next)
    /\ pc # "save" => started < next
    /\ pc \in {"prepare", "save"} => MayStart(next, pool)
    /\ pc \in {"prepare", "save"} => \A j \in 1..next - 1 : j <= started \/ slot[j] # "none"
    /\ NoGaps
    /\ pc = "finalize" => committed < N /\ slot[committed + 1] = "real"
    /\ pc \in Waits /\ ~refused =>
          committed = N \/ committed + 1 \in pool \/ slot[committed + 1] = "none"
    /\ pc = "fill" => threw \/ committed = N \/ slot[committed + 1] = "none"
    /\ pc = "drain" /\ ~BatchAborted => next = N + 1 /\ pool = {}

EndingInv ==
    /\ pc \in Waits => ending = "open"
    /\ pc = "fill" => ending \in {"aborted", "unsaved"}
    /\ pc \in {"finalize", "observe"} => ending \in {"open", "aborted", "unsaved"}
    /\ pc \in {"ended", "closed"} => ending \notin {"open", "died"}

(* The markers of the bodies that were handed over, when the host saves     *)
(* them.                                                                    *)
MarkInv ==
    checkpoint => \A i \in Call : body[i] # "none" =>
        \E k \in 1..durable : log[k].kind = "dispatch" /\ log[k].call = i

AnswersInv == AnsweredOnce /\ InModelOrder /\ NeverRanIsTrue /\ EverythingIsAnswered

IInv ==
    /\ Types
    /\ Alive => PoolInv /\ SlotInv
    /\ Alive => EndingInv
    /\ Batch => LaneInv /\ Answered(log, committed, slot)
    /\ MarkInv
    /\ AnswersInv

-----------------------------------------------------------------------------
(* Sequences and events. *)
LEMMA Numbers == N \in Nat /\ N > 0 /\ MaxParallel \in Nat /\ MaxParallel > 0
  BY ToolCallsAssumption

LEMMA NextCall ==
  ASSUME NEW n \in Nat, n < N
  PROVE  n + 1 \in Call
  BY Numbers DEF Call

LEMMA EventTypes ==
  /\ \A i \in Call : Event("dispatch", i) \in Events /\ Event("call", i) \in Events
  /\ End \in Events
  /\ \A i \in Call, v \in Verdicts : Result(i, v) \in Events
<1>1. Call \subseteq 0..N /\ 0 \in 0..N /\ "" \in Verdicts
  BY Numbers DEF Call, Verdicts
<1>2. ASSUME NEW kind \in {"call", "dispatch", "result", "end"}, NEW i \in 0..N, NEW v \in Verdicts,
             kind # "end" => i \in Call
      PROVE  [kind |-> kind, call |-> i, verdict |-> v] \in Events
  <2> DEFINE e == [kind |-> kind, call |-> i, verdict |-> v]
  <2>1. e \in [kind : {"call", "dispatch", "result", "end"}, call : 0..N, verdict : Verdicts]
    OBVIOUS
  <2>2. e.kind = kind /\ e.call = i
    OBVIOUS
  <2> HIDE DEF e
  <2>3. e \in Events
    BY <1>2, <2>1, <2>2 DEF Events
  <2> QED
    BY <2>3 DEF e
<1> QED
  BY <1>1, <1>2 DEF Event, End, Result

LEMMA AppendMany ==
  ASSUME NEW S, NEW s \in Seq(S), NEW n \in Nat, NEW t \in [1..n -> S]
  PROVE  /\ s \o t \in Seq(S)
         /\ Len(s \o t) = Len(s) + n
         /\ \A k \in 1..Len(s) : (s \o t)[k] = s[k]
         /\ \A k \in 1..n : (s \o t)[Len(s) + k] = t[k]
<1>1. t \in Seq(S) /\ Len(t) = n
  OBVIOUS
<1>2. /\ s \o t \in Seq(S)
      /\ Len(s \o t) = Len(s) + Len(t)
  BY <1>1
<1>3. \A k \in 1..Len(s) + Len(t) :
         (s \o t)[k] = IF k <= Len(s) THEN s[k] ELSE t[k - Len(s)]
  BY <1>1
<1>4. Len(s) \in Nat
  OBVIOUS
<1>5. ASSUME NEW k \in 1..n PROVE (s \o t)[Len(s) + k] = t[k]
  <2>1. Len(s) + k \in 1..Len(s) + Len(t) /\ ~(Len(s) + k <= Len(s)) /\ (Len(s) + k) - Len(s) = k
    BY <1>1, <1>4
  <2> QED
    BY <1>3, <2>1
<1> QED
  BY <1>1, <1>2, <1>3, <1>4, <1>5

(* The markers a log keeps. *)
LEMMA MarkKeeps ==
  ASSUME Types, MarkInv, checkpoint' = checkpoint, durable' \in Nat, durable <= durable',
         \A k \in 1..durable : log'[k] = log[k],
         \A i \in Call : body'[i] # "none" => body[i] # "none"
  PROVE  MarkInv'
<1>1. durable \in Nat
  BY DEF Types
<1>2. \A k \in 1..durable : k \in 1..durable'
  BY <1>1
<1> QED
  BY <1>2 DEF MarkInv

(* The log and the slots make the answers what they should be. *)
LEMMA AnswersFollow ==
  ASSUME Types', SlotInv', Answered(log', committed', slot')
  PROVE  AnsweredOnce' /\ InModelOrder' /\ NeverRanIsTrue'
<1>0. DOMAIN log' = 1..Len(log') /\ Len(log') \in Nat /\ committed' \in 0..N /\ N \in Nat
  BY Numbers DEF Types
<1>1. InModelOrder'
  BY DEF InModelOrder, Results, Answered
<1>2. AnsweredOnce'
  <2> SUFFICES ASSUME NEW j \in Results', NEW k \in Results', log'[j].call = log'[k].call
               PROVE  j = k
    BY DEF AnsweredOnce
  <2>1. j \in Nat /\ k \in Nat
    BY <1>0 DEF Results
  <2>2. log'[j].call \in Nat /\ log'[k].call \in Nat
    BY <1>0 DEF Results, Answered
  <2>3. (j < k => log'[j].call < log'[k].call) /\ (k < j => log'[k].call < log'[j].call)
    BY DEF Results, Answered
  <2> QED
    BY <2>1, <2>2, <2>3
<1>3. NeverRanIsTrue'
  <2> SUFFICES ASSUME NEW k \in Results', log'[k].verdict \in NeverRan
               PROVE  body'[log'[k].call] \in {"none", "unran"}
    BY DEF NeverRanIsTrue
  <2>1. log'[k].call \in Call /\ log'[k].verdict = slot'[log'[k].call]
    BY <1>0 DEF Results, Answered, Call
  <2>2. slot'[log'[k].call] \in {"invalid", "undispatched"}
    BY <2>1 DEF Types, NeverRan, Synthetic
  <2> QED
    BY <2>1, <2>2 DEF SlotInv
<1> QED
  BY <1>1, <1>2, <1>3

LEMMA BatchAnswers ==
  ASSUME Types', SlotInv', Batch', Answered(log', committed', slot')
  PROVE  AnswersInv'
<1>1. EverythingIsAnswered'
  BY DEF EverythingIsAnswered, Batch, Waits
<1> QED
  BY <1>1, AnswersFollow DEF AnswersInv

(* What commitReady appends. *)
LEMMA CommitLog ==
  ASSUME NEW events \in Seq(Events), NEW from \in 0..N,
         slot' \in [Call -> {"none", "real"} \cup Synthetic],
         CommitReady(events, from), Answered(events, from, slot')
  PROVE  /\ log' \in Seq(Events)
         /\ Len(events) <= Len(log')
         /\ \A k \in 1..Len(events) : log'[k] = events[k]
         /\ committed' \in from..N
         /\ \A i \in from + 1..committed' : slot'[i] \in Synthetic
         /\ committed' < N => slot'[committed' + 1] \notin Synthetic
         /\ pc' = IF committed' < N /\ slot'[committed' + 1] = "real" THEN "finalize"
                  ELSE Onward(next', pool')
         /\ Answered(log', committed', slot')
<1>0. N \in Nat /\ from \in Nat
  BY Numbers
<1>1. PICK upTo \in from..N :
        /\ \A i \in from + 1..upTo : slot'[i] \in Synthetic
        /\ upTo < N => slot'[upTo + 1] \notin Synthetic
        /\ log' = events \o [k \in 1..upTo - from |-> Result(from + k, slot'[from + k])]
        /\ committed' = upTo
        /\ pc' = IF upTo < N /\ slot'[upTo + 1] = "real" THEN "finalize"
                 ELSE Onward(next', pool')
  BY DEF CommitReady
<1> DEFINE n == upTo - from
           t == [k \in 1..n |-> Result(from + k, slot'[from + k])]
<1>2. n \in Nat /\ from + n = upTo /\ \A k \in 1..n : from + k \in from + 1..upTo /\ from + k \in Call
  BY <1>0, <1>1 DEF Call
<1>3. t \in [1..n -> Events]
  <2> SUFFICES ASSUME NEW k \in 1..n PROVE Result(from + k, slot'[from + k]) \in Events
    OBVIOUS
  <2>1. slot'[from + k] \in Synthetic
    BY <1>1, <1>2
  <2> QED
    BY <1>2, <2>1, EventTypes DEF Verdicts
<1>4. /\ log' \in Seq(Events) /\ Len(log') = Len(events) + n
      /\ \A k \in 1..Len(events) : log'[k] = events[k]
      /\ \A k \in 1..n : log'[Len(events) + k] = t[k]
  <2> HIDE DEF n
  <2>1. log' = events \o t
    BY <1>1 DEF n
  <2>2. n \in Nat /\ t \in [1..n -> Events]
    BY <1>2, <1>3 DEF n
  <2> HIDE DEF t
  <2>3. /\ events \o t \in Seq(Events) /\ Len(events \o t) = Len(events) + n
        /\ \A k \in 1..Len(events) : (events \o t)[k] = events[k]
        /\ \A k \in 1..n : (events \o t)[Len(events) + k] = t[k]
    BY <2>2, AppendMany
  <2> QED
    BY <2>1, <2>3
<1>5. \A k \in 1..n : /\ log'[Len(events) + k].kind = "result"
                      /\ log'[Len(events) + k].call = from + k
                      /\ log'[Len(events) + k].verdict = slot'[from + k]
  <2> SUFFICES ASSUME NEW k \in 1..n
               PROVE  /\ log'[Len(events) + k].kind = "result"
                      /\ log'[Len(events) + k].call = from + k
                      /\ log'[Len(events) + k].verdict = slot'[from + k]
    OBVIOUS
  <2>1. t[k] = Result(from + k, slot'[from + k])
    OBVIOUS
  <2> HIDE DEF t, n
  <2>2. log'[Len(events) + k] = Result(from + k, slot'[from + k])
    BY <1>4, <2>1
  <2> QED
    BY <2>2 DEF Result
<1> HIDE DEF n, t
<1>6. Len(events) \in Nat /\ DOMAIN events = 1..Len(events) /\ DOMAIN log' = 1..Len(events) + n
  BY <1>2, <1>4
<1>7. \A k \in DOMAIN log' : k \in 1..Len(events) \/ \E j \in 1..n : k = Len(events) + j
  <2> SUFFICES ASSUME NEW k \in DOMAIN log', k \notin 1..Len(events)
               PROVE  \E j \in 1..n : k = Len(events) + j
    OBVIOUS
  <2>1. k - Len(events) \in 1..n /\ k = Len(events) + (k - Len(events))
    BY <1>2, <1>6
  <2> QED
    BY <2>1
<1>8. Answered(log', upTo, slot')
  <2>1. ASSUME NEW k \in DOMAIN log', log'[k].kind = "result"
        PROVE  log'[k].call \in 1..upTo /\ log'[k].verdict = slot'[log'[k].call]
    <3>1. CASE k \in 1..Len(events)
      BY <1>0, <1>1, <1>4, <1>6, <2>1, <3>1 DEF Answered
    <3>2. ASSUME NEW j \in 1..n, k = Len(events) + j
          PROVE  log'[k].call \in 1..upTo /\ log'[k].verdict = slot'[log'[k].call]
      <4>1. log'[k].call = from + j /\ log'[k].verdict = slot'[from + j]
        BY <1>5, <3>2
      <4>2. from + j \in 1..upTo
        BY <1>0, <1>2, <3>2
      <4> QED
        BY <4>1, <4>2
    <3> QED
      BY <1>7, <3>1, <3>2
  <2>2. ASSUME NEW j \in DOMAIN log', NEW k \in DOMAIN log', j < k,
               log'[j].kind = "result", log'[k].kind = "result"
        PROVE  log'[j].call < log'[k].call
    <3>1. CASE k \in 1..Len(events)
      BY <1>4, <1>6, <2>2, <3>1 DEF Answered
    <3>2. CASE j \in 1..Len(events) /\ k \notin 1..Len(events)
      <4>1. log'[j].call \in 1..from
        BY <1>4, <1>6, <2>2, <3>2 DEF Answered
      <4>2. PICK b \in 1..n : k = Len(events) + b
        BY <1>7, <3>2
      <4>3. log'[k].call = from + b /\ log'[j].call \in Nat /\ log'[j].call <= from
        BY <1>0, <1>5, <4>1, <4>2
      <4>4. b \in Nat /\ b > 0
        BY <1>2
      <4> QED
        BY <1>0, <4>3, <4>4
    <3>3. CASE j \notin 1..Len(events)
      <4>1. PICK a \in 1..n : j = Len(events) + a
        BY <1>7, <3>3
      <4>2. k \notin 1..Len(events)
        BY <1>6, <2>2, <4>1
      <4>3. PICK b \in 1..n : k = Len(events) + b
        BY <1>7, <4>2
      <4>4. a < b
        BY <1>2, <1>6, <2>2, <4>1, <4>3
      <4>5. log'[j].call = from + a /\ log'[k].call = from + b
        BY <1>5, <4>1, <4>3
      <4> QED
        BY <1>0, <1>2, <4>4, <4>5
    <3> QED
      BY <3>1, <3>2, <3>3
  <2>3. ASSUME NEW i \in 1..upTo
        PROVE  /\ slot'[i] # "none"
               /\ \E k \in DOMAIN log' : log'[k].kind = "result" /\ log'[k].call = i
    <3>1. CASE i <= from
      <4>1. i \in 1..from
        BY <1>0, <3>1
      <4>2. slot'[i] # "none" /\ \E k \in DOMAIN events : events[k].kind = "result" /\ events[k].call = i
        BY <4>1 DEF Answered
      <4> QED
        BY <1>2, <1>4, <1>6, <4>2
    <3>2. CASE i > from
      <4>1. i \in from + 1..upTo /\ i - from \in 1..n /\ from + (i - from) = i
        BY <1>0, <1>2, <3>2
      <4>2. slot'[i] \in Synthetic
        BY <1>1, <4>1
      <4>3. Len(events) + (i - from) \in DOMAIN log'
        BY <1>6, <4>1, <1>2
      <4> QED
        BY <1>5, <4>1, <4>2, <4>3 DEF Synthetic
    <3> QED
      BY <1>0, <3>1, <3>2
  <2> QED
    BY <2>1, <2>2, <2>3 DEF Answered
<1> QED
  BY <1>1, <1>2, <1>4, <1>6, <1>8

(* The parts of the state that commitReady finds settled. *)
Settled ==
    /\ checkpoint \in BOOLEAN /\ stop \in BOOLEAN /\ refused \in BOOLEAN
    /\ unsaved \in BOOLEAN /\ threw \in BOOLEAN
    /\ ending \in {"open", "aborted", "unsaved"}
    /\ next \in 1..N + 1
    /\ started \in 0..N
    /\ slot \in [Call -> {"none", "real"} \cup Synthetic]
    /\ pool \in SUBSET Call
    /\ body \in [Call -> {"none", "hooks", "running", "ok", "failed", "unran"}]
    /\ PoolInv /\ SlotInv /\ NoGaps
    /\ started < next

(* commitReady restores the invariant. *)
LEMMA CommitInv ==
  ASSUME NEW events \in Seq(Events), NEW from \in 0..N,
         CommitReady(events, from),
         Settled', from < next', Answered(events, from, slot'),
         durable' \in 0..Len(events),
         checkpoint' => \A i \in Call : body'[i] # "none" =>
             \E k \in 1..durable' : events[k].kind = "dispatch" /\ events[k].call = i
  PROVE  IInv'
<1>0. N \in Nat /\ from \in Nat /\ MaxParallel \in Nat /\ MaxParallel > 0
  BY Numbers
<1>1. /\ log' \in Seq(Events)
      /\ Len(events) <= Len(log')
      /\ \A k \in 1..Len(events) : log'[k] = events[k]
      /\ committed' \in from..N
      /\ \A i \in from + 1..committed' : slot'[i] \in Synthetic
      /\ committed' < N => slot'[committed' + 1] \notin Synthetic
      /\ pc' = IF committed' < N /\ slot'[committed' + 1] = "real" THEN "finalize"
               ELSE Onward(next', pool')
      /\ Answered(log', committed', slot')
  BY CommitLog DEF Settled
<1>2. pc' \in {"finalize", "fill", "prepare", "race", "drain"}
  BY <1>1 DEF Onward
<1>3. Types'
  <2>1. Len(events) \in Nat /\ Len(log') \in Nat
    BY <1>1
  <2>2. durable' \in 0..Len(log') /\ committed' \in 0..N
    BY <1>0, <1>1, <2>1
  <2> QED
    BY <1>1, <1>2, <2>2 DEF Types, Settled, Waits
<1>4. Alive' /\ Batch'
  BY <1>2 DEF Alive, Batch, Waits
<1>5. EndingInv'
  BY <1>1, <1>2 DEF EndingInv, Settled, Onward, Waits
<1>6. committed' < next'
  <2>1. CASE committed' = from
    BY <2>1
  <2>2. CASE committed' # from
    <3>1. committed' \in from + 1..committed' /\ committed' \in Call
      BY <1>0, <1>1, <2>2 DEF Call
    <3>2. slot'[committed'] # "none"
      BY <1>1, <3>1 DEF Synthetic
    <3>3. next' \in Nat /\ ~(committed' >= next')
      BY <1>0, <3>1, <3>2 DEF Settled, SlotInv
    <3> QED
      BY <1>0, <3>1, <3>3 DEF Call
  <2> QED
    BY <2>1, <2>2
<1>7. LaneInv'
  <2>0. next' \in 1..N + 1 /\ started' < next' /\ NoGaps' /\ PoolInv' /\ SlotInv'
    BY DEF Settled
  <2>1. CASE pc' = "finalize"
    BY <1>1, <1>6, <2>0, <2>1 DEF LaneInv, Waits, Onward
  <2>2. CASE pc' # "finalize"
    <3>1. /\ pc' = Onward(next', pool')
          /\ committed' = N \/ slot'[committed' + 1] = "none"
      <4>1. pc' = Onward(next', pool')
        BY <1>1, <2>2
      <4>2. CASE committed' < N
        <5>0. committed' \in Nat
          BY <1>0, <1>1
        <5>1. committed' + 1 \in Call
          BY <4>2, <5>0, NextCall
        <5> QED
          BY <1>1, <2>2, <4>1, <4>2, <5>1 DEF Settled
      <4> QED
        BY <1>0, <1>1, <4>1, <4>2
    <3>2. CASE pc' = "fill"
      BY <1>6, <2>0, <3>1, <3>2 DEF LaneInv, Waits
    <3>3. CASE pc' = "prepare"
      <4>1. MayStart(next', pool') /\ ~BatchAborted'
        BY <3>1, <3>3 DEF Onward
      <4>2. MayStart(next, pool)'
        BY <4>1 DEF MayStart
      <4>3. \A j \in 1..next' - 1 : j <= started' \/ slot'[j] # "none"
        BY <2>0, <4>1 DEF NoGaps, Gap
      <4> QED
        BY <1>6, <2>0, <3>1, <3>3, <4>2, <4>3 DEF LaneInv, Waits
    <3>4. CASE pc' = "race"
      BY <1>6, <2>0, <3>1, <3>4 DEF LaneInv, Waits
    <3>5. CASE pc' = "drain"
      <4>1. ASSUME ~BatchAborted' PROVE next' = N + 1 /\ pool' = {}
        <5>1. ~MayStart(next', pool') /\ pool' = {}
          BY <3>1, <3>5, <4>1 DEF Onward
        <5>2. Cardinality({}) = 0
          BY FS_EmptySet
        <5>3. ~(next' <= N)
          BY <1>0, <5>1, <5>2 DEF MayStart
        <5> QED
          BY <1>0, <2>0, <5>1, <5>3
      <4> QED
        BY <1>6, <2>0, <3>1, <3>5, <4>1 DEF LaneInv, Waits
    <3> QED
      BY <1>2, <2>2, <3>2, <3>3, <3>4, <3>5
  <2> QED
    BY <2>1, <2>2
<1>8. MarkInv'
  <2>1. \A k \in 1..durable' : log'[k] = events[k]
    BY <1>1
  <2> QED
    BY <2>1 DEF MarkInv
<1>9. AnswersInv'
  BY <1>1, <1>3, <1>4, BatchAnswers DEF Settled
<1> QED
  BY <1>1, <1>3, <1>4, <1>5, <1>7, <1>8, <1>9 DEF IInv, Settled

-----------------------------------------------------------------------------
(* The log with one more entry. *)
LEMMA AppendOne ==
  ASSUME NEW s \in Seq(Events), NEW e \in Events
  PROVE  /\ Append(s, e) \in Seq(Events)
         /\ Len(Append(s, e)) = Len(s) + 1 /\ Len(s) \in Nat
         /\ DOMAIN s = 1..Len(s)
         /\ DOMAIN Append(s, e) = 1..Len(s) + 1
         /\ \A k \in 1..Len(s) : Append(s, e)[k] = s[k]
         /\ Append(s, e)[Len(s) + 1] = e
  OBVIOUS

(* Another event leaves the answers what they are. *)
LEMMA AnsweredAppend ==
  ASSUME NEW s \in Seq(Events), NEW e \in Events, e.kind # "result",
         NEW n \in Nat, NEW slots, Answered(s, n, slots)
  PROVE  Answered(Append(s, e), n, slots)
<1>1. /\ Len(s) \in Nat /\ DOMAIN s = 1..Len(s)
      /\ DOMAIN Append(s, e) = 1..Len(s) + 1
      /\ \A k \in 1..Len(s) : Append(s, e)[k] = s[k]
      /\ Append(s, e)[Len(s) + 1] = e
  BY AppendOne
<1>2. \A k \in DOMAIN Append(s, e) : Append(s, e)[k].kind = "result" => k \in DOMAIN s
  BY <1>1
<1> QED
  BY <1>1, <1>2 DEF Answered

(* The next call's answer. *)
LEMMA AnsweredNext ==
  ASSUME NEW s \in Seq(Events), NEW n \in Nat, n < N, NEW slots, Answered(s, n, slots),
         slots[n + 1] = "real"
  PROVE  /\ Result(n + 1, "real") \in Events
         /\ Answered(Append(s, Result(n + 1, "real")), n + 1, slots)
<1> DEFINE e == Result(n + 1, "real")
<1>0. n + 1 \in Call /\ e.kind = "result" /\ e.call = n + 1 /\ e.verdict = "real"
  BY NextCall DEF Result
<1>1. e \in Events
  BY <1>0, EventTypes DEF Verdicts
<1> HIDE DEF e
<1>2. /\ Len(s) \in Nat /\ DOMAIN s = 1..Len(s)
      /\ DOMAIN Append(s, e) = 1..Len(s) + 1
      /\ \A k \in 1..Len(s) : Append(s, e)[k] = s[k]
      /\ Append(s, e)[Len(s) + 1] = e
  BY <1>1, AppendOne
<1>3. ASSUME NEW k \in DOMAIN Append(s, e), Append(s, e)[k].kind = "result"
      PROVE  /\ Append(s, e)[k].call \in 1..n + 1
             /\ Append(s, e)[k].verdict = slots[Append(s, e)[k].call]
  <2>1. CASE k \in 1..Len(s)
    BY <1>2, <1>3, <2>1 DEF Answered
  <2>2. CASE k = Len(s) + 1
    BY <1>0, <1>2, <2>2
  <2> QED
    BY <1>2, <2>1, <2>2
<1>4. ASSUME NEW j \in DOMAIN Append(s, e), NEW k \in DOMAIN Append(s, e), j < k,
             Append(s, e)[j].kind = "result", Append(s, e)[k].kind = "result"
      PROVE  Append(s, e)[j].call < Append(s, e)[k].call
  <2>1. CASE k \in 1..Len(s)
    BY <1>2, <1>4, <2>1 DEF Answered
  <2>2. CASE k = Len(s) + 1
    <3>1. j \in 1..Len(s)
      BY <1>2, <1>4, <2>2
    <3>2. Append(s, e)[j].call \in 1..n
      BY <1>2, <1>4, <3>1 DEF Answered
    <3> QED
      BY <1>0, <1>2, <2>2, <3>2
  <2> QED
    BY <1>2, <2>1, <2>2
<1>5. ASSUME NEW i \in 1..n + 1
      PROVE  /\ slots[i] # "none"
             /\ \E k \in DOMAIN Append(s, e) : Append(s, e)[k].kind = "result" /\ Append(s, e)[k].call = i
  <2>1. CASE i \in 1..n
    <3>1. PICK k \in DOMAIN s : s[k].kind = "result" /\ s[k].call = i
      BY <2>1 DEF Answered
    <3> QED
      BY <1>2, <2>1, <3>1 DEF Answered
  <2>2. CASE i = n + 1
    <3>1. Len(s) + 1 \in DOMAIN Append(s, e)
      BY <1>2
    <3> QED
      BY <1>0, <1>2, <2>2, <3>1
  <2> QED
    BY <2>1, <2>2
<1> QED
  BY <1>1, <1>3, <1>4, <1>5 DEF Answered, e

LEMMA AnsweredSlots ==
  ASSUME NEW s, NEW n \in Nat, NEW slots, NEW others, Answered(s, n, slots),
         \A i \in 1..n : others[i] = slots[i]
  PROVE  Answered(s, n, others)
  BY DEF Answered

(* Between its calls to commitReady the lane keeps what that call needs.    *)
LEMMA SettledInBatch ==
  ASSUME IInv, Batch, pc # "save"
  PROVE  Settled
  BY DEF IInv, Types, Batch, Waits, Alive, EndingInv, LaneInv, Settled

LEMMA PoolFinite ==
  ASSUME NEW s \in SUBSET Call
  PROVE  IsFiniteSet(s) /\ Cardinality(s) \in Nat
<1>1. 1 \in Int /\ N \in Int
  BY Numbers
<1>2. IsFiniteSet(Call)
  BY <1>1, FS_Interval DEF Call
<1>3. IsFiniteSet(s)
  BY <1>2, FS_Subset
<1> QED
  BY <1>3, FS_CardinalityType

(* The lane dispatches the next call. *)
LEMMA DispatchStep ==
  ASSUME IInv, pc \in {"prepare", "save"}, NEW events \in Seq(Events),
         Dispatch(events), started' = next,
         Answered(events, committed, slot),
         durable' \in 0..Len(events),
         checkpoint => \A i \in Call : body[i] # "none" \/ i = next =>
             \E k \in 1..durable' : events[k].kind = "dispatch" /\ events[k].call = i
  PROVE  IInv'
<1>0. N \in Nat /\ MaxParallel \in Nat
  BY Numbers
<1>1. Types /\ PoolInv /\ SlotInv /\ LaneInv /\ EndingInv
  BY DEF IInv, Batch, Alive, Waits
<1>2. /\ MayStart(next, pool) /\ next \in Call /\ ending = "open"
      /\ committed < next /\ committed \in 0..N
  BY <1>0, <1>1 DEF LaneInv, EndingInv, MayStart, Types, Call, Waits
<1>3. /\ next' = next + 1 /\ pool' = pool \cup {next}
      /\ body' = [body EXCEPT ![next] = "hooks"]
      /\ checkpoint' = checkpoint /\ proven' = proven /\ ending' = ending /\ slot' = slot
      /\ stop' = stop /\ refused' = refused /\ unsaved' = unsaved /\ threw' = threw
      /\ CommitReady(events, committed)
  BY DEF Dispatch
<1>4. next \in 1..N /\ next' \in 1..N + 1 /\ started' \in 0..N /\ started' < next' /\ committed < next'
  BY <1>0, <1>2, <1>3 DEF Call
<1>5. PoolInv'
  <2>1. Active' \subseteq pool'
    BY <1>1, <1>3 DEF Active, PoolInv, Types
  <2>2. \A i \in pool' : i < next' /\ body'[i] # "none"
    BY <1>0, <1>1, <1>3, <1>4 DEF PoolInv, Types, Call
  <2>3. Cardinality(pool') <= MaxParallel
    <3>1. IsFiniteSet(pool) /\ Cardinality(pool) \in Nat /\ Cardinality(pool) < MaxParallel
      BY <1>1, <1>2, PoolFinite DEF Types, MayStart
    <3>2. Cardinality(pool \cup {next}) \in {Cardinality(pool), Cardinality(pool) + 1}
      BY <3>1, FS_AddElement
    <3> QED
      BY <1>0, <1>3, <3>1, <3>2
  <2>4. \A i, j \in pool' : i \in Exclusive => i = j
    BY <1>1, <1>2, <1>3 DEF PoolInv, MayStart
  <2> QED
    BY <1>2, <1>3, <2>1, <2>2, <2>3, <2>4 DEF PoolInv
<1>6. SlotInv'
  <2>1. \A i \in Call : body'[i] # "none" => i <= started' /\ i < next'
    BY <1>0, <1>1, <1>3, <1>4 DEF SlotInv, Types, Call
  <2>2. \A i \in Call : i >= next' => slot'[i] = "none"
    BY <1>0, <1>1, <1>3, <1>4 DEF SlotInv, Call
  <2>3. slot[next] = "none"
    BY <1>1, <1>2, <1>4 DEF SlotInv, Types
  <2>4. \A i \in Call : slot'[i] \in {"invalid", "undispatched"} => body'[i] = "none"
    BY <1>1, <1>3, <2>3 DEF SlotInv, Types
  <2>5. \A i \in Active' : slot'[i] = "none"
    BY <1>1, <1>3, <2>3 DEF SlotInv, Types, Active
  <2>6. \A i \in Call : body'[i] = "ok" => slot'[i] = "real"
    BY <1>1, <1>3 DEF SlotInv, Types
  <2>7. \A i \in 1..next' - 1 : i \in pool' \/ slot'[i] # "none" \/ BatchAborted'
    BY <1>0, <1>1, <1>3, <1>4 DEF SlotInv, BatchAborted, Stopped
  <2>8. \A i \in Call : body'[i] \in {"failed", "unran"} => slot'[i] # "none" \/ BatchAborted'
    BY <1>1, <1>3 DEF SlotInv, Types, BatchAborted, Stopped
  <2> QED
    BY <1>2, <1>3, <2>1, <2>2, <2>4, <2>5, <2>6, <2>7, <2>8 DEF SlotInv
<1>7. NoGaps'
  BY <1>0, <1>3, <1>4 DEF NoGaps
<1>8. Settled'
  BY <1>1, <1>2, <1>3, <1>4, <1>5, <1>6, <1>7 DEF Settled, Types
<1>9. \A i \in Call : body'[i] # "none" => body[i] # "none" \/ i = next
  BY <1>1, <1>3 DEF Types
<1> QED
  BY <1>2, <1>3, <1>4, <1>8, <1>9, CommitInv

(* The lane goes past a call whose body will not run. *)
LEMMA PassStep ==
  ASSUME IInv, pc \in {"prepare", "save"},
         next' = next + 1, pool' = pool, body' = body, ending' = ending, threw' = threw,
         checkpoint' = checkpoint, durable' \in durable..Len(log), stop' = stop, refused' = refused,
         unsaved' \in BOOLEAN, unsaved => unsaved', started' = started,
         \/ slot' = slot /\ pc = "prepare" /\ BatchAborted
         \/ slot' = [slot EXCEPT ![next] = "invalid"]
         \/ slot' = [slot EXCEPT ![next] = "undispatched"],
         CommitReady(log, committed)
  PROVE  IInv'
<1>0. N \in Nat /\ MaxParallel \in Nat
  BY Numbers
<1>1. Types /\ PoolInv /\ SlotInv /\ LaneInv /\ EndingInv /\ Answered(log, committed, slot) /\ MarkInv
  BY DEF IInv, Batch, Alive, Waits
<1>2. /\ MayStart(next, pool) /\ next \in Call /\ ending = "open"
      /\ committed < next /\ committed \in 0..N /\ started <= next /\ started \in 0..N
  BY <1>0, <1>1 DEF LaneInv, EndingInv, MayStart, Types, Call, Waits
<1>3. next \in 1..N /\ N \in Nat
  BY <1>0, <1>2 DEF Call
<1>4. next \in 1..N /\ next' \in 1..N + 1 /\ started' < next' /\ committed < next'
  BY <1>0, <1>2 DEF Call
<1>5. BatchAborted => BatchAborted'
  BY DEF BatchAborted, Stopped
<1>6. /\ slot' \in [Call -> {"none", "real"} \cup Synthetic]
      /\ \A i \in Call : i # next => slot'[i] = slot[i]
      /\ slot'[next] \in {"none", "invalid", "undispatched"}
      /\ slot'[next] = "none" => BatchAborted'
  <2>1. slot[next] = "none"
    BY <1>1, <1>2, <1>4 DEF SlotInv, Types
  <2> QED
    BY <1>1, <1>2, <1>5, <2>1 DEF Types, Synthetic
<1>7. body[next] = "none"
  BY <1>0, <1>1, <1>2 DEF SlotInv, Types, Call
<1>8. PoolInv'
  BY <1>0, <1>1, <1>4 DEF PoolInv, Active, Types, Call
<1>9. SlotInv'
  <2>1. \A i \in Call : body'[i] # "none" => i <= started' /\ i < next'
    BY <1>0, <1>1 DEF SlotInv, Types, Call
  <2>2. \A i \in Call : i >= next' => slot'[i] = "none"
    BY <1>0, <1>1, <1>4, <1>6 DEF SlotInv, Call
  <2>4. \A i \in Call : slot'[i] \in {"invalid", "undispatched"} => body'[i] = "none"
    BY <1>1, <1>6, <1>7 DEF SlotInv
  <2>5. \A i \in Active' : slot'[i] = "none"
    BY <1>1, <1>6, <1>7 DEF SlotInv, Active
  <2>6. \A i \in Call : body'[i] = "ok" => slot'[i] = "real"
    BY <1>1, <1>6, <1>7 DEF SlotInv
  <2>7. \A i \in 1..next' - 1 : i \in pool' \/ slot'[i] # "none" \/ BatchAborted'
    <3> SUFFICES ASSUME NEW i \in 1..next PROVE i \in pool' \/ slot'[i] # "none" \/ BatchAborted'
      BY <1>4
    <3>1. CASE i = next
      BY <1>6, <3>1
    <3>2. CASE i # next
      <4>1. i \in 1..next - 1 /\ i \in Call
        BY <1>3, <3>2 DEF Call
      <4> QED
        BY <1>1, <1>5, <1>6, <3>2, <4>1 DEF SlotInv
    <3> QED
      BY <3>1, <3>2
  <2>8. \A i \in Call : body'[i] \in {"failed", "unran"} => slot'[i] # "none" \/ BatchAborted'
    BY <1>1, <1>5, <1>6, <1>7 DEF SlotInv
  <2> QED
    BY <1>2, <2>1, <2>2, <2>4, <2>5, <2>6, <2>7, <2>8 DEF SlotInv
<1>10. NoGaps'
  <2> SUFFICES ASSUME NEW j \in 1..next
               PROVE  j <= started \/ slot'[j] # "none" \/ (j = next /\ BatchAborted')
    BY <1>4 DEF NoGaps, Gap
  <2>1. CASE j = next
    BY <1>6, <2>1
  <2>2. CASE j # next
    <3>1. j \in 1..next - 1 /\ j \in Call
      BY <1>3, <2>2 DEF Call
    <3>2. j <= started \/ slot[j] # "none"
      BY <1>1, <3>1 DEF LaneInv
    <3> QED
      BY <1>6, <2>2, <3>1, <3>2
  <2> QED
    BY <2>1, <2>2
<1>11. Answered(log, committed, slot')
  <2>1. \A i \in 1..committed : i \in Call /\ i # next /\ slot'[i] = slot[i]
    BY <1>0, <1>2, <1>4, <1>6 DEF Call
  <2> QED
    BY <1>1, <1>2, <2>1, AnsweredSlots
<1>12. Settled'
  BY <1>1, <1>2, <1>4, <1>6, <1>8, <1>9, <1>10 DEF Settled, Types
<1>13. log \in Seq(Events) /\ durable' \in 0..Len(log)
  BY <1>1 DEF Types
<1>14. checkpoint' => \A i \in Call : body'[i] # "none" =>
          \E k \in 1..durable' : log[k].kind = "dispatch" /\ log[k].call = i
  <2>1. durable \in Nat /\ \A k \in 1..durable : k \in 1..durable'
    BY <1>1 DEF Types
  <2> QED
    BY <1>1, <2>1 DEF MarkInv
<1> QED
  BY <1>1, <1>2, <1>4, <1>11, <1>12, <1>13, <1>14, CommitInv

-----------------------------------------------------------------------------
(* The steps of the lane that prepare a call. *)
LEMMA MarkedLog ==
  ASSUME IInv, pc = "prepare"
  PROVE  /\ next \in Call
         /\ Append(log, Event("dispatch", next)) \in Seq(Events)
         /\ Len(Append(log, Event("dispatch", next))) = Len(log) + 1 /\ Len(log) \in Nat
         /\ \A k \in 1..Len(log) : Append(log, Event("dispatch", next))[k] = log[k]
         /\ Append(log, Event("dispatch", next))[Len(log) + 1].kind = "dispatch"
         /\ Append(log, Event("dispatch", next))[Len(log) + 1].call = next
         /\ Answered(Append(log, Event("dispatch", next)), committed, slot)
<1>1. Types /\ LaneInv /\ Answered(log, committed, slot)
  BY DEF IInv, Batch, Waits
<1>2. next \in Call /\ committed \in Nat
  BY <1>1, Numbers DEF LaneInv, MayStart, Types, Call
<1> DEFINE e == Event("dispatch", next)
<1>3. e \in Events /\ e.kind = "dispatch" /\ e.call = next
  BY <1>2, EventTypes DEF Event
<1> HIDE DEF e
<1>4. /\ Append(log, e) \in Seq(Events)
      /\ Len(Append(log, e)) = Len(log) + 1 /\ Len(log) \in Nat
      /\ \A k \in 1..Len(log) : Append(log, e)[k] = log[k]
      /\ Append(log, e)[Len(log) + 1] = e
  BY <1>1, <1>3, AppendOne DEF Types
<1>5. Answered(Append(log, e), committed, slot)
  BY <1>1, <1>2, <1>3, AnsweredAppend DEF Types
<1> QED
  BY <1>2, <1>3, <1>4, <1>5 DEF e

LEMMA PrepareStartsStep == ASSUME IInv, PrepareStarts PROVE IInv'
<1>0. N \in Nat
  BY Numbers
<1>1. /\ Types /\ PoolInv /\ SlotInv /\ LaneInv /\ EndingInv /\ Answered(log, committed, slot)
      /\ MarkInv /\ pc = "prepare" /\ ~BatchAborted /\ started' = next
  BY DEF IInv, Batch, Alive, Waits, PrepareStarts
<1> DEFINE marked == Append(log, Event("dispatch", next))
<1>2. /\ next \in Call
      /\ marked \in Seq(Events) /\ Len(marked) = Len(log) + 1 /\ Len(log) \in Nat
      /\ \A k \in 1..Len(log) : marked[k] = log[k]
      /\ marked[Len(log) + 1].kind = "dispatch" /\ marked[Len(log) + 1].call = next
      /\ Answered(marked, committed, slot)
  BY <1>1, MarkedLog
<1>3. durable \in 0..Len(log)
  BY <1>1 DEF Types
<1>4. CASE ~checkpoint
  <2>1. durable' = durable /\ Dispatch(marked)
    BY <1>4 DEF PrepareStarts
  <2> HIDE DEF marked
  <2>2. durable' \in 0..Len(marked)
    BY <1>2, <1>3, <2>1
  <2> QED
    BY <1>1, <1>2, <1>4, <2>1, <2>2, DispatchStep
<1>5. CASE checkpoint
  <2>1. /\ log' = marked /\ pc' = "save"
        /\ checkpoint' = checkpoint /\ proven' = proven /\ durable' = durable
        /\ committed' = committed /\ ending' = ending /\ next' = next /\ slot' = slot
        /\ pool' = pool /\ stop' = stop /\ refused' = refused /\ unsaved' = unsaved
        /\ body' = body /\ threw' = threw
    BY <1>5 DEF PrepareStarts, host
  <2> HIDE DEF marked
  <2>2. Types'
    BY <1>0, <1>1, <1>2, <1>3, <2>1 DEF Types, Call, Waits
  <2>3. PoolInv' /\ EndingInv'
    BY <1>1, <2>1 DEF PoolInv, EndingInv, Active, Waits
  <2>4. SlotInv'
    <3>1. \A i \in Call : body[i] # "none" => i <= next
      BY <1>1 DEF SlotInv, Types, Call
    <3>2. ending = "open"
      BY <1>1 DEF EndingInv, Waits
    <3> QED
      BY <1>1, <2>1, <3>1, <3>2 DEF SlotInv, Active, BatchAborted, Stopped
  <2>5. LaneInv'
    <3>1. \A j \in 1..next - 1 : j <= next
      BY <1>1 DEF Types
    <3>2. Has("dispatch", next)'
      <4>1. Len(log) + 1 \in DOMAIN log'
        BY <1>2, <2>1
      <4> QED
        BY <1>2, <2>1, <4>1 DEF Has
    <3> QED
      BY <1>1, <2>1, <3>1, <3>2 DEF LaneInv, MayStart, Waits, NoGaps
  <2>6. Answered(log', committed', slot')
    BY <1>2, <2>1
  <2>7. MarkInv'
    BY <1>1, <1>2, <1>3, <2>1 DEF MarkInv
  <2>8. Batch' /\ Alive'
    BY <2>1 DEF Batch, Alive, Waits
  <2>9. AnswersInv'
    BY <2>2, <2>4, <2>6, <2>8, BatchAnswers
  <2> QED
    BY <2>2, <2>3, <2>4, <2>5, <2>6, <2>7, <2>8, <2>9 DEF IInv
<1> QED
  BY <1>4, <1>5

LEMMA PassingSteps ==
  ASSUME IInv, PrepareTooLate \/ PrepareInvalid \/ SaveFails
  PROVE  IInv'
<1>1. Types /\ durable' \in durable..Len(log)
  BY DEF IInv, PrepareTooLate, PrepareInvalid, SaveFails, host, Types
<1>2. CASE PrepareTooLate
  BY <1>1, <1>2, PassStep DEF PrepareTooLate, Types, host
<1>3. CASE PrepareInvalid
  BY <1>1, <1>3, PassStep DEF PrepareInvalid, Types, host
<1>4. CASE SaveFails
  BY <1>1, <1>4, PassStep DEF SaveFails, Undispatched, Types
<1> QED
  BY <1>2, <1>3, <1>4

LEMMA SavedStep == ASSUME IInv, Saved PROVE IInv'
<1>1. /\ Types /\ LaneInv /\ MarkInv /\ Answered(log, committed, slot) /\ pc = "save"
      /\ durable' = Len(log)
  BY DEF IInv, Batch, Waits, Saved
<1>2. Len(log) \in Nat /\ durable \in 0..Len(log) /\ log \in Seq(Events) /\ DOMAIN log = 1..Len(log)
  BY <1>1 DEF Types
<1>3. CASE BatchAborted
  BY <1>1, <1>2, <1>3, PassStep DEF Saved, Undispatched, Types
<1>4. CASE ~BatchAborted
  <2>1. Dispatch(log) /\ started' = next
    BY <1>1, <1>4 DEF Saved, LaneInv
  <2>2. \E k \in 1..durable' : log[k].kind = "dispatch" /\ log[k].call = next
    BY <1>1, <1>2 DEF LaneInv, Has
  <2>3. checkpoint => \A i \in Call : body[i] # "none" \/ i = next =>
           \E k \in 1..durable' : log[k].kind = "dispatch" /\ log[k].call = i
    <3>1. \A k \in 1..durable : k \in 1..durable'
      BY <1>1, <1>2
    <3> QED
      BY <1>1, <2>2, <3>1 DEF MarkInv
  <2>4. durable' \in 0..Len(log)
    BY <1>1, <1>2
  <2> QED
    BY <1>1, <1>2, <2>1, <2>3, <2>4, DispatchStep
<1> QED
  BY <1>3, <1>4

-----------------------------------------------------------------------------
(* The hooks behind a tool, and their answer. *)
LEMMA FinalizeStep == ASSUME IInv, Finalize PROVE IInv'
<1>0. N \in Nat
  BY Numbers
<1>1. /\ Types /\ PoolInv /\ SlotInv /\ LaneInv /\ EndingInv /\ Answered(log, committed, slot)
      /\ MarkInv /\ pc = "finalize" /\ Settled
  BY SettledInBatch DEF IInv, Batch, Alive, Waits, Finalize
<1>2. /\ checkpoint' = checkpoint /\ proven' = proven /\ durable' = durable
      /\ ending' = ending /\ next' = next /\ started' = started /\ slot' = slot
      /\ pool' = pool /\ stop' = stop /\ refused' = refused /\ unsaved' = unsaved
      /\ body' = body /\ threw' = threw
  BY DEF Finalize, host
<1>3. committed \in Nat /\ committed < N /\ slot[committed + 1] = "real" /\ committed + 1 \in Call
  BY <1>0, <1>1, NextCall DEF LaneInv, Types
<1> DEFINE e == Result(committed + 1, "real")
           answered == Append(log, e)
<1>4. e \in Events /\ Answered(answered, committed + 1, slot)
  BY <1>1, <1>3, AnsweredNext DEF Types
<1>5. /\ answered \in Seq(Events) /\ Len(answered) = Len(log) + 1 /\ Len(log) \in Nat
      /\ \A k \in 1..Len(log) : answered[k] = log[k]
  BY <1>1, <1>4, AppendOne DEF Types
<1>6. committed + 1 < next /\ committed + 1 \in 0..N
  BY <1>1, <1>3 DEF SlotInv, Types, Call
<1>7. durable \in 0..Len(log)
  BY <1>1 DEF Types
<1>8. checkpoint => \A i \in Call : body[i] # "none" =>
         \E k \in 1..durable : answered[k].kind = "dispatch" /\ answered[k].call = i
  BY <1>1, <1>5, <1>7 DEF MarkInv
<1>9. Settled'
  BY <1>1, <1>2 DEF Settled, PoolInv, SlotInv, NoGaps, Gap, Active, BatchAborted, Stopped
<1>10. CASE stop
  <2>1. CommitReady(answered, committed + 1)
    BY <1>10 DEF Finalize
  <2> HIDE DEF answered
  <2>2. durable' \in 0..Len(answered)
    BY <1>2, <1>5, <1>7
  <2> QED
    BY <1>2, <1>4, <1>5, <1>6, <1>8, <1>9, <2>1, <2>2, CommitInv
<1>11. CASE ~stop
  <2>1. log' = answered /\ committed' = committed + 1 /\ pc' = "observe"
    BY <1>11 DEF Finalize
  <2> HIDE DEF answered
  <2>2. Types'
    BY <1>1, <1>2, <1>5, <1>6, <1>7, <2>1 DEF Types, Waits
  <2>3. LaneInv'
    BY <1>1, <1>2, <1>6, <1>9, <2>1 DEF LaneInv, Settled, Waits
  <2>4. EndingInv'
    BY <1>1, <1>2, <2>1 DEF EndingInv, Waits
  <2>5. Answered(log', committed', slot')
    BY <1>2, <1>4, <2>1
  <2>6. MarkInv'
    BY <1>2, <1>8, <2>1 DEF MarkInv
  <2>7. Batch' /\ Alive'
    BY <2>1 DEF Batch, Alive, Waits
  <2>8. AnswersInv'
    BY <1>9, <2>2, <2>5, <2>7, BatchAnswers DEF Settled
  <2> QED
    BY <1>9, <2>2, <2>3, <2>4, <2>5, <2>6, <2>7, <2>8 DEF IInv, Settled
<1> QED
  BY <1>10, <1>11

LEMMA ObserveStep == ASSUME IInv, Observe PROVE IInv'
<1>1. /\ Types /\ LaneInv /\ Answered(log, committed, slot) /\ MarkInv /\ Settled
  BY SettledInBatch DEF IInv, Batch, Alive, Waits, Observe
<1>2. /\ checkpoint' = checkpoint /\ proven' = proven /\ durable' = durable
      /\ ending' = ending /\ next' = next /\ started' = started /\ slot' = slot
      /\ pool' = pool /\ stop' = stop /\ refused' = refused /\ unsaved' = unsaved
      /\ body' = body /\ threw' = threw /\ CommitReady(log, committed)
  BY DEF Observe, host
<1>3. Settled'
  BY <1>1, <1>2 DEF Settled, PoolInv, SlotInv, NoGaps, Gap, Active, BatchAborted, Stopped
<1>4. log \in Seq(Events) /\ durable' \in 0..Len(log) /\ committed \in 0..N /\ committed < next'
  BY <1>1, <1>2 DEF Types, LaneInv
<1>5. Answered(log, committed, slot')
  BY <1>1, <1>2
<1>6. checkpoint' => \A i \in Call : body'[i] # "none" =>
         \E k \in 1..durable' : log[k].kind = "dispatch" /\ log[k].call = i
  BY <1>1, <1>2 DEF MarkInv
<1> QED
  BY <1>2, <1>3, <1>4, <1>5, <1>6, CommitInv

(* A throw in the lane leaves the log and the cursor as they are. *)
LEMMA ThrowStep ==
  ASSUME IInv, PrepareRefused \/ FinalizeThrows \/ ObserveThrows
  PROVE  IInv'
<1>1. /\ pc \in {"prepare", "finalize", "observe"} /\ LaneThrows
  BY DEF PrepareRefused, FinalizeThrows, ObserveThrows
<1>2. /\ Types /\ PoolInv /\ SlotInv /\ LaneInv /\ EndingInv /\ Answered(log, committed, slot)
      /\ MarkInv
  BY <1>1 DEF IInv, Batch, Alive, Waits
<1>3. /\ checkpoint' = checkpoint /\ proven' = proven /\ durable' = durable /\ log' = log
      /\ ending' = ending /\ next' = next /\ started' = started /\ slot' = slot
      /\ pool' = pool /\ stop' = stop /\ unsaved' = unsaved /\ committed' = committed
      /\ body' = body
      /\ pc' = IF ending = "open" THEN "drain" ELSE "fill"
      /\ refused' = (refused \/ ending = "open")
      /\ threw' = (ending # "open")
  BY <1>1 DEF LaneThrows
<1>4. /\ BatchAborted => BatchAborted'
      /\ refused' \in BOOLEAN /\ threw' \in BOOLEAN
  BY <1>2, <1>3 DEF BatchAborted, Stopped, Types
<1>5. Types'
  BY <1>2, <1>3, <1>4 DEF Types, Waits
<1>6. PoolInv'
  BY <1>2, <1>3 DEF PoolInv, Active
<1>7. SlotInv'
  BY <1>2, <1>3, <1>4 DEF SlotInv, Active
<1>8. EndingInv'
  BY <1>1, <1>2, <1>3 DEF EndingInv, Waits
<1>9. NoGaps'
  BY <1>2, <1>3, <1>4 DEF LaneInv, NoGaps, Gap
<1>10. LaneInv'
  <2>1. ending = "open" => BatchAborted' /\ refused'
    BY <1>3 DEF BatchAborted, Stopped
  <2> QED
    BY <1>1, <1>2, <1>3, <1>9, <2>1 DEF LaneInv, Waits
<1>11. MarkInv'
  BY <1>2, <1>3 DEF MarkInv
<1>12. Batch' /\ Alive' /\ Answered(log', committed', slot')
  BY <1>2, <1>3 DEF Batch, Alive, Waits
<1>13. AnswersInv'
  BY <1>5, <1>7, <1>12, BatchAnswers
<1> QED
  BY <1>5, <1>6, <1>7, <1>8, <1>10, <1>11, <1>12, <1>13 DEF IInv

-----------------------------------------------------------------------------
(* The pool drains. *)
LEMMA RaceStep == ASSUME IInv, NEW i \in Call, Race(i) PROVE IInv'
<1>1. /\ Types /\ PoolInv /\ SlotInv /\ LaneInv /\ Answered(log, committed, slot) /\ MarkInv
      /\ Settled /\ i \in pool \ Active
  BY SettledInBatch DEF IInv, Batch, Alive, Waits, Race
<1>2. /\ checkpoint' = checkpoint /\ proven' = proven /\ durable' = durable
      /\ ending' = ending /\ next' = next /\ started' = started /\ slot' = slot
      /\ pool' = pool \ {i} /\ stop' = stop /\ refused' = refused /\ unsaved' = unsaved
      /\ body' = body /\ threw' = threw /\ CommitReady(log, committed)
  BY DEF Race, host
<1>3. PoolInv'
  <2>1. IsFiniteSet(pool) /\ Cardinality(pool) \in Nat /\ pool' \subseteq pool
    BY <1>1, <1>2, PoolFinite DEF Types
  <2>2. Cardinality(pool') \in Nat /\ Cardinality(pool') <= Cardinality(pool)
    BY <2>1, FS_Subset, FS_CardinalityType
  <2>3. Cardinality(pool') <= MaxParallel
    BY <1>1, <2>1, <2>2, Numbers DEF PoolInv
  <2> QED
    BY <1>1, <1>2, <2>3 DEF PoolInv, Active
<1>4. SlotInv'
  <2>1. slot[i] # "none" \/ BatchAborted
    <3>1. body[i] \in {"ok", "failed", "unran"}
      BY <1>1 DEF PoolInv, Active, Types
    <3> QED
      BY <1>1, <3>1 DEF SlotInv
  <2>2. \A j \in 1..next' - 1 : j \in pool' \/ slot'[j] # "none" \/ BatchAborted'
    BY <1>1, <1>2, <2>1 DEF SlotInv, BatchAborted, Stopped
  <2> QED
    BY <1>1, <1>2, <2>2 DEF SlotInv, Active, BatchAborted, Stopped
<1>5. Settled'
  BY <1>1, <1>2, <1>3, <1>4 DEF Settled, NoGaps, Gap, BatchAborted, Stopped
<1>6. log \in Seq(Events) /\ durable' \in 0..Len(log) /\ committed \in 0..N /\ committed < next'
  BY <1>1, <1>2 DEF Types, LaneInv
<1>7. Answered(log, committed, slot')
  BY <1>1, <1>2
<1>8. checkpoint' => \A j \in Call : body'[j] # "none" =>
         \E k \in 1..durable' : log[k].kind = "dispatch" /\ log[k].call = j
  BY <1>1, <1>2 DEF MarkInv
<1> QED
  BY <1>2, <1>5, <1>6, <1>7, <1>8, CommitInv

(* The endings that answer what was started. *)
LEMMA EndsStep == ASSUME IInv, EndsAborted \/ EndsUnsaved PROVE IInv'
<1>0. N \in Nat
  BY Numbers
<1>1. /\ Types /\ PoolInv /\ SlotInv /\ LaneInv /\ Answered(log, committed, slot) /\ MarkInv
      /\ Settled /\ pool \cap Active = {} /\ BatchAborted
  BY SettledInBatch DEF IInv, Batch, Alive, Waits, EndsAborted, EndsUnsaved, Drained,
                        BatchAborted, Stopped
<1>2. PICK how \in {"aborted", "unsaved"}, verdict \in {"midflight", "failed"} : Ends(how, verdict)
  BY DEF EndsAborted, EndsUnsaved
<1>3. /\ checkpoint' = checkpoint /\ proven' = proven /\ durable' = durable
      /\ ending' = how /\ next' = next /\ started' = started /\ slot' = Filled(verdict)
      /\ pool' = {} /\ stop' = stop /\ refused' = refused /\ unsaved' = unsaved
      /\ body' = body /\ threw' = threw /\ CommitReady(log, committed)
  BY <1>2 DEF Ends, host
<1>4. Active = {} /\ Active' = {}
  BY <1>1, <1>3 DEF PoolInv, Active
<1>5. BatchAborted'
  BY <1>1, <1>3 DEF BatchAborted, Stopped
<1>6. /\ slot' \in [Call -> {"none", "real"} \cup Synthetic]
      /\ \A i \in Call : slot[i] # "none" => slot'[i] = slot[i]
      /\ \A i \in Call : slot[i] = "none" =>
            slot'[i] = IF i \in committed + 1..started THEN verdict ELSE "none"
  BY <1>1, <1>3 DEF Types, Filled, Synthetic
<1>7. \A i \in 1..committed : i \in Call /\ slot'[i] = slot[i]
  BY <1>0, <1>1, <1>6 DEF Answered, Types, Call
<1>8. PoolInv'
  <2>1. Cardinality(pool') <= MaxParallel
    BY <1>3, FS_EmptySet, Numbers
  <2> QED
    BY <1>3, <1>4, <2>1 DEF PoolInv
<1>9. SlotInv'
  <2>1. \A i \in Call : i >= next => slot'[i] = "none"
    BY <1>0, <1>1, <1>6 DEF SlotInv, Types, Call, Settled
  <2>2. \A i \in Call : slot'[i] \in {"invalid", "undispatched"} => body'[i] = "none"
    BY <1>1, <1>3, <1>6 DEF SlotInv
  <2>3. \A i \in Call : body'[i] = "ok" => slot'[i] = "real"
    BY <1>1, <1>3, <1>6 DEF SlotInv
  <2>4. \A i \in 1..started : slot'[i] # "none"
    <3> SUFFICES ASSUME NEW i \in 1..started PROVE slot'[i] # "none"
      OBVIOUS
    <3>0. i \in Call /\ committed \in Nat /\ started \in Nat
      BY <1>0, <1>1 DEF Types, Call
    <3>1. CASE i <= committed
      <4>1. i \in 1..committed
        BY <3>0, <3>1
      <4> QED
        BY <1>1, <1>7, <4>1 DEF Answered
    <3>2. CASE i > committed
      <4>1. i \in committed + 1..started
        BY <3>0, <3>2
      <4> QED
        BY <1>6, <3>0, <4>1
    <3> QED
      BY <3>0, <3>1, <3>2 DEF Call
  <2> QED
    BY <1>1, <1>3, <1>4, <1>5, <2>1, <2>2, <2>3, <2>4 DEF SlotInv
<1>10. NoGaps'
  <2>1. \A j \in 1..next - 1 : j \in Call
    BY <1>0, <1>1 DEF Types, Call
  <2> QED
    BY <1>1, <1>3, <1>5, <1>6, <2>1 DEF Settled, NoGaps, Gap
<1>11. Settled'
  BY <1>1, <1>3, <1>6, <1>8, <1>9, <1>10 DEF Settled, Types
<1>12. Answered(log, committed, slot')
  <2>1. committed \in Nat
    BY <1>1 DEF Types
  <2> QED
    BY <1>1, <1>7, <2>1, AnsweredSlots
<1>13. log \in Seq(Events) /\ durable' \in 0..Len(log) /\ committed \in 0..N /\ committed < next'
  BY <1>1, <1>3 DEF Types, LaneInv
<1>14. checkpoint' => \A j \in Call : body'[j] # "none" =>
         \E k \in 1..durable' : log[k].kind = "dispatch" /\ log[k].call = j
  BY <1>1, <1>3 DEF MarkInv
<1> QED
  BY <1>3, <1>11, <1>12, <1>13, <1>14, CommitInv

(* A batch that nothing stopped has answered all its calls. *)
LEMMA EndsPlainStep == ASSUME IInv, EndsPlain PROVE IInv'
<1>0. N \in Nat
  BY Numbers
<1>1. /\ Types /\ PoolInv /\ SlotInv /\ LaneInv /\ Answered(log, committed, slot) /\ MarkInv
      /\ pool \cap Active = {} /\ pc = "drain" /\ ~stop /\ (unsaved => refused)
  BY DEF IInv, Batch, Alive, Waits, EndsPlain, Drained
<1>2. /\ checkpoint' = checkpoint /\ proven' = proven /\ durable' = durable
      /\ log' = log /\ committed' = committed /\ pc' = "ended"
      /\ ending' = (IF refused THEN "refused" ELSE "answered")
      /\ next' = next /\ started' = started /\ slot' = slot
      /\ pool' = {} /\ stop' = stop /\ refused' = refused /\ unsaved' = unsaved
      /\ body' = body /\ threw' = threw
  BY DEF EndsPlain, host
<1>3. Active = {} /\ Active' = {}
  BY <1>1, <1>2 DEF PoolInv, Active
<1>4. Types'
  BY <1>1, <1>2 DEF Types
<1>5. PoolInv'
  <2>1. Cardinality(pool') <= MaxParallel
    BY <1>2, FS_EmptySet, Numbers
  <2> QED
    BY <1>2, <1>3, <2>1 DEF PoolInv
<1>6. SlotInv'
  <2>1. \A i \in 1..next - 1 : slot[i] # "none" \/ BatchAborted
    <3> SUFFICES ASSUME NEW i \in 1..next - 1, i \in pool PROVE slot[i] # "none" \/ BatchAborted
      BY <1>1 DEF SlotInv
    <3>1. i \in Call /\ body[i] \in {"ok", "failed", "unran"}
      BY <1>1, <1>3 DEF PoolInv, Active, Types
    <3> QED
      BY <1>1, <3>1 DEF SlotInv
  <2> QED
    BY <1>1, <1>2, <1>3, <2>1 DEF SlotInv, BatchAborted, Stopped
<1>7. EndingInv'
  BY <1>2 DEF EndingInv, Waits
<1>8. MarkInv'
  BY <1>1, <1>2 DEF MarkInv
<1>9. EverythingIsAnswered'
  <2>1. CASE refused
    BY <1>2, <2>1 DEF EverythingIsAnswered, Alive
  <2>2. CASE ~refused
    <3>1. ~BatchAborted
      BY <1>1, <2>2 DEF BatchAborted, Stopped
    <3>2. next = N + 1 /\ pool = {}
      BY <1>1, <3>1 DEF LaneInv
    <3>3. committed = N
      <4> SUFFICES ASSUME committed # N PROVE FALSE
        OBVIOUS
      <4>1. slot[committed + 1] = "none"
        BY <1>1, <2>2, <3>2 DEF LaneInv, Waits
      <4>2. committed + 1 \in 1..next - 1
        BY <1>0, <1>1, <3>2 DEF Types
      <4> QED
        BY <1>1, <3>1, <3>2, <4>1, <4>2 DEF SlotInv
    <3>4. ASSUME NEW i \in Call
          PROVE  /\ ResultsOf(i)' # {}
                 /\ body'[i] = "ok" => \A k \in ResultsOf(i)' : log'[k].verdict = "real"
      <4>1. i \in 1..committed
        BY <3>3 DEF Call
      <4>2. \E k \in DOMAIN log : log[k].kind = "result" /\ log[k].call = i
        BY <1>1, <4>1 DEF Answered
      <4>3. \A k \in DOMAIN log : log[k].kind = "result" => log[k].verdict = slot[log[k].call]
        BY <1>1 DEF Answered
      <4> QED
        BY <1>1, <1>2, <4>2, <4>3 DEF ResultsOf, Results, SlotInv
    <3> QED
      BY <3>4 DEF EverythingIsAnswered
  <2> QED
    BY <2>1, <2>2
<1>10. AnsweredOnce' /\ InModelOrder' /\ NeverRanIsTrue'
  BY <1>1, <1>2, <1>4, <1>6, AnswersFollow
<1>11. Alive' /\ ~Batch'
  BY <1>2 DEF Alive, Batch, Waits
<1> QED
  BY <1>4, <1>5, <1>6, <1>7, <1>8, <1>9, <1>10, <1>11 DEF IInv, AnswersInv

-----------------------------------------------------------------------------
(* A list of answers behind a log. *)
LEMMA OrderFacts ==
  ASSUME NEW calls \in SUBSET Call, NEW order \in InOrder(calls)
  PROVE  /\ Cardinality(calls) \in Nat
         /\ order \in [1..Cardinality(calls) -> calls]
         /\ DOMAIN order = 1..Cardinality(calls)
         /\ \A j, k \in DOMAIN order : j < k => order[j] < order[k]
         /\ \A i \in calls : \E k \in DOMAIN order : order[k] = i
  BY PoolFinite DEF InOrder

LEMMA ListedAnswers ==
  ASSUME NEW s \in Seq(Events), NEW calls \in SUBSET Call, NEW order \in InOrder(calls),
         NEW t \in [DOMAIN order -> Events],
         \A k \in DOMAIN order : t[k].kind = "result" /\ t[k].call = order[k]
  PROVE  /\ s \o t \in Seq(Events)
         /\ DOMAIN s = 1..Len(s) /\ Len(s) \in Nat /\ Len(s \o t) \in Nat
         /\ DOMAIN (s \o t) = 1..Len(s \o t) /\ Len(s) <= Len(s \o t)
         /\ \A k \in 1..Len(s) : (s \o t)[k] = s[k]
         /\ \A k \in Len(s) + 1..Len(s \o t) :
               k - Len(s) \in DOMAIN order /\ (s \o t)[k] = t[k - Len(s)]
         /\ \A i \in calls : \E k \in Len(s) + 1..Len(s \o t) :
               (s \o t)[k].kind = "result" /\ (s \o t)[k].call = i
<1> DEFINE n == Cardinality(calls)
<1>1. /\ n \in Nat /\ DOMAIN order = 1..n
      /\ \A i \in calls : \E k \in DOMAIN order : order[k] = i
  BY OrderFacts
<1> HIDE DEF n
<1>2. t \in [1..n -> Events]
  BY <1>1
<1>3. /\ s \o t \in Seq(Events) /\ Len(s \o t) = Len(s) + n /\ Len(s) \in Nat
      /\ \A k \in 1..Len(s) : (s \o t)[k] = s[k]
      /\ \A k \in 1..n : (s \o t)[Len(s) + k] = t[k]
  BY <1>1, <1>2, AppendMany
<1>4. DOMAIN s = 1..Len(s) /\ DOMAIN (s \o t) = 1..Len(s \o t)
  BY <1>3
<1>5. ASSUME NEW k \in Len(s) + 1..Len(s \o t)
      PROVE  k - Len(s) \in DOMAIN order /\ (s \o t)[k] = t[k - Len(s)]
  <2>1. k - Len(s) \in 1..n /\ Len(s) + (k - Len(s)) = k
    BY <1>1, <1>3
  <2> QED
    BY <1>1, <1>3, <2>1
<1>6. ASSUME NEW i \in calls
      PROVE  \E k \in Len(s) + 1..Len(s \o t) : (s \o t)[k].kind = "result" /\ (s \o t)[k].call = i
  <2>1. PICK k \in 1..n : order[k] = i
    BY <1>1
  <2>2. Len(s) + k \in Len(s) + 1..Len(s \o t)
    BY <1>1, <1>3
  <2> QED
    BY <1>1, <1>3, <2>1, <2>2
<1>7. Len(s \o t) \in Nat /\ Len(s) <= Len(s \o t)
  BY <1>1, <1>3
<1> DEFINE u == s \o t
<1> HIDE DEF u
<1>8. /\ u \in Seq(Events) /\ DOMAIN s = 1..Len(s) /\ Len(s) \in Nat /\ Len(u) \in Nat
      /\ DOMAIN u = 1..Len(u) /\ Len(s) <= Len(u)
      /\ \A k \in 1..Len(s) : u[k] = s[k]
  BY <1>3, <1>4, <1>7 DEF u
<1>9. \A k \in Len(s) + 1..Len(u) : k - Len(s) \in DOMAIN order /\ u[k] = t[k - Len(s)]
  BY <1>5 DEF u
<1>10. \A i \in calls : \E k \in Len(s) + 1..Len(u) : u[k].kind = "result" /\ u[k].call = i
  BY <1>6 DEF u
<1> QED
  BY <1>8, <1>9, <1>10 DEF u

(* The calls that never started are answered at the end. *)
LEMMA FillStep == ASSUME IInv, Fill PROVE IInv'
<1>0. N \in Nat
  BY Numbers
<1>1. /\ Types /\ PoolInv /\ SlotInv /\ LaneInv /\ EndingInv /\ Answered(log, committed, slot)
      /\ MarkInv /\ pc = "fill" /\ ending \in {"aborted", "unsaved"}
  BY DEF IInv, Batch, Alive, Waits, Fill, EndingInv
<1>2. /\ checkpoint' = checkpoint /\ proven' = proven /\ durable' = durable
      /\ committed' = committed /\ pc' = "ended" /\ ending' = ending
      /\ next' = next /\ started' = started /\ slot' = slot
      /\ pool' = pool /\ stop' = stop /\ refused' = refused /\ unsaved' = unsaved
      /\ body' = body /\ threw' = threw
  BY DEF Fill, host
<1> DEFINE verdict == IF ending = "aborted" THEN "undispatched" ELSE "cancelled"
<1>3. PICK order \in InOrder(Unstarted) :
         log' = log \o [k \in DOMAIN order |-> Result(order[k], verdict)]
  BY DEF Fill
<1> DEFINE t == [k \in DOMAIN order |-> Result(order[k], verdict)]
<1>4. /\ Unstarted \in SUBSET Call
      /\ \A i \in Unstarted : i > started /\ slot[i] = "none" /\ i > committed
  <2>1. \A i \in Unstarted : i \in Call /\ i > started /\ slot[i] = "none"
    BY <1>0, <1>1 DEF Unstarted, Types, Call
  <2>2. \A i \in Call : slot[i] = "none" => ~(i \in 1..committed)
    BY <1>1 DEF Answered
  <2>3. \A i \in Call : ~(i \in 1..committed) => i > committed
    BY <1>0, <1>1 DEF Types, Call
  <2> QED
    BY <2>1, <2>2, <2>3
<1>5. /\ DOMAIN order = 1..Cardinality(Unstarted)
      /\ \A k \in DOMAIN order : order[k] \in Unstarted
      /\ \A j, k \in DOMAIN order : j < k => order[j] < order[k]
  BY <1>4, OrderFacts
<1>6. \A k \in DOMAIN order : /\ t[k] \in Events /\ t[k].kind = "result" /\ t[k].call = order[k]
                              /\ t[k].verdict \in {"undispatched", "cancelled"}
  <2> SUFFICES ASSUME NEW k \in DOMAIN order
               PROVE  /\ t[k] \in Events /\ t[k].kind = "result" /\ t[k].call = order[k]
                      /\ t[k].verdict \in {"undispatched", "cancelled"}
    OBVIOUS
  <2>1. t[k] = Result(order[k], verdict)
    OBVIOUS
  <2>2. verdict \in {"undispatched", "cancelled"} /\ verdict \in Verdicts
    BY DEF Verdicts, Synthetic
  <2>3. order[k] \in Call
    BY <1>4, <1>5
  <2> HIDE DEF verdict, t
  <2>4. t[k] \in Events
    BY <2>1, <2>2, <2>3, EventTypes
  <2> QED
    BY <2>1, <2>2, <2>4 DEF Result
<1>7. log' = log \o t /\ DOMAIN t = DOMAIN order /\ t = [k \in DOMAIN order |-> t[k]]
  BY <1>3
<1> HIDE DEF t, verdict
<1> DEFINE L == Len(log)
<1>8. /\ log' \in Seq(Events) /\ L \in Nat /\ DOMAIN log = 1..L /\ Len(log') \in Nat
      /\ DOMAIN log' = 1..Len(log') /\ L <= Len(log')
      /\ \A k \in 1..L : log'[k] = log[k]
      /\ \A k \in L + 1..Len(log') : k - L \in DOMAIN order /\ log'[k] = t[k - L]
      /\ \A i \in Unstarted : \E k \in L + 1..Len(log') : log'[k].kind = "result" /\ log'[k].call = i
  <2>1. log \in Seq(Events)
    BY <1>1 DEF Types
  <2>2. /\ log \o t \in Seq(Events)
        /\ DOMAIN log = 1..Len(log) /\ Len(log) \in Nat /\ Len(log \o t) \in Nat
        /\ DOMAIN (log \o t) = 1..Len(log \o t) /\ Len(log) <= Len(log \o t)
        /\ \A k \in 1..Len(log) : (log \o t)[k] = log[k]
        /\ \A k \in Len(log) + 1..Len(log \o t) :
              k - Len(log) \in DOMAIN order /\ (log \o t)[k] = t[k - Len(log)]
        /\ \A i \in Unstarted : \E k \in Len(log) + 1..Len(log \o t) :
              (log \o t)[k].kind = "result" /\ (log \o t)[k].call = i
    <3>1. \A k \in DOMAIN order : t[k].kind = "result" /\ t[k].call = order[k]
      BY <1>6
    <3>2. Unstarted \in SUBSET Call /\ order \in InOrder(Unstarted)
      BY <1>3, <1>4
    <3>3. t \in [DOMAIN order -> Events]
      BY <1>6, <1>7
    <3> QED
      BY <2>1, <3>1, <3>2, <3>3, ListedAnswers
  <2> QED
    BY <1>7, <2>2 DEF L
<1> HIDE DEF L
<1>9. \A k \in DOMAIN log' : k \in 1..L \/ k \in L + 1..Len(log')
  BY <1>8
<1>10. ASSUME NEW k \in L + 1..Len(log')
       PROVE  /\ log'[k].call \in Unstarted
              /\ log'[k].verdict \in {"undispatched", "cancelled"}
  BY <1>5, <1>6, <1>8
<1>11. Types'
  <2>1. durable \in 0..Len(log')
    BY <1>1, <1>8 DEF Types, L
  <2> QED
    BY <1>1, <1>2, <1>8, <2>1 DEF Types
<1>12. PoolInv' /\ SlotInv' /\ EndingInv'
  BY <1>1, <1>2 DEF PoolInv, SlotInv, EndingInv, Active, BatchAborted, Stopped, Waits
<1>13. MarkInv'
  <2>1. durable \in Nat /\ durable' \in Nat /\ durable <= durable' /\ \A k \in 1..durable : k \in 1..L
    BY <1>1, <1>2, <1>8 DEF Types, L
  <2>2. \A k \in 1..durable : log'[k] = log[k]
    BY <1>8, <2>1
  <2> QED
    BY <1>1, <1>2, <2>1, <2>2, MarkKeeps
<1>14. InModelOrder'
  <2> SUFFICES ASSUME NEW j \in Results', NEW k \in Results', j < k
               PROVE  log'[j].call < log'[k].call
    BY DEF InModelOrder
  <2>0. j \in DOMAIN log' /\ k \in DOMAIN log' /\ log'[j].kind = "result" /\ log'[k].kind = "result"
    BY DEF Results
  <2>1. CASE k \in 1..L
    <3>1. j \in 1..L
      BY <1>8, <2>0, <2>1
    <3> QED
      BY <1>1, <1>8, <2>0, <2>1, <3>1 DEF Answered
  <2>2. CASE j \in 1..L /\ k \in L + 1..Len(log')
    <3>1. log'[j].call \in 1..committed
      BY <1>1, <1>8, <2>0, <2>2 DEF Answered
    <3>2. log'[k].call > committed /\ log'[k].call \in Call
      BY <1>4, <1>10, <2>2
    <3> QED
      BY <1>0, <1>1, <3>1, <3>2 DEF Types, Call
  <2>3. CASE j \in L + 1..Len(log') /\ k \in L + 1..Len(log')
    <3>1. j - L < k - L
      BY <1>8, <2>3
    <3>2. j - L \in DOMAIN order /\ k - L \in DOMAIN order /\ log'[j] = t[j - L] /\ log'[k] = t[k - L]
      BY <1>8, <2>3
    <3>3. order[j - L] < order[k - L]
      BY <1>5, <3>1, <3>2
    <3> QED
      BY <1>6, <3>2, <3>3
  <2> QED
    BY <1>8, <1>9, <2>0, <2>1, <2>2, <2>3
<1>15. AnsweredOnce'
  <2> SUFFICES ASSUME NEW j \in Results', NEW k \in Results', log'[j].call = log'[k].call
               PROVE  j = k
    BY DEF AnsweredOnce
  <2>1. j \in Nat /\ k \in Nat
    BY <1>8 DEF Results
  <2>2. log'[j] \in Events
    BY <1>8 DEF Results
  <2>3. log'[j].call \in Nat
    BY <1>0, <2>2 DEF Events
  <2>4. (j < k => log'[j].call < log'[k].call) /\ (k < j => log'[k].call < log'[j].call)
    BY <1>2, <1>14 DEF InModelOrder, Alive
  <2> QED
    BY <2>1, <2>3, <2>4
<1>16. NeverRanIsTrue'
  <2> SUFFICES ASSUME NEW k \in Results', log'[k].verdict \in NeverRan
               PROVE  body'[log'[k].call] \in {"none", "unran"}
    BY DEF NeverRanIsTrue
  <2>1. CASE k \in 1..L
    <3>1. k \in Results /\ log'[k] = log[k]
      BY <1>8, <2>1 DEF Results
    <3>2. NeverRanIsTrue /\ Alive
      BY <1>1 DEF IInv, AnswersInv, Alive
    <3> QED
      BY <1>2, <3>1, <3>2 DEF NeverRanIsTrue
  <2>2. CASE k \in L + 1..Len(log')
    <3>1. log'[k].call \in Unstarted /\ log'[k].call \in Call
      BY <1>4, <1>10, <2>2
    <3>2. log'[k].call > started
      BY <1>4, <3>1
    <3> QED
      BY <1>0, <1>1, <1>2, <3>1, <3>2 DEF SlotInv, Types, Call
  <2> QED
    BY <1>9, <2>1, <2>2 DEF Results
<1>17. EverythingIsAnswered'
  <2>0. CASE threw
    BY <1>2, <2>0 DEF EverythingIsAnswered, Alive
  <2> SUFFICES ASSUME ~threw, NEW i \in Call
               PROVE  /\ ResultsOf(i)' # {}
                      /\ body'[i] = "ok" => \A k \in ResultsOf(i)' : log'[k].verdict = "real"
    BY <2>0 DEF EverythingIsAnswered
  <2>1. \E k \in DOMAIN log' : log'[k].kind = "result" /\ log'[k].call = i
    <3>1. CASE i \in 1..committed
      <4>1. PICK k \in DOMAIN log : log[k].kind = "result" /\ log[k].call = i
        BY <1>1, <3>1 DEF Answered
      <4> QED
        BY <1>8, <4>1
    <3>2. CASE i \notin 1..committed
      <4>1. committed < i /\ committed < N /\ committed \in Nat /\ i \in Nat /\ next \in Nat /\ started \in Nat
        BY <1>0, <1>1, <3>2 DEF Types, Call
      <4>2. committed + 1 \in Call /\ slot[committed + 1] = "none"
        BY <1>1, <4>1, NextCall DEF LaneInv
      <4>3. committed + 1 <= next
        BY <1>1, <4>1 DEF LaneInv
      <4>4. started < committed + 1
        <5>1. started < next
          BY <1>1 DEF LaneInv
        <5>2. committed + 1 \in 1..started => slot[committed + 1] # "none"
          BY <1>1, <4>1, <5>1 DEF SlotInv
        <5> QED
          BY <4>1, <4>2, <5>2
      <4>5. slot[i] = "none"
        <5>1. CASE i >= next
          BY <1>1, <5>1 DEF SlotInv
        <5>2. CASE i < next
          <6>1. CASE i = committed + 1
            BY <4>2, <6>1
          <6>2. CASE i # committed + 1
            <7>1. committed + 1 \in 1..next - 1 /\ committed + 1 # next - 1
              BY <4>1, <5>2, <6>2
            <7> QED
              BY <1>1, <4>1, <4>2, <4>4, <7>1 DEF LaneInv, NoGaps, Gap
          <6> QED
            BY <6>1, <6>2
        <5> QED
          BY <4>1, <5>1, <5>2
      <4>6. i \in Unstarted
        BY <4>1, <4>4, <4>5 DEF Unstarted, Call
      <4>7. PICK k \in L + 1..Len(log') : log'[k].kind = "result" /\ log'[k].call = i
        BY <1>8, <4>6
      <4>8. k \in DOMAIN log'
        BY <1>8
      <4> QED
        BY <4>7, <4>8
    <3> QED
      BY <3>1, <3>2
  <2>2. ASSUME body[i] = "ok", NEW k \in DOMAIN log', log'[k].kind = "result", log'[k].call = i
        PROVE  log'[k].verdict = "real"
    <3>1. slot[i] = "real"
      BY <1>1, <2>2 DEF SlotInv
    <3>2. k \in 1..L
      BY <1>4, <1>9, <1>10, <2>2, <3>1
    <3> QED
      BY <1>1, <1>8, <2>2, <3>1, <3>2 DEF Answered
  <2> QED
    BY <1>2, <2>1, <2>2 DEF ResultsOf, Results
<1>18. Alive' /\ ~Batch'
  BY <1>2 DEF Alive, Batch, Waits
<1> QED
  BY <1>11, <1>12, <1>13, <1>14, <1>15, <1>16, <1>17, <1>18 DEF IInv, AnswersInv

-----------------------------------------------------------------------------
(* The end of the turn. *)
LEMMA TurnEndsStep == ASSUME IInv, TurnEnds PROVE IInv'
<1>1. /\ Types /\ PoolInv /\ SlotInv /\ EndingInv /\ MarkInv /\ AnswersInv /\ pc = "ended" /\ Alive
  BY DEF IInv, Alive, TurnEnds
<1>2. /\ checkpoint' = checkpoint /\ proven' = proven /\ log' = Append(log, End) /\ pc' = "closed"
      /\ committed' = committed /\ ending' = ending
      /\ next' = next /\ started' = started /\ slot' = slot
      /\ pool' = pool /\ stop' = stop /\ refused' = refused /\ unsaved' = unsaved
      /\ body' = body /\ threw' = threw /\ durable' \in {durable, Len(log')}
  BY DEF TurnEnds
<1>3. /\ log' \in Seq(Events) /\ Len(log) \in Nat /\ DOMAIN log = 1..Len(log)
      /\ DOMAIN log' = 1..Len(log) + 1 /\ Len(log') = Len(log) + 1
      /\ \A k \in 1..Len(log) : log'[k] = log[k]
      /\ log'[Len(log) + 1] = End
  BY <1>1, <1>2, EventTypes, AppendOne DEF Types
<1>4. durable \in 0..Len(log) /\ durable \in Nat /\ durable' \in 0..Len(log') /\ durable <= durable' /\ durable' \in Nat
  BY <1>1, <1>2, <1>3 DEF Types
<1>5. Types'
  BY <1>1, <1>2, <1>3, <1>4 DEF Types
<1>6. PoolInv' /\ SlotInv' /\ EndingInv'
  BY <1>1, <1>2 DEF PoolInv, SlotInv, EndingInv, Active, BatchAborted, Stopped, Waits
<1>7. MarkInv'
  <2>1. \A k \in 1..durable : log'[k] = log[k]
    BY <1>3, <1>4
  <2> QED
    BY <1>1, <1>2, <1>4, <2>1, MarkKeeps
<1>8. /\ \A k \in DOMAIN log' : k \in DOMAIN log \/ log'[k].kind = "end"
      /\ \A k \in DOMAIN log : k \in DOMAIN log' /\ log'[k] = log[k]
  <2>1. End.kind = "end"
    BY DEF End, Event
  <2> QED
    BY <1>3, <2>1
<1>9. Results' = Results
  BY <1>8 DEF Results
<1>10. \A k \in Results : log'[k] = log[k]
  BY <1>3 DEF Results
<1>11. AnsweredOnce' /\ InModelOrder' /\ NeverRanIsTrue'
  <2>1. AnsweredOnce'
    BY <1>1, <1>9, <1>10 DEF AnswersInv, AnsweredOnce
  <2>2. InModelOrder'
    BY <1>1, <1>9, <1>10 DEF AnswersInv, InModelOrder
  <2>3. NeverRanIsTrue'
    <3>1. \A k \in Results : log[k].verdict \in NeverRan => body[log[k].call] \in {"none", "unran"}
      BY <1>1 DEF AnswersInv, NeverRanIsTrue
    <3> QED
      BY <1>2, <1>9, <1>10, <3>1 DEF NeverRanIsTrue
  <2> QED
    BY <2>1, <2>2, <2>3
<1>12. EverythingIsAnswered'
  <2>1. CASE ending = "refused" \/ threw
    BY <1>2, <2>1 DEF EverythingIsAnswered, Alive
  <2>2. CASE ~(ending = "refused" \/ threw)
    <3>1. \A i \in Call : /\ Has("call", i) => ResultsOf(i) # {}
                          /\ body[i] = "ok" => \A k \in ResultsOf(i) : log[k].verdict = "real"
      BY <1>1, <2>2 DEF AnswersInv, EverythingIsAnswered
    <3>2. ASSUME NEW i \in Call, Has("call", i)' PROVE Has("call", i)
      BY <1>8, <3>2 DEF Has
    <3>3. \A i \in Call : ResultsOf(i)' = ResultsOf(i)
      BY <1>9, <1>10 DEF ResultsOf
    <3>4. \A i \in Call : \A k \in ResultsOf(i) : log'[k] = log[k]
      BY <1>10 DEF ResultsOf
    <3>5. \A i \in Call : /\ Has("call", i)' => ResultsOf(i)' # {}
                          /\ body'[i] = "ok" => \A k \in ResultsOf(i)' : log'[k].verdict = "real"
      BY <1>2, <3>1, <3>2, <3>3, <3>4
    <3> QED
      BY <3>5 DEF EverythingIsAnswered
  <2> QED
    BY <2>1, <2>2
<1> QED
  BY <1>1, <1>2, <1>5, <1>6, <1>7, <1>11, <1>12 DEF IInv, AnswersInv, Batch, Waits

(* The process dies. *)
LEMMA DiedStep == ASSUME IInv, Died PROVE IInv'
<1>1. Types /\ MarkInv /\ AnswersInv
  BY DEF IInv
<1>2. /\ checkpoint' = checkpoint /\ proven' = proven /\ log' = SubSeq(log, 1, durable')
      /\ pc' = "down" /\ durable' \in durable..Len(log) /\ ending' = "died"
      /\ next' = 1 /\ started' = 0 /\ committed' = 0 /\ slot' = [i \in Call |-> "none"]
      /\ pool' = {} /\ stop' = FALSE /\ refused' = FALSE /\ unsaved' = FALSE /\ threw' = FALSE
  BY DEF Died
<1>3. /\ body' \in [Call -> {"none", "hooks", "running", "ok", "failed", "unran"}]
      /\ \A i \in Call : body'[i] # "none" => body[i] # "none"
      /\ \A i \in Call : body[i] \in {"none", "unran"} => body'[i] \in {"none", "unran"}
  BY <1>1 DEF Died, Types
<1>4. /\ log \in Seq(Events) /\ Len(log) \in Nat /\ DOMAIN log = 1..Len(log)
      /\ durable \in Nat /\ durable' \in Nat /\ durable <= durable' /\ durable' <= Len(log)
  BY <1>1, <1>2 DEF Types
<1>5. /\ log' \in Seq(Events) /\ Len(log') = durable' /\ DOMAIN log' = 1..durable'
      /\ \A k \in 1..durable' : log'[k] = log[k] /\ k \in DOMAIN log
  <2>1. ASSUME NEW n \in Nat, n <= Len(log)
        PROVE  /\ SubSeq(log, 1, n) \in Seq(Events) /\ Len(SubSeq(log, 1, n)) = n
               /\ DOMAIN SubSeq(log, 1, n) = 1..n
               /\ \A k \in 1..n : SubSeq(log, 1, n)[k] = log[k] /\ k \in DOMAIN log
    BY <1>4, <2>1
  <2> QED
    BY <1>2, <1>4, <2>1
<1>6. Types'
  <2>1. 1 \in 1..N + 1 /\ 0 \in 0..N
    BY Numbers
  <2>2. durable' \in 0..Len(log')
    BY <1>4, <1>5
  <2> QED
    BY <1>1, <1>2, <1>3, <1>5, <2>1, <2>2 DEF Types
<1>7. MarkInv'
  <2>1. \A k \in 1..durable : log'[k] = log[k]
    BY <1>4, <1>5
  <2> QED
    BY <1>1, <1>2, <1>3, <1>4, <2>1, MarkKeeps
<1>8. \A k \in Results' : k \in Results /\ log'[k] = log[k] /\ log[k].call \in Call
  <2> SUFFICES ASSUME NEW k \in Results' PROVE k \in Results /\ log'[k] = log[k] /\ log[k].call \in Call
    OBVIOUS
  <2>1. k \in DOMAIN log /\ log'[k] = log[k] /\ log[k].kind = "result"
    BY <1>5 DEF Results
  <2>2. log[k] \in Events
    BY <1>4, <2>1
  <2> QED
    BY <2>1, <2>2 DEF Results, Events
<1>9. AnsweredOnce'
  BY <1>1, <1>8 DEF AnswersInv, AnsweredOnce
<1>10. InModelOrder' /\ EverythingIsAnswered' /\ ~Alive' /\ ~Batch'
  BY <1>2 DEF InModelOrder, EverythingIsAnswered, Alive, Batch, Waits
<1>11. NeverRanIsTrue'
  <2> SUFFICES ASSUME checkpoint, NEW k \in Results', log'[k].verdict \in NeverRan
               PROVE  body'[log'[k].call] \in {"none", "unran"}
    BY <1>2, <1>10 DEF NeverRanIsTrue
  <2>1. body[log[k].call] \in {"none", "unran"}
    BY <1>1, <1>8 DEF AnswersInv, NeverRanIsTrue
  <2> QED
    BY <1>3, <1>8, <2>1
<1> QED
  BY <1>6, <1>7, <1>9, <1>10, <1>11 DEF IInv, AnswersInv

-----------------------------------------------------------------------------
(* Repair answers what is open, before the end of the turn. *)
LEMMA BeforeEndFacts ==
  ASSUME log \in Seq(Events)
  PROVE  /\ BeforeEnd \in Seq(Events) /\ Len(BeforeEnd) \in Nat /\ Len(log) \in Nat
         /\ Len(BeforeEnd) <= Len(log)
         /\ \A k \in 1..Len(BeforeEnd) : BeforeEnd[k] = log[k] /\ k \in 1..Len(log)
         /\ \A k \in 1..Len(log) : log[k].kind # "end" => k \in 1..Len(BeforeEnd)
<1>1. /\ Len(log) \in Nat /\ DOMAIN log = 1..Len(log)
      /\ log # <<>> => Len(log) > 0
  OBVIOUS
<1>2. CASE log # <<>> /\ log[Len(log)] = End
  <2>1. ASSUME NEW n \in Nat, n <= Len(log)
        PROVE  /\ SubSeq(log, 1, n) \in Seq(Events) /\ Len(SubSeq(log, 1, n)) = n
               /\ \A k \in 1..n : SubSeq(log, 1, n)[k] = log[k] /\ k \in 1..Len(log)
    BY <1>1, <2>1
  <2>2. Len(log) - 1 \in Nat /\ Len(log) - 1 <= Len(log)
    BY <1>1, <1>2
  <2>3. BeforeEnd = SubSeq(log, 1, Len(log) - 1)
    BY <1>2 DEF BeforeEnd
  <2>4. End.kind = "end"
    BY DEF End, Event
  <2>5. \A k \in 1..Len(log) : k = Len(log) \/ k \in 1..Len(log) - 1
    <3>1. ASSUME NEW n \in Nat PROVE \A k \in 1..n : k = n \/ k \in 1..n - 1
      OBVIOUS
    <3> QED
      BY <1>1, <3>1
  <2> QED
    BY <1>1, <1>2, <2>1, <2>2, <2>3, <2>4, <2>5
<1>3. CASE ~(log # <<>> /\ log[Len(log)] = End)
  <2>1. BeforeEnd = log
    BY <1>3 DEF BeforeEnd
  <2> QED
    BY <1>1, <2>1
<1> QED
  BY <1>2, <1>3

LEMMA RepairStep == ASSUME IInv, RepairTurnTail PROVE IInv'
<1>1. Types /\ MarkInv /\ AnswersInv /\ pc = "down"
  BY DEF IInv, RepairTurnTail
<1>2. /\ checkpoint' = checkpoint /\ proven' = proven /\ pc' = "repaired" /\ durable' = Len(log')
      /\ committed' = committed /\ ending' = ending
      /\ next' = next /\ started' = started /\ slot' = slot
      /\ pool' = pool /\ stop' = stop /\ refused' = refused /\ unsaved' = unsaved
      /\ body' = body /\ threw' = threw
  BY DEF RepairTurnTail
<1>3. PICK order \in InOrder(Open) :
         log' = Append(BeforeEnd \o [k \in DOMAIN order |-> Result(order[k], RepairVerdict(order[k]))], End)
  BY DEF RepairTurnTail
<1> DEFINE t == [k \in DOMAIN order |-> Result(order[k], RepairVerdict(order[k]))]
           b == BeforeEnd
           u == b \o t
<1>4. Open \in SUBSET Call /\ \A i \in Open : ~Has("result", i)
  BY DEF Open
<1>5. /\ DOMAIN order = 1..Cardinality(Open) /\ Cardinality(Open) \in Nat
      /\ \A k \in DOMAIN order : order[k] \in Open
      /\ \A j, k \in DOMAIN order : j < k => order[j] < order[k]
  BY <1>4, OrderFacts
<1>6. \A k \in DOMAIN order :
         /\ t[k] \in Events /\ t[k].kind = "result" /\ t[k].call = order[k]
         /\ t[k].verdict = RepairVerdict(order[k])
  <2> SUFFICES ASSUME NEW k \in DOMAIN order
               PROVE  /\ t[k] \in Events /\ t[k].kind = "result" /\ t[k].call = order[k]
                      /\ t[k].verdict = RepairVerdict(order[k])
    OBVIOUS
  <2>1. t[k] = Result(order[k], RepairVerdict(order[k]))
    OBVIOUS
  <2>2. RepairVerdict(order[k]) \in Verdicts
    BY DEF RepairVerdict, Verdicts, Synthetic
  <2>3. order[k] \in Call
    BY <1>4, <1>5
  <2> HIDE DEF t
  <2>4. t[k] \in Events
    BY <2>1, <2>2, <2>3, EventTypes
  <2> QED
    BY <2>1, <2>4 DEF Result
<1>7. t \in [DOMAIN order -> Events] /\ log' = Append(u, End)
  BY <1>3, <1>6
<1> HIDE DEF t, b, u
<1>8. /\ b \in Seq(Events) /\ Len(b) \in Nat /\ Len(log) \in Nat
      /\ Len(b) <= Len(log) /\ DOMAIN log = 1..Len(log)
      /\ \A k \in 1..Len(b) : b[k] = log[k] /\ k \in 1..Len(log)
      /\ \A k \in 1..Len(log) : log[k].kind # "end" => k \in 1..Len(b)
  <2>1. log \in Seq(Events) /\ DOMAIN log = 1..Len(log)
    BY <1>1 DEF Types
  <2> QED
    BY <2>1, BeforeEndFacts DEF b
<1>9. /\ u \in Seq(Events) /\ Len(u) \in Nat /\ Len(b) <= Len(u)
      /\ \A k \in 1..Len(b) : u[k] = b[k]
      /\ \A k \in Len(b) + 1..Len(u) : k - Len(b) \in DOMAIN order /\ u[k] = t[k - Len(b)]
      /\ \A i \in Open : \E k \in Len(b) + 1..Len(u) : u[k].kind = "result" /\ u[k].call = i
  <2>1. \A k \in DOMAIN order : t[k].kind = "result" /\ t[k].call = order[k]
    BY <1>6
  <2>2. /\ b \in Seq(Events) /\ Open \in SUBSET Call /\ order \in InOrder(Open)
        /\ t \in [DOMAIN order -> Events]
    BY <1>3, <1>4, <1>7, <1>8
  <2>3. /\ b \o t \in Seq(Events)
        /\ DOMAIN b = 1..Len(b) /\ Len(b) \in Nat /\ Len(b \o t) \in Nat
        /\ DOMAIN (b \o t) = 1..Len(b \o t) /\ Len(b) <= Len(b \o t)
        /\ \A k \in 1..Len(b) : (b \o t)[k] = b[k]
        /\ \A k \in Len(b) + 1..Len(b \o t) :
              k - Len(b) \in DOMAIN order /\ (b \o t)[k] = t[k - Len(b)]
        /\ \A i \in Open : \E k \in Len(b) + 1..Len(b \o t) :
              (b \o t)[k].kind = "result" /\ (b \o t)[k].call = i
    BY <2>1, <2>2, ListedAnswers
  <2> QED
    BY <2>3 DEF u
<1>10. /\ log' \in Seq(Events) /\ Len(log') = Len(u) + 1 /\ DOMAIN log' = 1..Len(u) + 1
       /\ \A k \in 1..Len(u) : log'[k] = u[k]
       /\ log'[Len(u) + 1].kind = "end"
  <2>1. End.kind = "end"
    BY DEF End, Event
  <2> QED
    BY <1>7, <1>9, <2>1, EventTypes, AppendOne
<1>11. /\ \A k \in 1..Len(b) : log'[k] = log[k] /\ k \in DOMAIN log /\ k \in DOMAIN log'
       /\ \A k \in Len(b) + 1..Len(u) :
             /\ k \in DOMAIN log' /\ log'[k] = t[k - Len(b)] /\ k - Len(b) \in DOMAIN order
             /\ log'[k].call = order[k - Len(b)]
             /\ log'[k].call \in Open /\ log'[k].verdict = RepairVerdict(log'[k].call)
  <2>1. \A k \in 1..Len(b) : log'[k] = log[k] /\ k \in DOMAIN log /\ k \in DOMAIN log'
    BY <1>8, <1>9, <1>10
  <2>2. \A k \in Len(b) + 1..Len(u) : k \in 1..Len(u) /\ k \in DOMAIN log'
    BY <1>8, <1>9, <1>10
  <2>3. \A k \in Len(b) + 1..Len(u) : log'[k] = t[k - Len(b)] /\ k - Len(b) \in DOMAIN order
    BY <1>9, <1>10, <2>2
  <2>4. \A k \in Len(b) + 1..Len(u) :
             /\ log'[k].call = order[k - Len(b)]
             /\ log'[k].call \in Open /\ log'[k].verdict = RepairVerdict(log'[k].call)
    BY <1>5, <1>6, <2>3
  <2> QED
    BY <2>1, <2>2, <2>3, <2>4
<1>12. \A k \in DOMAIN log' :
          \/ k \in 1..Len(b)
          \/ k \in Len(b) + 1..Len(u)
          \/ log'[k].kind = "end"
  BY <1>8, <1>9, <1>10
<1>13. Types'
  <2>1. durable' \in 0..Len(log')
    BY <1>2, <1>9, <1>10
  <2> QED
    BY <1>1, <1>2, <1>10, <2>1 DEF Types
<1>14. MarkInv'
  <2> SUFFICES ASSUME checkpoint, NEW i \in Call, body[i] # "none"
               PROVE  \E k \in 1..durable' : log'[k].kind = "dispatch" /\ log'[k].call = i
    BY <1>2 DEF MarkInv
  <2>1. PICK k \in 1..durable : log[k].kind = "dispatch" /\ log[k].call = i
    BY <1>1 DEF MarkInv
  <2>2. k \in 1..Len(log)
    BY <1>1, <1>8 DEF Types
  <2>3. k \in 1..Len(b)
    BY <1>8, <2>1, <2>2
  <2>4. log'[k] = log[k] /\ k \in 1..durable'
    BY <1>2, <1>8, <1>9, <1>10, <2>3, <1>11
  <2> QED
    BY <2>1, <2>4
<1>15. AnsweredOnce'
  <2>1. ASSUME NEW j \in 1..Len(b), log'[j].kind = "result"
        PROVE  j \in Results /\ log'[j] = log[j] /\ Has("result", log'[j].call)
    BY <1>11, <2>1 DEF Results, Has
  <2> SUFFICES ASSUME NEW j \in Results', NEW k \in Results', log'[j].call = log'[k].call
               PROVE  j = k
    BY DEF AnsweredOnce
  <2>2. j \in DOMAIN log' /\ k \in DOMAIN log' /\ log'[j].kind = "result" /\ log'[k].kind = "result"
    BY DEF Results
  <2>3. CASE j \in 1..Len(b) /\ k \in 1..Len(b)
    BY <1>1, <2>1, <2>2, <2>3 DEF AnswersInv, AnsweredOnce
  <2>4. CASE j \in Len(b) + 1..Len(u) /\ k \in Len(b) + 1..Len(u)
    <3>1. DOMAIN order \subseteq Nat /\ \A m \in DOMAIN order : order[m] \in Nat
      <4>1. DOMAIN order \subseteq Nat
        BY <1>5
      <4>2. Call \subseteq Nat
        BY DEF Call
      <4> QED
        BY <1>4, <1>5, <4>1, <4>2
    <3>2. order[j - Len(b)] = order[k - Len(b)] /\ j - Len(b) \in DOMAIN order /\ k - Len(b) \in DOMAIN order
      BY <1>11, <2>4
    <3>3. j - Len(b) = k - Len(b)
      <4> DEFINE m == j - Len(b)
                 n == k - Len(b)
      <4>1. m \in DOMAIN order /\ n \in DOMAIN order /\ order[m] = order[n]
        BY <3>2
      <4> HIDE DEF m, n
      <4>2. m = n
        BY <1>5, <3>1, <4>1
      <4> QED
        BY <4>2 DEF m, n
    <3> QED
      BY <1>8, <1>9, <2>4, <3>3
  <2>5. \A m \in Len(b) + 1..Len(u) : ~Has("result", log'[m].call)
    BY <1>4, <1>11
  <2>6. ~(j \in 1..Len(b) /\ k \in Len(b) + 1..Len(u)) /\ ~(k \in 1..Len(b) /\ j \in Len(b) + 1..Len(u))
    BY <2>1, <2>2, <2>5
  <2> QED
    BY <1>12, <2>2, <2>3, <2>4, <2>6
<1>16. NeverRanIsTrue'
  <2> SUFFICES ASSUME checkpoint, NEW k \in Results', log'[k].verdict \in NeverRan
               PROVE  body'[log'[k].call] \in {"none", "unran"}
    BY <1>2 DEF NeverRanIsTrue, Alive
  <2>1. CASE k \in 1..Len(b)
    <3>1. k \in Results /\ log'[k] = log[k]
      BY <1>11, <2>1 DEF Results
    <3> QED
      BY <1>1, <1>2, <3>1 DEF AnswersInv, NeverRanIsTrue
  <2>2. CASE k \in Len(b) + 1..Len(u)
    <3> DEFINE i == log'[k].call
    <3>1. i \in Open /\ i \in Call /\ RepairVerdict(i) \in NeverRan
      BY <1>4, <1>11, <2>2
    <3> HIDE DEF i
    <3>2. ~Has("dispatch", i)
      BY <3>1 DEF RepairVerdict, NeverRan
    <3>3. body[i] = "none"
      <4> SUFFICES ASSUME body[i] # "none" PROVE FALSE
        OBVIOUS
      <4>1. PICK m \in 1..durable : log[m].kind = "dispatch" /\ log[m].call = i
        BY <1>1, <3>1 DEF MarkInv
      <4>2. m \in DOMAIN log
        BY <1>1, <1>8 DEF Types
      <4> QED
        BY <3>2, <4>1, <4>2 DEF Has
    <3> QED
      BY <1>2, <3>3 DEF i
  <2> QED
    BY <1>12, <2>1, <2>2 DEF Results
<1>17. EverythingIsAnswered'
  <2> SUFFICES ASSUME NEW i \in Call, Has("call", i)'
               PROVE  ResultsOf(i)' # {}
    BY <1>2 DEF EverythingIsAnswered, Alive
  <2>1. PICK k \in DOMAIN log' : log'[k].kind = "call" /\ log'[k].call = i
    BY DEF Has
  <2>2. k \in 1..Len(b)
    BY <1>6, <1>11, <1>12, <2>1
  <2>3. Has("call", i)
    BY <1>11, <2>1, <2>2 DEF Has
  <2>4. CASE Has("result", i)
    <3>1. PICK m \in DOMAIN log : log[m].kind = "result" /\ log[m].call = i
      BY <2>4 DEF Has
    <3>2. m \in 1..Len(b)
      BY <1>8, <3>1
    <3> QED
      BY <1>11, <3>1, <3>2 DEF ResultsOf, Results
  <2>5. CASE ~Has("result", i)
    <3>1. i \in Open
      BY <2>3, <2>5 DEF Open
    <3>2. PICK m \in Len(b) + 1..Len(u) : u[m].kind = "result" /\ u[m].call = i
      BY <1>9, <3>1
    <3>3. m \in DOMAIN log' /\ log'[m] = u[m]
      BY <1>8, <1>9, <1>10, <1>11
    <3> QED
      BY <3>2, <3>3 DEF ResultsOf, Results
  <2> QED
    BY <2>4, <2>5
<1>18. InModelOrder' /\ ~Alive' /\ ~Batch'
  BY <1>2 DEF InModelOrder, Alive, Batch, Waits
<1> QED
  BY <1>13, <1>14, <1>15, <1>16, <1>17, <1>18 DEF IInv, AnswersInv

-----------------------------------------------------------------------------
(* The bodies and the owner. *)
LEMMA BodyStep ==
  ASSUME IInv, Alive, NEW i \in Active, NEW b \in {"running", "ok", "failed", "unran"},
         NEW v \in {"none", "real", "failed"},
         body' = [body EXCEPT ![i] = b], slot' = [slot EXCEPT ![i] = v],
         b = "ok" <=> v = "real", b = "running" => v = "none",
         b \in {"failed", "unran"} => v = "failed" \/ stop \/ refused',
         checkpoint' = checkpoint, durable' = durable, log' = log,
         committed' = committed, pc' = pc, ending' = ending, next' = next, started' = started,
         pool' = pool, stop' = stop, refused' \in BOOLEAN, refused => refused',
         unsaved' = unsaved, threw' = threw
  PROVE  IInv'
<1>0. N \in Nat
  BY Numbers
<1>1. /\ Types /\ PoolInv /\ SlotInv /\ EndingInv /\ MarkInv
      /\ i \in Call /\ i \in pool /\ body[i] \in {"hooks", "running"} /\ slot[i] = "none" /\ body[i] # "none"
  BY DEF IInv, Active, PoolInv, SlotInv
<1>2. ending = "open" /\ Batch /\ pc # "fill"
  <2>1. ending = "open"
    BY <1>1 DEF PoolInv
  <2> QED
    BY <1>1, <2>1 DEF EndingInv, Batch, Alive, Types
<1>3. LaneInv /\ Answered(log, committed, slot)
  BY <1>2 DEF IInv
<1>4. /\ slot' \in [Call -> {"none", "real"} \cup Synthetic]
      /\ slot'[i] = v /\ \A j \in Call : j # i => slot'[j] = slot[j]
      /\ body' \in [Call -> {"none", "hooks", "running", "ok", "failed", "unran"}]
      /\ body'[i] = b /\ \A j \in Call : j # i => body'[j] = body[j]
  BY <1>1 DEF Types, Synthetic
<1>5. /\ \A j \in Call : slot[j] # "none" => slot'[j] = slot[j]
      /\ \A j \in Call : body'[j] = "none" <=> body[j] = "none"
      /\ Active' \subseteq Active
      /\ BatchAborted => BatchAborted'
  BY <1>1, <1>4 DEF Active, BatchAborted, Stopped
<1>6. Types'
  BY <1>1, <1>4 DEF Types
<1>7. PoolInv'
  BY <1>1, <1>5 DEF PoolInv, Types
<1>8. SlotInv'
  <2>1. \A j \in Call : j >= next => slot'[j] = "none"
    BY <1>0, <1>1, <1>4 DEF SlotInv, Types, Call
  <2>2. \A j \in Call : slot'[j] \in {"invalid", "undispatched"} => body'[j] = "none"
    BY <1>1, <1>4 DEF SlotInv
  <2>3. \A j \in Active' : slot'[j] = "none"
    BY <1>1, <1>4, <1>5 DEF SlotInv, Active
  <2>4. \A j \in Call : body'[j] = "ok" => slot'[j] = "real"
    BY <1>1, <1>4 DEF SlotInv
  <2>5. \A j \in 1..next - 1 : j \in pool' \/ slot'[j] # "none" \/ BatchAborted'
    <3>1. \A j \in 1..next - 1 : j \in Call
      BY <1>0, <1>1 DEF Types, Call
    <3> QED
      BY <1>1, <1>5, <3>1 DEF SlotInv
  <2>6. \A j \in Call : body'[j] \in {"failed", "unran"} => slot'[j] # "none" \/ BatchAborted'
    <3>1. b \in {"failed", "unran"} => v = "failed" \/ BatchAborted'
      BY DEF BatchAborted, Stopped
    <3> QED
      BY <1>1, <1>4, <1>5, <3>1 DEF SlotInv
  <2> QED
    BY <1>1, <1>2, <1>5, <2>1, <2>2, <2>3, <2>4, <2>5, <2>6 DEF SlotInv
<1>9. EndingInv'
  BY <1>1 DEF EndingInv
<1>10. LaneInv'
  <2>1. \A j \in 1..next - 1 : j \in Call
    BY <1>0, <1>1 DEF Types, Call
  <2>2. NoGaps'
    BY <1>3, <1>5, <2>1 DEF LaneInv, NoGaps, Gap
  <2>3. MayStart(next', pool') <=> MayStart(next, pool)
    BY DEF MayStart
  <2>4. committed < N => committed + 1 \in Call
    BY <1>0, <1>1, NextCall DEF Types
  <2>5. pc = "finalize" => slot'[committed + 1] = "real"
    BY <1>3, <1>5, <2>4 DEF LaneInv
  <2>6. pc \in Waits /\ ~refused =>
           committed = N \/ committed + 1 \in pool \/ slot'[committed + 1] = "none"
    <3> SUFFICES ASSUME pc \in Waits, ~refused, committed # N, committed + 1 \notin pool
                 PROVE  slot'[committed + 1] = "none"
      OBVIOUS
    <3>1. committed + 1 \in Call /\ committed + 1 # i
      BY <1>0, <1>1, <2>4 DEF Types
    <3>2. slot[committed + 1] = "none"
      BY <1>3 DEF LaneInv
    <3> QED
      BY <1>4, <3>1, <3>2
  <2>7. pc \in {"prepare", "save"} => \A j \in 1..next - 1 : j <= started \/ slot'[j] # "none"
    BY <1>3, <1>5, <2>1 DEF LaneInv
  <2>8. Has("dispatch", next)' <=> Has("dispatch", next)
    BY DEF Has
  <2> QED
    BY <1>2, <1>3, <1>5, <2>2, <2>3, <2>5, <2>6, <2>7, <2>8 DEF LaneInv
<1>11. Answered(log', committed', slot')
  <2>1. \A j \in 1..committed : j \in Call /\ slot[j] # "none"
    BY <1>0, <1>1, <1>3 DEF Types, Call, Answered
  <2>2. \A j \in 1..committed : slot'[j] = slot[j]
    BY <1>5, <2>1
  <2>3. committed \in Nat
    BY <1>1 DEF Types
  <2> QED
    BY <1>3, <2>2, <2>3, AnsweredSlots
<1>12. MarkInv'
  <2>1. durable \in Nat
    BY <1>1 DEF Types
  <2> QED
    BY <1>1, <1>5, <2>1, MarkKeeps
<1>13. Batch'
  BY <1>2 DEF Batch
<1> QED
  BY <1>6, <1>7, <1>8, <1>9, <1>10, <1>11, <1>12, <1>13, BatchAnswers DEF IInv

LEMMA BodyActions ==
  ASSUME IInv, NEW i \in Call, BodyRuns(i) \/ Settles(i)
  PROVE  IInv'
<1>1. Types /\ SlotInv /\ Alive
  BY DEF IInv, BodyRuns, Settles, Succeeds, Fails, Vetoed
<1>2. i \in Active
  BY DEF BodyRuns, Settles, Succeeds, Fails, Vetoed, Active
<1>3. slot[i] = "none" /\ slot = [slot EXCEPT ![i] = "none"]
  BY <1>1, <1>2 DEF SlotInv, Types
<1>4. Unfinished(i) \in {"failed", "unran"}
  BY DEF Unfinished
<1>5. CASE BodyRuns(i)
  <2>1. body' = [body EXCEPT ![i] = "running"] /\ slot' = [slot EXCEPT ![i] = "none"]
    BY <1>3, <1>5 DEF BodyRuns
  <2> QED
    BY <1>1, <1>2, <1>5, <2>1, BodyStep DEF BodyRuns, host, cursor, Types
<1>6. CASE Succeeds(i)
  BY <1>1, <1>2, <1>6, BodyStep DEF Succeeds, host, cursor, Types
<1>7. CASE Fails(i)
  <2>1. PICK v \in {"none", "failed"} :
           slot' = [slot EXCEPT ![i] = v] /\ (v = "failed" \/ stop)
    BY <1>7 DEF Fails
  <2> QED
    BY <1>1, <1>2, <1>4, <1>7, <2>1, BodyStep DEF Fails, host, cursor, Types
<1>8. CASE Vetoed(i)
  <2>1. slot' = [slot EXCEPT ![i] = "none"]
    BY <1>3, <1>8 DEF Vetoed
  <2> QED
    BY <1>1, <1>2, <1>4, <1>8, <2>1, BodyStep DEF Vetoed, host, cursor, Types
<1> QED
  BY <1>5, <1>6, <1>7, <1>8 DEF Settles

LEMMA StopStep == ASSUME IInv, Stop PROVE IInv'
<1>1. /\ Types /\ PoolInv /\ SlotInv /\ LaneInv /\ EndingInv /\ Answered(log, committed, slot)
      /\ MarkInv /\ Alive /\ Batch
  BY DEF IInv, Batch, Alive, Waits, Stop
<1>2. /\ checkpoint' = checkpoint /\ proven' = proven /\ durable' = durable /\ log' = log
      /\ committed' = committed /\ pc' = pc /\ ending' = ending
      /\ next' = next /\ started' = started /\ slot' = slot
      /\ pool' = pool /\ stop' = TRUE /\ refused' = refused /\ unsaved' = unsaved
      /\ body' = body /\ threw' = threw
  BY DEF Stop, host, cursor
<1>3. BatchAborted'
  BY <1>2 DEF BatchAborted
<1>4. Types'
  BY <1>1, <1>2 DEF Types
<1>5. PoolInv' /\ EndingInv'
  BY <1>1, <1>2 DEF PoolInv, EndingInv, Active
<1>6. SlotInv'
  BY <1>1, <1>2, <1>3 DEF SlotInv, Active
<1>7. LaneInv'
  <2>1. NoGaps' /\ (Has("dispatch", next)' <=> Has("dispatch", next))
        /\ (MayStart(next', pool') <=> MayStart(next, pool))
    BY <1>1, <1>2, <1>3 DEF LaneInv, NoGaps, Gap, Has, MayStart
  <2> QED
    BY <1>1, <1>2, <1>3, <2>1 DEF LaneInv
<1>8. Answered(log', committed', slot')
  BY <1>1, <1>2
<1>9. MarkInv'
  BY <1>1, <1>2 DEF MarkInv
<1>10. Batch'
  BY <1>1, <1>2 DEF Batch
<1> QED
  BY <1>4, <1>5, <1>6, <1>7, <1>8, <1>9, <1>10, BatchAnswers DEF IInv

-----------------------------------------------------------------------------
LEMMA InitInv == ASSUME Init PROVE IInv
<1>0. N \in Nat /\ N > 0 /\ MaxParallel \in Nat /\ MaxParallel > 0
  BY Numbers
<1>1. /\ checkpoint \in BOOLEAN /\ stop \in BOOLEAN /\ durable \in 0..N
      /\ log = [i \in 1..N |-> Event("call", i)]
      /\ pc = (IF stop THEN "drain" ELSE "prepare") /\ ending = "open"
      /\ next = 1 /\ started = 0 /\ committed = 0 /\ slot = [i \in Call |-> "none"]
      /\ pool = {} /\ refused = FALSE /\ unsaved = FALSE
      /\ body = [i \in Call |-> "none"] /\ threw = FALSE
  BY DEF Init, Call
<1>2. \A i \in 1..N : Event("call", i) \in Events /\ Event("call", i).kind = "call"
  BY EventTypes DEF Event, Call
<1>3. log \in Seq(Events) /\ Len(log) = N /\ DOMAIN log = 1..N /\ \A k \in 1..N : log[k].kind = "call"
  <2>1. log \in [1..N -> Events] /\ \A k \in 1..N : log[k].kind = "call"
    BY <1>1, <1>2
  <2> QED
    BY <1>0, <2>1
<1>4. Types
  <2>1. 1 \in 1..N + 1 /\ 0 \in 0..N /\ durable \in 0..Len(log)
    BY <1>0, <1>1, <1>3
  <2>2. slot \in [Call -> {"none", "real"} \cup Synthetic]
    BY <1>1
  <2>3. body \in [Call -> {"none", "hooks", "running", "ok", "failed", "unran"}]
    BY <1>1
  <2> QED
    BY <1>1, <1>3, <2>1, <2>2, <2>3 DEF Types, Waits
<1>5. Active = {} /\ Cardinality({}) = 0
  BY <1>1, FS_EmptySet DEF Active
<1>6. PoolInv /\ SlotInv /\ EndingInv
  BY <1>0, <1>1, <1>5 DEF PoolInv, SlotInv, EndingInv, Waits, Call
<1>7. LaneInv
  <2>1. MayStart(next, pool)
    BY <1>0, <1>1, <1>5 DEF MayStart
  <2>2. committed + 1 \in Call /\ slot[committed + 1] = "none"
    BY <1>0, <1>1 DEF Call
  <2> QED
    BY <1>0, <1>1, <2>1, <2>2 DEF LaneInv, NoGaps, BatchAborted
<1>8. Answered(log, committed, slot)
  BY <1>1, <1>3 DEF Answered
<1>9. MarkInv
  BY <1>1 DEF MarkInv
<1>10. AnswersInv
  BY <1>1, <1>3 DEF AnswersInv, AnsweredOnce, InModelOrder, NeverRanIsTrue, EverythingIsAnswered,
                    Results
<1> QED
  BY <1>4, <1>6, <1>7, <1>8, <1>9, <1>10 DEF IInv

LEMMA NextInv == ASSUME IInv, [Next]_vars PROVE IInv'
<1>1. CASE PrepareStarts
  BY <1>1, PrepareStartsStep
<1>2. CASE PrepareTooLate \/ PrepareInvalid \/ SaveFails
  BY <1>2, PassingSteps
<1>3. CASE PrepareRefused \/ FinalizeThrows \/ ObserveThrows
  BY <1>3, ThrowStep
<1>4. CASE Saved
  BY <1>4, SavedStep
<1>5. CASE Finalize
  BY <1>5, FinalizeStep
<1>6. CASE Observe
  BY <1>6, ObserveStep
<1>7. CASE \E i \in Call : Race(i)
  BY <1>7, RaceStep
<1>8. CASE EndsAborted \/ EndsUnsaved
  BY <1>8, EndsStep
<1>9. CASE EndsPlain
  BY <1>9, EndsPlainStep
<1>10. CASE Fill
  BY <1>10, FillStep
<1>11. CASE \E i \in Call : BodyRuns(i) \/ Settles(i)
  BY <1>11, BodyActions
<1>12. CASE Stop
  BY <1>12, StopStep
<1>13. CASE TurnEnds
  BY <1>13, TurnEndsStep
<1>14. CASE Died
  BY <1>14, DiedStep
<1>15. CASE RepairTurnTail
  BY <1>15, RepairStep
<1>16. CASE UNCHANGED vars
  <2>1. /\ checkpoint' = checkpoint /\ proven' = proven /\ durable' = durable /\ log' = log
        /\ committed' = committed /\ pc' = pc /\ ending' = ending
        /\ next' = next /\ started' = started /\ slot' = slot
        /\ pool' = pool /\ stop' = stop /\ refused' = refused /\ unsaved' = unsaved
        /\ body' = body /\ threw' = threw
    BY <1>16 DEF vars
  <2>2. Types' <=> Types
    BY <2>1 DEF Types
  <2>3. (PoolInv' <=> PoolInv) /\ (SlotInv' <=> SlotInv) /\ (EndingInv' <=> EndingInv)
    BY <2>1 DEF PoolInv, SlotInv, EndingInv, Active, BatchAborted, Stopped
  <2>4. LaneInv' <=> LaneInv
    BY <2>1 DEF LaneInv, NoGaps, Gap, Has, MayStart, BatchAborted, Stopped
  <2>5. (MarkInv' <=> MarkInv) /\ (Alive' <=> Alive) /\ (Batch' <=> Batch)
    BY <2>1 DEF MarkInv, Alive, Batch
  <2>6. AnswersInv' <=> AnswersInv
    BY <2>1 DEF AnswersInv, AnsweredOnce, InModelOrder, NeverRanIsTrue, EverythingIsAnswered,
                Results, ResultsOf, Has, Alive
  <2>7. Answered(log', committed', slot') <=> Answered(log, committed, slot)
    BY <2>1
  <2> QED
    BY <2>2, <2>3, <2>4, <2>5, <2>6, <2>7 DEF IInv
<1> QED
  BY <1>1, <1>2, <1>3, <1>4, <1>5, <1>6, <1>7, <1>8, <1>9, <1>10, <1>11, <1>12, <1>13, <1>14,
     <1>15, <1>16 DEF Next, Lane

(* The invariant of the step's calls, whatever the lane waits for, whenever *)
(* the owner stops it, and however often the process dies (execute-tool-    *)
(* calls.ts, repair.ts).                                                    *)
THEOREM BatchInvariance == Spec => []IInv
<1>1. Init => IInv
  BY InitInv
<1>2. IInv /\ [Next]_vars => IInv'
  BY NextInv
<1> QED
  BY <1>1, <1>2, PTL DEF Spec

(* The state the batch keeps has its type; each event of the log is well    *)
(* formed (execute-tool-calls.ts, the batch's local state).                 *)
THEOREM CallTypes == Spec => []TypeOK
<1>1. IInv /\ proven \in BOOLEAN => TypeOK
  <2> SUFFICES ASSUME Types, proven \in BOOLEAN PROVE TypeOK
    BY DEF IInv
  <2> DEFINE Loose == [kind : {"call", "dispatch", "result", "end"}, call : 0..N, verdict : Verdicts]
  <2>1. log \in Seq(Loose)
    <3>1. /\ log \in Seq(Events) /\ Len(log) \in Nat /\ log = [k \in 1..Len(log) |-> log[k]]
          /\ \A k \in 1..Len(log) : log[k] \in Events
      BY DEF Types
    <3>2. \A e \in Events : e \in Loose
      BY DEF Events
    <3> HIDE DEF Loose
    <3> QED
      BY <3>1, <3>2
  <2>2. {checkpoint, proven, stop, refused, unsaved, threw} \subseteq BOOLEAN
    BY DEF Types
  <2>3. pool \subseteq Call
    BY DEF Types
  <2> QED
    BY <2>1, <2>2, <2>3 DEF Types, TypeOK, Waits
<1>2. Init => proven \in BOOLEAN
  BY DEF Init
<1>3. ASSUME [Next]_vars PROVE proven' = proven
  <2>1. Lane => proven' = proven
    BY DEF Lane, PrepareStarts, PrepareTooLate, PrepareInvalid, PrepareRefused, Saved, SaveFails,
           Finalize, FinalizeThrows, Observe, ObserveThrows, Race, EndsAborted, EndsUnsaved, Ends,
           EndsPlain, Fill, LaneThrows, Dispatch, Undispatched, host
  <2>2. \A i \in Call : BodyRuns(i) \/ Settles(i) => proven' = proven
    BY DEF BodyRuns, Settles, Succeeds, Fails, Vetoed, host
  <2>3. Stop \/ TurnEnds \/ Died \/ RepairTurnTail => proven' = proven
    BY DEF Stop, TurnEnds, Died, RepairTurnTail, host
  <2> QED
    BY <1>3, <2>1, <2>2, <2>3 DEF Next, vars
<1>4. proven \in BOOLEAN /\ [Next]_vars => (proven \in BOOLEAN)'
  BY <1>3
<1> QED
  BY <1>1, <1>2, <1>4, BatchInvariance, PTL DEF Spec

(* No call is answered twice, by the pool, by the fills that end a batch or *)
(* by the repairs of a dead process's log (execute-tool-calls.ts:166, 449). *)
THEOREM NoneIsAnsweredTwice == Spec => []AnsweredOnce
<1>1. IInv => AnsweredOnce
  BY DEF IInv, AnswersInv
<1> QED
  BY <1>1, BatchInvariance, PTL

(* The pool's answers are in the model's order, however the bodies finish   *)
(* (execute-tool-calls.ts, the head-of-line cursor).                        *)
THEOREM AnswersKeepOrder == Spec => []InModelOrder
<1>1. IInv => InModelOrder
  BY DEF IInv, AnswersInv
<1> QED
  BY <1>1, BatchInvariance, PTL

(* A call the model is told was not run was not run, also after a crash     *)
(* when the host saves its markers (repair.ts, the verdicts).               *)
THEOREM ToldNotRunIsTrue == Spec => []NeverRanIsTrue
<1>1. IInv => NeverRanIsTrue
  BY DEF IInv, AnswersInv
<1> QED
  BY <1>1, BatchInvariance, PTL

(* A batch ends with an answer for each call, and the real one for each     *)
(* body that succeeded; a repaired log has one for each call it holds       *)
(* (execute-tool-calls.ts:426, 482).                                        *)
THEOREM NoneIsLeftOpen == Spec => []EverythingIsAnswered
<1>1. IInv => EverythingIsAnswered
  BY DEF IInv, AnswersInv
<1> QED
  BY <1>1, BatchInvariance, PTL

(* Bodies overlap only as declared, and none outlives its batch             *)
(* (execute-tool-calls.ts, the groups and the drain).                       *)
THEOREM BodiesKeepApart == Spec => [](Alive => NoBodyDisturbsAnother)
<1>1. ASSUME IInv, Alive PROVE NoBodyDisturbsAnother
  <2>1. Types /\ PoolInv /\ EndingInv
    BY <1>1 DEF IInv
  <2>2. IsFiniteSet(pool) /\ Active \subseteq pool /\ Cardinality(pool) <= MaxParallel
        /\ Cardinality(pool) \in Nat /\ Cardinality(Active) \in Nat /\ MaxParallel \in Nat
    BY <2>1, PoolFinite, Numbers DEF PoolInv, Types, Active
  <2>3. Cardinality(Active) <= Cardinality(pool)
    BY <2>2, FS_Subset
  <2>4. ASSUME NEW i \in Active \cap Exclusive PROVE Cardinality(Active) = 1
    <3>1. Active = {i}
      BY <2>1, <2>4 DEF PoolInv
    <3> QED
      BY <3>1, FS_Singleton
  <2>5. pc \in {"ended", "closed"} => Active = {}
    BY <2>1 DEF PoolInv, EndingInv
  <2> QED
    BY <2>2, <2>3, <2>4, <2>5 DEF NoBodyDisturbsAnother
<1> QED
  BY <1>1, BatchInvariance, PTL

(* Once the owner, a refusal or a failed checkpoint stopped the batch, no   *)
(* call is handed over to run, although the lane looked at the signal       *)
(* before an approval or a flush it waited for (execute-tool-calls.ts:230,  *)
(* 298).                                                                    *)
THEOREM StopsAreObeyed == Spec => StopIsObeyed
<1>1. ASSUME Next, BatchAborted, NEW i \in Call, body[i] = "none", IInv
      PROVE  body'[i] # "hooks"
  <2>1. Types
    BY <1>1 DEF IInv
  <2>2. CASE PrepareStarts
    BY <1>1, <2>2 DEF PrepareStarts
  <2>3. CASE Saved
    BY <1>1, <2>3 DEF Saved, Undispatched
  <2>4. CASE PrepareTooLate \/ PrepareInvalid \/ PrepareRefused \/ SaveFails
    BY <1>1, <2>4 DEF PrepareTooLate, PrepareInvalid, PrepareRefused, LaneThrows, SaveFails,
                      Undispatched
  <2>5. CASE Finalize \/ FinalizeThrows \/ Observe \/ ObserveThrows
    BY <1>1, <2>5 DEF Finalize, FinalizeThrows, Observe, ObserveThrows, LaneThrows
  <2>6. CASE \E j \in Call : Race(j)
    BY <1>1, <2>6 DEF Race
  <2>7. CASE EndsAborted \/ EndsUnsaved \/ EndsPlain \/ Fill
    BY <1>1, <2>7 DEF EndsAborted, EndsUnsaved, EndsPlain, Ends, Fill
  <2>8. CASE \E j \in Call : BodyRuns(j) \/ Settles(j)
    BY <1>1, <2>1, <2>8 DEF BodyRuns, Settles, Succeeds, Fails, Vetoed, Unfinished, Types, Active
  <2>9. CASE Stop \/ TurnEnds \/ RepairTurnTail
    BY <1>1, <2>9 DEF Stop, TurnEnds, RepairTurnTail
  <2>10. CASE Died
    BY <1>1, <2>10 DEF Died
  <2> QED
    BY <1>1, <2>2, <2>3, <2>4, <2>5, <2>6, <2>7, <2>8, <2>9, <2>10 DEF Next, Lane
<1>2. IInv /\ [Next]_vars => [BatchAborted => \A i \in Call : body[i] = "none" => body'[i] # "hooks"]_vars
  BY <1>1
<1> QED
  BY <1>2, BatchInvariance, PTL DEF Spec, StopIsObeyed
=============================================================================
