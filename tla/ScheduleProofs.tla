----------------------------- MODULE ScheduleProofs -----------------------------
(***************************************************************************)
(* Proofs about Schedule for any number of reminders, instants and         *)
(* crashes: the strict fold never refuses the log, a reminder that is      *)
(* spent has its input, and a fixed-rate reminder stays in step with its   *)
(* creation.                                                               *)
(*                                                                         *)
(* All state is folded from the log, and a crash leaves any prefix of what *)
(* was not saved, so the invariant is about every prefix of the log        *)
(* (Sound): its fold is not corrupt, ids are not used twice, and the name  *)
(* of an input that was admitted can never be given again, because its     *)
(* one-shot is spent or its instant lies behind every fixed-rate reminder. *)
(***************************************************************************)
EXTENDS Schedule, WellFoundedInduction, FiniteSetTheorems, TLAPS

(* Every non-empty set of numbers has a least member, and so induction. *)
LEMMA LeastOf ==
  ASSUME NEW T, T \subseteq Nat, T # {}
  PROVE  \E x \in T : \A y \in T : x <= y
<1>1. \E x \in T : \A y \in T : ~(<<y, x>> \in OpToRel(<, Nat))
  BY NatLessThanWellFounded, WFMin
<1>2. \A x, y \in Nat : ~(<<y, x>> \in OpToRel(<, Nat)) => x <= y
  BY DEF OpToRel
<1> QED
  BY <1>1, <1>2

LEMMA SetInduction ==
  ASSUME NEW S, 0 \in S, \A n \in Nat : n \in S => n + 1 \in S
  PROVE  \A n \in Nat : n \in S
<1> SUFFICES ASSUME Nat \ S # {} PROVE FALSE
  OBVIOUS
<1>1. PICK x \in Nat \ S : \A y \in Nat \ S : x <= y
  BY LeastOf
<1>2. x # 0 /\ x - 1 \in Nat
  BY <1>1
<1>3. x - 1 \in S
  BY <1>1, <1>2
<1> QED
  BY <1>1, <1>2, <1>3

-----------------------------------------------------------------------------
(* The fold, as the states it goes through. *)
StateAt(s, events, f, n) == IF n = 0 THEN s ELSE FoldEvent(f[n - 1], events[n])
Runs(s, events, f, k) == f = [n \in 0 .. k |-> StateAt(s, events, f, n)]

LEMMA RunsExist ==
  ASSUME NEW s, NEW events
  PROVE  \A k \in Nat : \E f : Runs(s, events, f, k)
<1> DEFINE Reached == {k \in Nat : \E f : Runs(s, events, f, k)}
<1>1. 0 \in Reached
  <2> DEFINE g == [n \in 0 .. 0 |-> s]
  <2>1. Runs(s, events, g, 0)
    BY DEF Runs, StateAt
  <2> QED
    BY <2>1
<1>2. ASSUME NEW k \in Nat, k \in Reached PROVE k + 1 \in Reached
  <2>1. PICK f : Runs(s, events, f, k)
    BY <1>2
  <2> DEFINE g == [n \in 0 .. k + 1 |-> IF n = k + 1 THEN StateAt(s, events, f, n) ELSE f[n]]
  <2>2. \A n \in 0 .. k : g[n] = f[n] /\ f[n] = StateAt(s, events, f, n)
    BY <2>1 DEF Runs
  <2>3. ASSUME NEW n \in 0 .. k + 1 PROVE g[n] = StateAt(s, events, g, n)
    <3>1. g[n] = StateAt(s, events, f, n)
      <4>1. CASE n = k + 1
        BY <4>1
      <4>2. CASE n \in 0 .. k
        BY <2>2, <4>2
      <4> QED
        BY <4>1, <4>2
    <3>2. n # 0 => n - 1 \in 0 .. k
      OBVIOUS
    <3>3. n # 0 => g[n - 1] = f[n - 1]
      BY <2>2, <3>2
    <3> QED
      BY <3>1, <3>3 DEF StateAt
  <2>4. Runs(s, events, g, k + 1)
    BY <2>3 DEF Runs
  <2> QED
    BY <2>4
<1> HIDE DEF Reached
<1>3. \A k \in Nat : k \in Reached
  BY <1>1, <1>2, SetInduction
<1> QED
  BY <1>3 DEF Reached

(* Two runs over the same events go through the same states. *)
LEMMA RunsAgree ==
  ASSUME NEW s, NEW a, NEW b, NEW f, NEW g, NEW k \in Nat, NEW m \in Nat, k <= m,
         Runs(s, a, f, k), Runs(s, b, g, m), \A n \in 1 .. k : a[n] = b[n]
  PROVE  f[k] = g[k]
<1> DEFINE Same == {n \in Nat : n <= k => f[n] = g[n]}
<1>1. /\ \A n \in 0 .. k : f[n] = StateAt(s, a, f, n)
      /\ \A n \in 0 .. m : g[n] = StateAt(s, b, g, n)
  BY DEF Runs
<1>2. 0 \in Same
  BY <1>1 DEF StateAt
<1>3. ASSUME NEW n \in Nat, n \in Same PROVE n + 1 \in Same
  <2> SUFFICES ASSUME n + 1 <= k PROVE f[n + 1] = g[n + 1]
    OBVIOUS
  <2>1. f[n] = g[n] /\ a[n + 1] = b[n + 1]
    BY <1>3
  <2>2. f[n + 1] = FoldEvent(f[n], a[n + 1]) /\ g[n + 1] = FoldEvent(g[n], b[n + 1])
    BY <1>1 DEF StateAt
  <2> QED
    BY <2>1, <2>2
<1> HIDE DEF Same
<1>4. k \in Same
  BY <1>2, <1>3, SetInduction
<1> QED
  BY <1>4 DEF Same

LEMMA FoldRuns ==
  ASSUME NEW T, NEW s, NEW events \in Seq(T)
  PROVE  \E f : Runs(s, events, f, Len(events)) /\ FoldFrom(s, events) = f[Len(events)]
<1> DEFINE upTo == CHOOSE f : f = [n \in 0 .. Len(events) |->
                       IF n = 0 THEN s ELSE FoldEvent(f[n - 1], events[n])]
<1>1. \E f : Runs(s, events, f, Len(events))
  <2>1. Len(events) \in Nat
    OBVIOUS
  <2> HIDE DEF upTo
  <2> QED
    BY <2>1, RunsExist
<1>2. upTo = [n \in 0 .. Len(events) |-> IF n = 0 THEN s ELSE FoldEvent(upTo[n - 1], events[n])]
  <2>1. \E f : f = [n \in 0 .. Len(events) |->
                       IF n = 0 THEN s ELSE FoldEvent(f[n - 1], events[n])]
    BY <1>1 DEF Runs, StateAt
  <2> QED
    BY <2>1, Zenon
<1>3. Runs(s, events, upTo, Len(events))
  BY <1>2 DEF Runs, StateAt
<1>4. FoldFrom(s, events) = upTo[Len(events)]
  BY DEF FoldFrom
<1> QED
  BY <1>3, <1>4

LEMMA FoldEmpty ==
  ASSUME NEW s
  PROVE  FoldFrom(s, <<>>) = s
<1>1. PICK f : Runs(s, <<>>, f, 0) /\ FoldFrom(s, <<>>) = f[0]
  <2>1. <<>> \in Seq({}) /\ Len(<<>>) = 0
    OBVIOUS
  <2>2. \E f : Runs(s, <<>>, f, Len(<<>>)) /\ FoldFrom(s, <<>>) = f[Len(<<>>)]
    BY <2>1, FoldRuns
  <2> QED
    BY <2>1, <2>2
<1> QED
  BY <1>1 DEF Runs, StateAt

LEMMA FoldAppend ==
  ASSUME NEW T, NEW s, NEW events \in Seq(T), NEW e \in T
  PROVE  FoldFrom(s, Append(events, e)) = FoldEvent(FoldFrom(s, events), e)
<1> DEFINE more == Append(events, e)
<1>1. PICK k \in Nat : k = Len(events)
  OBVIOUS
<1>2. PICK m \in Nat : m = k + 1
  BY <1>1
<1>3. /\ more \in Seq(T) /\ Len(more) = m /\ more[m] = e
      /\ \A n \in 1 .. k : events[n] = more[n]
  BY <1>1, <1>2
<1>4. PICK f : Runs(s, events, f, k) /\ FoldFrom(s, events) = f[k]
  BY <1>1, FoldRuns
<1> HIDE DEF more
<1>5. PICK g : Runs(s, more, g, m) /\ FoldFrom(s, more) = g[m]
  <2>1. \E g : Runs(s, more, g, Len(more)) /\ FoldFrom(s, more) = g[Len(more)]
    BY <1>3, FoldRuns
  <2> QED
    BY <1>3, <2>1
<1>6. f[k] = g[k]
  <2>1. k <= m
    BY <1>2
  <2>2. Runs(s, events, f, k) /\ Runs(s, more, g, m)
    BY <1>4, <1>5
  <2>3. \A n \in 1 .. k : events[n] = more[n]
    BY <1>3
  <2> QED
    BY <2>1, <2>2, <2>3, RunsAgree
<1>7. g[m] = FoldEvent(g[k], more[m])
  BY <1>2, <1>5 DEF Runs, StateAt
<1> QED
  BY <1>3, <1>4, <1>5, <1>6, <1>7 DEF more

-----------------------------------------------------------------------------
(* Logs, their prefixes and what is appended to them. *)
LEMMA OneMore ==
  ASSUME NEW T, NEW b \in Seq(T), NEW k \in Nat, NEW m \in Nat, m = k + 1, m <= Len(b)
  PROVE  /\ SubSeq(b, 1, m) = Append(SubSeq(b, 1, k), b[m])
         /\ SubSeq(b, 1, k) \in Seq(T) /\ b[m] \in T
  OBVIOUS

LEMMA Single ==
  ASSUME NEW T, NEW e \in T, NEW a \in Seq(T)
  PROVE  /\ <<e>> \in Seq(T) /\ DOMAIN <<e>> = {1} /\ <<e>>[1] = e
         /\ a \o <<e>> = Append(a, e) /\ a \o <<e>> \in Seq(T)
  OBVIOUS

LEMMA JoinOneMore ==
  ASSUME NEW T, NEW a \in Seq(T), NEW c \in Seq(T), NEW e \in T
  PROVE  /\ a \o Append(c, e) = Append(a \o c, e)
         /\ a \o c \in Seq(T)
  OBVIOUS

LEMMA Whole ==
  ASSUME NEW T, NEW a \in Seq(T)
  PROVE  /\ SubSeq(a, 1, Len(a)) = a /\ Len(a) \in Nat
         /\ SubSeq(a, 1, 0) = <<>> /\ a \o <<>> = a
  OBVIOUS

LEMMA PrefixOfPrefix ==
  ASSUME NEW T, NEW a \in Seq(T), NEW n \in 0 .. Len(a), NEW p \in 0 .. n
  PROVE  /\ SubSeq(SubSeq(a, 1, n), 1, p) = SubSeq(a, 1, p)
         /\ SubSeq(a, 1, n) \in Seq(T) /\ Len(SubSeq(a, 1, n)) = n
         /\ p \in 0 .. Len(a)
  OBVIOUS

LEMMA PrefixOfMore ==
  ASSUME NEW T, NEW a \in Seq(T), NEW e \in T, NEW p \in 0 .. Len(Append(a, e))
  PROVE  \/ p \in 0 .. Len(a) /\ SubSeq(Append(a, e), 1, p) = SubSeq(a, 1, p)
         \/ SubSeq(Append(a, e), 1, p) = Append(a, e)
<1>1. CASE p \in 0 .. Len(a)
  BY <1>1
<1>2. CASE p = Len(a) + 1
  BY <1>2
<1> QED
  BY <1>1, <1>2

(* A fold goes on where an earlier one stopped. *)
LEMMA FoldJoin ==
  ASSUME NEW T, NEW s, NEW a \in Seq(T), NEW b \in Seq(T)
  PROVE  FoldFrom(FoldFrom(s, a), b) = FoldFrom(s, a \o b)
<1> DEFINE Start == FoldFrom(s, a)
           Upto(k) == SubSeq(b, 1, k)
           Met == {k \in Nat : k <= Len(b) => FoldFrom(Start, Upto(k)) = FoldFrom(s, a \o Upto(k))}
<1>1. 0 \in Met
  BY Whole, FoldEmpty
<1>2. ASSUME NEW k \in Nat, k \in Met PROVE k + 1 \in Met
  <2>1. PICK m \in Nat : m = k + 1
    OBVIOUS
  <2> SUFFICES ASSUME m <= Len(b) PROVE FoldFrom(Start, Upto(m)) = FoldFrom(s, a \o Upto(m))
    BY <2>1
  <2>2. Upto(m) = Append(Upto(k), b[m]) /\ Upto(k) \in Seq(T) /\ b[m] \in T
    BY <2>1, OneMore
  <2>3. FoldFrom(Start, Upto(k)) = FoldFrom(s, a \o Upto(k))
    BY <1>2, <2>1
  <2> HIDE DEF Start, Upto
  <2>4. a \o Upto(m) = Append(a \o Upto(k), b[m]) /\ a \o Upto(k) \in Seq(T)
    BY <2>2, JoinOneMore
  <2>5. FoldFrom(Start, Upto(m)) = FoldEvent(FoldFrom(Start, Upto(k)), b[m])
    BY <2>2, FoldAppend
  <2>6. FoldFrom(s, a \o Upto(m)) = FoldEvent(FoldFrom(s, a \o Upto(k)), b[m])
    <3>1. PICK c \in Seq(T) : c = a \o Upto(k)
      BY <2>4
    <3>2. FoldFrom(s, Append(c, b[m])) = FoldEvent(FoldFrom(s, c), b[m])
      BY <2>2, FoldAppend
    <3> QED
      BY <2>4, <3>1, <3>2
  <2> QED
    BY <2>3, <2>5, <2>6
<1> HIDE DEF Met
<1>3. Len(b) \in Met
  BY <1>1, <1>2, SetInduction
<1>4. Len(b) <= Len(b) /\ Upto(Len(b)) = b
  BY Whole
<1> HIDE DEF Upto
<1> QED
  BY <1>3, <1>4 DEF Met

-----------------------------------------------------------------------------
(* The invariant of the log. *)
Ids == 1 .. MaxCreates
EventSet ==
    [op : {"create", "delete", "dispatch", "admitted", "promoted"}, id : Ids \cup {Batch},
     every : BOOLEAN, at : Nat]

IsState(s) ==
    /\ s = Folded(s.active, s.seen)
    /\ s.seen \subseteq Ids
    /\ DOMAIN s.active \subseteq s.seen
    /\ s.active \in [DOMAIN s.active -> [every : BOOLEAN, at : Nat]]

(* A fixed-rate reminder is a whole number of intervals behind its creation. *)
Anchored(s, e) ==
    /\ e.id \in s.seen
    /\ e.every /\ e.id \in DOMAIN s.active =>
          /\ s.active[e.id].every
          /\ \E q \in Nat : s.active[e.id].at = e.at + q * Interval

(* It lies ahead of the instant it was accepted at.                          *)
Passed(s, e) ==
    /\ e.id \in s.seen
    /\ e.id \in DOMAIN s.active /\ s.active[e.id].every => e.at < s.active[e.id].at

(* The input of an admission will not be named again: its reminder is spent, *)
(* or every fixed-rate reminder lies ahead of its instant.                   *)
Named(s, e, t) ==
    /\ e.id = Batch => /\ e.at <= t
                       /\ \A i \in DOMAIN s.active : s.active[i].every => e.at < s.active[i].at
    /\ e.id # Batch => e.id \in s.seen \ DOMAIN s.active

State(events) == FoldFrom(Nothing, events)
Says(s, e, t) ==
    /\ e.op = "create" => Anchored(s, e)
    /\ e.op = "admitted" => Named(s, e, t)
    /\ e.op = "dispatch" => Passed(s, e)

(* It is where it was created, or at most an interval ahead of a dispatch.  *)
Accepts(events, id, at) ==
    \E m \in DOMAIN events :
        events[m].op = "dispatch" /\ events[m].id = id /\ at <= events[m].at + Interval
SkipsNone(events, s, e) ==
    e.op = "create" /\ e.id \in DOMAIN s.active =>
        s.active[e.id].at = e.at \/ Accepts(events, e.id, s.active[e.id].at)

Sound(events, t) ==
    /\ IsState(State(events))
    /\ \A n \in DOMAIN events : Says(State(events), events[n], t)
    /\ \A n \in DOMAIN events : SkipsNone(events, State(events), events[n])
AllSound(events, t) ==
    /\ events \in Seq(EventSet)
    /\ \A p \in 0 .. Len(events) : Sound(SubSeq(events, 1, p), t)

(* The events that the session may append at an instant. *)
Allowed(s, e, t) ==
    /\ e.op = "create" => e.id \in Ids \ s.seen /\ (e.every => t < e.at)
    /\ e.op = "delete" => e.id \in DOMAIN s.active
    /\ e.op = "dispatch" =>
          /\ e.id \in DOMAIN s.active
          /\ s.active[e.id].every => e.at = t /\ t # Absent /\ s.active[e.id].at <= t
          /\ ~s.active[e.id].every => e.at = Absent
    /\ e.op = "admitted" => Named(s, e, t)

(* What becomes of the reminders when such an event is folded.               *)
Ahead(old, new, t) ==
    /\ old.every /\ new.every /\ t < new.at
    /\ \E q \in Nat : new.at = old.at + q * Interval
Moves(s, s2, t) ==
    /\ s.seen \subseteq s2.seen
    /\ \A i \in DOMAIN s2.active :
          \/ i \notin s.seen /\ (s2.active[i].every => t < s2.active[i].at)
          \/ i \in DOMAIN s.active /\ s2.active[i] = s.active[i]
          \/ i \in DOMAIN s.active /\ Ahead(s.active[i], s2.active[i], t)

(* Which event moved a reminder, and how far.                                *)
Causes(s, s2, e) ==
    \A i \in DOMAIN s2.active :
        \/ i \in DOMAIN s.active /\ s2.active[i] = s.active[i]
        \/ i \notin s.seen /\ e.op = "create" /\ e.id = i /\ s2.active[i].at = e.at
        \/ e.op = "dispatch" /\ e.id = i /\ s2.active[i].at <= e.at + Interval

LEMMA NextOccurrence ==
  ASSUME NEW target \in Nat, NEW t \in Nat, target <= t
  PROVE  /\ Occurrence(target, t) + Interval \in Nat
         /\ t < Occurrence(target, t) + Interval
         /\ Occurrence(target, t) + Interval <= t + Interval
         /\ \E q \in Nat : Occurrence(target, t) + Interval = target + q * Interval
<1>1. Interval \in Nat /\ Interval > 0
  BY ScheduleAssumption
<1>2. PICK d \in Nat : d = t - target
  OBVIOUS
<1>3. PICK q \in Nat : q = d \div Interval
  BY <1>1
<1>4. d < (q + 1) * Interval /\ q * Interval <= d
  BY <1>1, <1>3
<1>5. Occurrence(target, t) + Interval = target + (q + 1) * Interval
  BY <1>1, <1>2, <1>3 DEF Occurrence
<1>6. (q + 1) * Interval \in Nat /\ q * Interval \in Nat /\ (q + 1) * Interval = q * Interval + Interval
  BY <1>1
<1>7. target + (q + 1) * Interval <= t + Interval
  BY <1>1, <1>2, <1>4, <1>6
<1> QED
  BY <1>2, <1>4, <1>5, <1>6, <1>7

LEMMA WholeIntervals ==
  ASSUME NEW q \in Nat
  PROVE  (q * Interval) % Interval = 0
  BY ScheduleAssumption

LEMMA FoldedFields ==
  ASSUME NEW x, NEW y
  PROVE  Folded(x, y).active = x /\ Folded(x, y).seen = y /\ ~Folded(x, y).corrupt
<1>1. Folded(x, y).active = x /\ Folded(x, y).seen = y
  BY DEF Folded
<1>2. ~Folded(x, y).corrupt
  BY DEF Folded
<1> QED
  BY <1>1, <1>2

LEMMA StateFields ==
  ASSUME NEW s, IsState(s)
  PROVE  ~s.corrupt
<1>1. s = Folded(s.active, s.seen)
  BY DEF IsState
<1> QED
  BY <1>1, FoldedFields

(* An allowed event is not refused. *)
LEMMA FoldCreate ==
  ASSUME NEW s, IsState(s), NEW e \in EventSet, NEW t \in Nat, Allowed(s, e, t), e.op = "create"
  PROVE  /\ IsState(FoldEvent(s, e)) /\ Moves(s, FoldEvent(s, e), t)
         /\ Anchored(FoldEvent(s, e), e) /\ Causes(s, FoldEvent(s, e), e)
<1> DEFINE active == s.active
           more == Put(active, e.id, e.every, e.at)
           s2 == FoldEvent(s, e)
<1>1. e.id \in Ids \ s.seen /\ (e.every => t < e.at) /\ e.every \in BOOLEAN /\ e.at \in Nat
  BY DEF Allowed, EventSet
<1>2. s2 = Folded(more, s.seen \cup {e.id}) /\ s2.active = more /\ s2.seen = s.seen \cup {e.id}
  <2>1. Fits(s, e) /\ ~s.corrupt
    BY <1>1, StateFields DEF Fits
  <2>2. s2 = Folded(more, s.seen \cup {e.id})
    BY <2>1 DEF FoldEvent
  <2> HIDE DEF more, s2
  <2> QED
    BY <2>2, FoldedFields
<1>3. /\ DOMAIN more = DOMAIN active \cup {e.id} /\ e.id \notin DOMAIN active
      /\ more[e.id] = [every |-> e.every, at |-> e.at]
      /\ \A i \in DOMAIN active : more[i] = active[i]
      /\ more = [i \in DOMAIN more |-> more[i]]
  BY <1>1 DEF Put, IsState
<1>4. active \in [DOMAIN active -> [every : BOOLEAN, at : Nat]] /\ DOMAIN active \subseteq s.seen
  BY DEF IsState
<1> HIDE DEF more, s2
<1>5. more \in [DOMAIN more -> [every : BOOLEAN, at : Nat]]
  <2>1. \A i \in DOMAIN more : more[i] \in [every : BOOLEAN, at : Nat]
    BY <1>1, <1>3, <1>4
  <2> QED
    BY <1>3, <2>1
<1>6. IsState(s2)
  BY <1>1, <1>2, <1>3, <1>4, <1>5 DEF IsState
<1>7. Moves(s, s2, t)
  <2>1. more[e.id].every => t < more[e.id].at
    BY <1>1, <1>3
  <2>2. \A i \in DOMAIN more : i = e.id \/ (i \in DOMAIN active /\ more[i] = active[i])
    BY <1>3
  <2> QED
    BY <1>1, <1>2, <2>1, <2>2 DEF Moves
<1>8. Anchored(s2, e)
  <2>1. Interval \in Nat /\ 0 \in Nat /\ e.at = e.at + 0 * Interval
    BY <1>1, ScheduleAssumption
  <2>2. s2.active[e.id].at = e.at /\ e.id \in s2.seen
    <3>1. s2.active[e.id] = [every |-> e.every, at |-> e.at]
      BY <1>2, <1>3
    <3>2. s2.active[e.id].at = e.at
      BY <3>1
    <3> QED
      BY <1>2, <3>2
  <2>3. e.every => s2.active[e.id].every
    BY <1>2, <1>3
  <2> QED
    BY <2>1, <2>2, <2>3 DEF Anchored
<1>9. Causes(s, s2, e)
  <2>1. more[e.id].at = e.at /\ e.id \notin s.seen
    BY <1>1, <1>3
  <2>2. \A i \in DOMAIN more : i = e.id \/ (i \in DOMAIN active /\ more[i] = active[i])
    BY <1>3
  <2> QED
    BY <1>2, <2>1, <2>2 DEF Causes
<1> QED
  BY <1>6, <1>7, <1>8, <1>9 DEF s2

(* A reminder that goes: deleted, or a one-shot that is dispatched. *)
LEMMA FoldForgets ==
  ASSUME NEW s, IsState(s), NEW id, NEW t, NEW s2, s2 = Folded(Forget(s.active, id), s.seen)
  PROVE  /\ IsState(s2) /\ Moves(s, s2, t)
         /\ s2.seen = s.seen /\ DOMAIN s2.active = DOMAIN s.active \ {id}
         /\ \A i \in DOMAIN s2.active : s2.active[i] = s.active[i]
<1> DEFINE less == Forget(s.active, id)
<1>1. s2 = Folded(less, s.seen) /\ s2.active = less /\ s2.seen = s.seen
  BY FoldedFields
<1>2. /\ DOMAIN less = DOMAIN s.active \ {id}
      /\ \A i \in DOMAIN less : less[i] = s.active[i]
      /\ less = [i \in DOMAIN less |-> less[i]]
  BY DEF Forget
<1>3. s.active \in [DOMAIN s.active -> [every : BOOLEAN, at : Nat]] /\ DOMAIN s.active \subseteq s.seen
  BY DEF IsState
<1> HIDE DEF less
<1>4. less \in [DOMAIN less -> [every : BOOLEAN, at : Nat]]
  <2>1. \A i \in DOMAIN less : less[i] \in [every : BOOLEAN, at : Nat]
    BY <1>2, <1>3
  <2> QED
    BY <1>2, <2>1
<1>5. IsState(s2)
  BY <1>1, <1>2, <1>3, <1>4 DEF IsState
<1>6. Moves(s, s2, t)
  BY <1>1, <1>2 DEF Moves
<1> QED
  BY <1>1, <1>2, <1>5, <1>6

(* A fixed-rate reminder that is dispatched lies ahead again. *)
Replaces(active, id, at, new) ==
    /\ DOMAIN new = DOMAIN active
    /\ new \in [DOMAIN new -> [every : BOOLEAN, at : Nat]]
    /\ new[id].every /\ new[id].at = at
    /\ \A i \in DOMAIN new \ {id} : new[i] = active[i]

LEMMA PutReplaces ==
  ASSUME NEW active, active \in [DOMAIN active -> [every : BOOLEAN, at : Nat]],
         NEW id \in DOMAIN active, active[id].every, NEW at \in Nat
  PROVE  Replaces(active, id, at, Put(active, id, active[id].every, at))
<1> DEFINE new == Put(active, id, active[id].every, at)
<1>1. /\ DOMAIN new = DOMAIN active
      /\ new[id] = [every |-> active[id].every, at |-> at]
      /\ \A i \in DOMAIN new \ {id} : new[i] = active[i]
      /\ new = [i \in DOMAIN new |-> new[i]]
  BY DEF Put
<1> HIDE DEF new
<1>2. active[id].every \in BOOLEAN
  OBVIOUS
<1>3. new[id] \in [every : BOOLEAN, at : Nat] /\ new[id].every /\ new[id].at = at
  BY <1>1, <1>2
<1>4. \A i \in DOMAIN new \ {id} : new[i] \in [every : BOOLEAN, at : Nat]
  BY <1>1
<1>5. \A i \in DOMAIN new : new[i] \in [every : BOOLEAN, at : Nat]
  BY <1>3, <1>4
<1>6. Replaces(active, id, at, new)
  BY <1>1, <1>3, <1>5 DEF Replaces
<1> QED
  BY <1>6 DEF new

LEMMA FoldAdvances ==
  ASSUME NEW s, IsState(s), NEW id \in DOMAIN s.active, NEW t \in Nat,
         s.active[id].every, s.active[id].at <= t,
         NEW at, at = Occurrence(s.active[id].at, t) + Interval,
         NEW moved, Replaces(s.active, id, at, moved),
         NEW s2, s2 = Folded(moved, s.seen)
  PROVE  /\ IsState(s2) /\ Moves(s, s2, t)
         /\ s2.seen = s.seen /\ DOMAIN s2.active = DOMAIN s.active
         /\ s2.active[id].every /\ t < s2.active[id].at /\ s2.active[id].at <= t + Interval
         /\ \A i \in DOMAIN s2.active \ {id} : s2.active[i] = s.active[i]
<1>1. s2.active = moved /\ s2.seen = s.seen
  BY FoldedFields
<1>2. s.active \in [DOMAIN s.active -> [every : BOOLEAN, at : Nat]] /\ DOMAIN s.active \subseteq s.seen
  BY DEF IsState
<1>3. /\ at \in Nat /\ t < at /\ at <= t + Interval
      /\ \E q \in Nat : at = s.active[id].at + q * Interval
  <2>1. s.active[id].at \in Nat
    BY <1>2
  <2> QED
    BY <2>1, NextOccurrence
<1>4. IsState(s2)
  BY <1>1, <1>2 DEF IsState, Replaces
<1>5. Moves(s, s2, t)
  <2>1. Ahead(s.active[id], moved[id], t)
    BY <1>3 DEF Ahead, Replaces
  <2> QED
    BY <1>1, <2>1 DEF Moves, Replaces
<1>6. s2.active[id].every /\ t < s2.active[id].at /\ s2.active[id].at <= t + Interval
  BY <1>1, <1>3 DEF Replaces
<1> QED
  BY <1>1, <1>4, <1>5, <1>6 DEF Replaces

LEMMA FoldDispatch ==
  ASSUME NEW s, IsState(s), NEW e \in EventSet, e.op = "dispatch", NEW t \in Nat, t # Absent,
         e.id \in DOMAIN s.active, s.active[e.id].every, s.active[e.id].at <= t, e.at = t
  PROVE  /\ IsState(FoldEvent(s, e)) /\ Moves(s, FoldEvent(s, e), t)
         /\ DOMAIN FoldEvent(s, e).active = DOMAIN s.active
         /\ t < FoldEvent(s, e).active[e.id].at
         /\ FoldEvent(s, e).active[e.id].at <= t + Interval
         /\ \A i \in DOMAIN s.active \ {e.id} : FoldEvent(s, e).active[i] = s.active[i]
<1>1. ~s.corrupt /\ s.active \in [DOMAIN s.active -> [every : BOOLEAN, at : Nat]]
  BY StateFields DEF IsState
<1>2. PICK at : at = Occurrence(s.active[e.id].at, t) + Interval
  OBVIOUS
<1>3. PICK s2 : s2 = FoldEvent(s, e)
  OBVIOUS
<1>4. Fits(s, e)
  BY DEF Fits
<1>5. s2 = Folded(Advance(s.active, e), s.seen)
  BY <1>1, <1>3, <1>4 DEF FoldEvent
<1>6. at \in Nat
  BY <1>1, <1>2, NextOccurrence
<1>7. PICK moved : moved = Put(s.active, e.id, s.active[e.id].every, at)
  OBVIOUS
<1>8. Replaces(s.active, e.id, at, moved)
  BY <1>1, <1>6, <1>7, PutReplaces
<1>9. s2 = Folded(moved, s.seen)
  BY <1>2, <1>5, <1>7 DEF Advance
<1>10. /\ IsState(s2) /\ Moves(s, s2, t)
       /\ DOMAIN s2.active = DOMAIN s.active
       /\ t < s2.active[e.id].at /\ s2.active[e.id].at <= t + Interval
       /\ \A i \in DOMAIN s2.active \ {e.id} : s2.active[i] = s.active[i]
  BY <1>2, <1>8, <1>9, FoldAdvances
<1> QED
  BY <1>3, <1>10

LEMMA FoldAllowed ==
  ASSUME NEW s, IsState(s), NEW e \in EventSet, NEW t \in Nat, Allowed(s, e, t)
  PROVE  /\ IsState(FoldEvent(s, e)) /\ Moves(s, FoldEvent(s, e), t)
         /\ Says(FoldEvent(s, e), e, t) /\ Causes(s, FoldEvent(s, e), e)
<1>1. ~s.corrupt /\ s.active \in [DOMAIN s.active -> [every : BOOLEAN, at : Nat]]
  BY StateFields DEF IsState
<1>0. DOMAIN s.active \subseteq s.seen
  BY DEF IsState
<1>2. CASE e.op = "create"
  BY <1>2, FoldCreate DEF Says
<1>3. ASSUME e.op \in {"delete", "dispatch"}, FoldEvent(s, e) = Folded(Forget(s.active, e.id), s.seen)
      PROVE  /\ IsState(FoldEvent(s, e)) /\ Moves(s, FoldEvent(s, e), t)
             /\ Says(FoldEvent(s, e), e, t) /\ Causes(s, FoldEvent(s, e), e)
  <2>1. PICK s2 : s2 = FoldEvent(s, e)
    OBVIOUS
  <2>2. /\ IsState(s2) /\ Moves(s, s2, t)
        /\ s2.seen = s.seen /\ DOMAIN s2.active = DOMAIN s.active \ {e.id}
        /\ \A i \in DOMAIN s2.active : s2.active[i] = s.active[i]
    <3>1. PICK id : id = e.id
      OBVIOUS
    <3>2. s2 = Folded(Forget(s.active, id), s.seen)
      BY <1>3, <2>1, <3>1
    <3>3. IsState(s2) /\ Moves(s, s2, t)
      BY <3>2, FoldForgets
    <3>4. s2.seen = s.seen
      BY <3>2, FoldForgets
    <3>5. DOMAIN s2.active = DOMAIN s.active \ {id}
      BY <3>2, FoldForgets
    <3>6. \A i \in DOMAIN s2.active : s2.active[i] = s.active[i]
      <4>1. s2.active = Forget(s.active, id)
        BY <3>2, FoldedFields
      <4> QED
        BY <4>1 DEF Forget
    <3> QED
      BY <3>1, <3>3, <3>4, <3>5, <3>6
  <2>3. e.id \in s.seen
    BY <1>0, <1>3 DEF Allowed
  <2>4. Says(s2, e, t)
    BY <1>3, <2>2, <2>3 DEF Says, Passed
  <2>5. Causes(s, s2, e)
    BY <2>2 DEF Causes
  <2> QED
    BY <2>1, <2>2, <2>4, <2>5
<1>4. CASE e.op = "delete"
  <2>1. FoldEvent(s, e) = Folded(Forget(s.active, e.id), s.seen)
    BY <1>1, <1>4 DEF FoldEvent, Fits, Allowed
  <2> QED
    BY <1>3, <1>4, <2>1
<1>5. CASE e.op = "dispatch" /\ ~s.active[e.id].every
  <2>1. FoldEvent(s, e) = Folded(Forget(s.active, e.id), s.seen)
    BY <1>1, <1>5 DEF FoldEvent, Fits, Allowed, Advance
  <2> QED
    BY <1>3, <1>5, <2>1
<1>6. CASE e.op = "dispatch" /\ s.active[e.id].every
  <2>1. e.id \in DOMAIN s.active /\ s.active[e.id].at <= t /\ e.at = t /\ t # Absent
    BY <1>6 DEF Allowed
  <2>2. PICK s2 : s2 = FoldEvent(s, e)
    OBVIOUS
  <2>3. /\ IsState(s2) /\ Moves(s, s2, t)
        /\ DOMAIN s2.active = DOMAIN s.active
        /\ e.at < s2.active[e.id].at /\ s2.active[e.id].at <= e.at + Interval
        /\ \A i \in DOMAIN s.active \ {e.id} : s2.active[i] = s.active[i]
    BY <1>6, <2>1, <2>2, FoldDispatch
  <2>4. e.id \in s2.seen
    BY <1>0, <2>1, <2>3 DEF Moves
  <2>5. Says(s2, e, t)
    BY <1>6, <2>3, <2>4 DEF Says, Passed
  <2>6. Causes(s, s2, e)
    BY <1>6, <2>3 DEF Causes
  <2> QED
    BY <2>2, <2>3, <2>5, <2>6
<1>7. CASE e.op \in {"admitted", "promoted"}
  <2>1. FoldEvent(s, e) = s
    BY <1>1, <1>7 DEF FoldEvent, Fits
  <2>2. Moves(s, s, t) /\ Causes(s, s, e)
    BY DEF Moves, IsState, Causes
  <2>3. Says(s, e, t)
    BY <1>7 DEF Says, Allowed
  <2> QED
    BY <2>1, <2>2, <2>3
<1> QED
  BY <1>2, <1>4, <1>5, <1>6, <1>7 DEF EventSet

(* What is true of earlier events stays true. *)
LEMMA SaysStays ==
  ASSUME NEW s, IsState(s), NEW s2, IsState(s2), NEW t \in Nat, Moves(s, s2, t),
         NEW e \in EventSet, Says(s, e, t)
  PROVE  Says(s2, e, t)
<1>1. DOMAIN s.active \subseteq s.seen /\ e.at \in Nat /\ e.every \in BOOLEAN
  BY DEF IsState, EventSet
<1>2. \A i \in DOMAIN s.active : s.active[i].at \in Nat
  BY DEF IsState
<1>3. ASSUME e.op = "create" PROVE Anchored(s2, e)
  <2>1. Anchored(s, e) /\ e.id \in s.seen
    BY <1>3 DEF Says, Anchored
  <2>2. e.id \in s2.seen
    BY <2>1 DEF Moves
  <2>3. ASSUME e.every, e.id \in DOMAIN s2.active
        PROVE  s2.active[e.id].every /\ \E q \in Nat : s2.active[e.id].at = e.at + q * Interval
    <3>1. \/ e.id \in DOMAIN s.active /\ s2.active[e.id] = s.active[e.id]
          \/ e.id \in DOMAIN s.active /\ Ahead(s.active[e.id], s2.active[e.id], t)
      BY <2>1, <2>3 DEF Moves
    <3>2. PICK q \in Nat : s.active[e.id].every /\ s.active[e.id].at = e.at + q * Interval
      BY <2>1, <2>3, <3>1 DEF Anchored
    <3>3. CASE s2.active[e.id] = s.active[e.id]
      BY <3>2, <3>3
    <3>4. CASE Ahead(s.active[e.id], s2.active[e.id], t)
      <4>1. PICK r \in Nat : s2.active[e.id].every /\ s2.active[e.id].at = s.active[e.id].at + r * Interval
        BY <3>4 DEF Ahead
      <4>2. q + r \in Nat /\ e.at + q * Interval + r * Interval = e.at + (q + r) * Interval
        BY <1>1, ScheduleAssumption
      <4> QED
        BY <3>2, <4>1, <4>2
    <3> QED
      BY <3>1, <3>3, <3>4
  <2> QED
    BY <2>2, <2>3 DEF Anchored
<1>4. ASSUME e.op = "admitted" PROVE Named(s2, e, t)
  <2>1. Named(s, e, t)
    BY <1>4 DEF Says
  <2>2. CASE e.id = Batch
    <3> SUFFICES ASSUME NEW i \in DOMAIN s2.active, s2.active[i].every
                 PROVE  e.at < s2.active[i].at
      BY <2>1, <2>2 DEF Named
    <3>1. e.at <= t
      BY <2>1, <2>2 DEF Named
    <3>2. CASE t < s2.active[i].at
      <4>1. s2.active[i].at \in Nat
        BY DEF IsState
      <4> QED
        BY <1>1, <3>1, <3>2, <4>1
    <3>3. CASE i \in DOMAIN s.active /\ s2.active[i] = s.active[i]
      BY <2>1, <2>2, <3>3 DEF Named
    <3> QED
      BY <3>2, <3>3 DEF Moves, Ahead
  <2>3. CASE e.id # Batch
    BY <1>1, <2>1, <2>3 DEF Named, Moves
  <2> QED
    BY <2>2, <2>3
<1>5. ASSUME e.op = "dispatch" PROVE Passed(s2, e)
  <2>1. Passed(s, e) /\ e.id \in s2.seen
    BY <1>5 DEF Says, Passed, Moves
  <2>2. ASSUME e.id \in DOMAIN s2.active, s2.active[e.id].every
        PROVE  e.at < s2.active[e.id].at
    <3>1. \/ e.id \in DOMAIN s.active /\ s2.active[e.id] = s.active[e.id]
          \/ e.id \in DOMAIN s.active /\ Ahead(s.active[e.id], s2.active[e.id], t)
      BY <2>1, <2>2 DEF Passed, Moves
    <3>2. CASE s2.active[e.id] = s.active[e.id]
      BY <2>1, <2>2, <3>1, <3>2 DEF Passed
    <3>3. CASE Ahead(s.active[e.id], s2.active[e.id], t)
      <4>1. e.id \in DOMAIN s.active /\ s.active[e.id].every
        BY <3>1, <3>3 DEF Ahead
      <4>2. PICK q \in Nat : s2.active[e.id].at = s.active[e.id].at + q * Interval
        BY <3>3 DEF Ahead
      <4>3. e.at < s.active[e.id].at /\ s.active[e.id].at \in Nat
        BY <1>2, <2>1, <4>1 DEF Passed
      <4>4. q * Interval \in Nat
        BY ScheduleAssumption
      <4> QED
        BY <1>1, <4>2, <4>3, <4>4
    <3> QED
      BY <3>1, <3>2, <3>3
  <2> QED
    BY <2>1, <2>2 DEF Passed
<1> QED
  BY <1>3, <1>4, <1>5 DEF Says

(* An event appended to a log leaves no occurrence out. *)
LEMMA SkipsNoneStays ==
  ASSUME NEW events \in Seq(EventSet), NEW e \in EventSet, NEW more, more = Append(events, e),
         NEW s, NEW s2, IsState(s), Causes(s, s2, e),
         \A n \in DOMAIN events : SkipsNone(events, s, events[n]),
         \A n \in DOMAIN events : events[n].op = "create" => events[n].id \in s.seen,
         e.op = "create" => e.id \notin s.seen,
         NEW n \in DOMAIN more
  PROVE  SkipsNone(more, s2, more[n])
<1>1. /\ DOMAIN events \subseteq DOMAIN more /\ \A m \in DOMAIN events : more[m] = events[m]
      /\ Len(events) + 1 \in DOMAIN more /\ more[Len(events) + 1] = e
      /\ n \in DOMAIN events \/ more[n] = e
  OBVIOUS
<1>2. PICK c : c = more[n]
  OBVIOUS
<1> SUFFICES ASSUME c.op = "create", c.id \in DOMAIN s2.active
             PROVE  s2.active[c.id].at = c.at \/ Accepts(more, c.id, s2.active[c.id].at)
  BY <1>2 DEF SkipsNone
<1>3. CASE c.id \in DOMAIN s.active /\ s2.active[c.id] = s.active[c.id] /\ n \in DOMAIN events
  <2>1. s.active[c.id].at = c.at \/ Accepts(events, c.id, s.active[c.id].at)
    BY <1>1, <1>2, <1>3 DEF SkipsNone
  <2>2. Accepts(events, c.id, s.active[c.id].at) => Accepts(more, c.id, s.active[c.id].at)
    BY <1>1 DEF Accepts
  <2> QED
    BY <1>3, <2>1, <2>2
<1>4. CASE e.op = "dispatch" /\ e.id = c.id /\ s2.active[c.id].at <= e.at + Interval
  BY <1>1, <1>4 DEF Accepts
<1>5. CASE c.id \notin s.seen /\ e.op = "create" /\ e.id = c.id /\ s2.active[c.id].at = e.at
  <2>1. n \in DOMAIN events => c.id \in s.seen
    BY <1>1, <1>2
  <2>2. c = e
    BY <1>1, <1>2, <1>5, <2>1
  <2> QED
    BY <1>5, <2>2
<1>6. CASE c.id \in DOMAIN s.active /\ s2.active[c.id] = s.active[c.id] /\ c = e
  BY <1>6 DEF IsState
<1> QED
  BY <1>1, <1>2, <1>3, <1>4, <1>5, <1>6 DEF Causes

LEMMA AppendSound ==
  ASSUME NEW events, NEW t \in Nat, AllSound(events, t), NEW e \in EventSet,
         Allowed(State(events), e, t)
  PROVE  /\ AllSound(Append(events, e), t)
         /\ State(Append(events, e)) = FoldEvent(State(events), e)
<1> DEFINE more == Append(events, e)
<1>1. events \in Seq(EventSet) /\ Sound(events, t)
  <2>1. events \in Seq(EventSet)
    BY DEF AllSound
  <2> QED
    <3>1. Len(events) \in 0 .. Len(events) /\ SubSeq(events, 1, Len(events)) = events
      BY <2>1, Whole
    <3> QED
      BY <2>1, <3>1 DEF AllSound
<1>2. State(more) = FoldEvent(State(events), e)
  BY <1>1, FoldAppend DEF State
<1>3. /\ IsState(State(more)) /\ Moves(State(events), State(more), t) /\ Says(State(more), e, t)
      /\ Causes(State(events), State(more), e)
  BY <1>1, <1>2, FoldAllowed DEF Sound
<1>4. Sound(more, t)
  <2>1. ASSUME NEW n \in DOMAIN more PROVE Says(State(more), more[n], t)
    <3>1. \/ n \in DOMAIN events /\ more[n] = events[n] /\ events[n] \in EventSet
          \/ more[n] = e
      BY <1>1
    <3> HIDE DEF more
    <3>2. ASSUME n \in DOMAIN events, events[n] \in EventSet
          PROVE  Says(State(more), events[n], t)
      <4>1. Says(State(events), events[n], t) /\ IsState(State(events))
        BY <1>1, <3>2 DEF Sound
      <4> QED
        BY <1>3, <3>2, <4>1, SaysStays
    <3> QED
      BY <1>3, <3>1, <3>2
  <2>2. ASSUME NEW n \in DOMAIN more PROVE SkipsNone(more, State(more), more[n])
    <3>1. /\ IsState(State(events))
          /\ \A k \in DOMAIN events : Says(State(events), events[k], t)
          /\ \A k \in DOMAIN events : SkipsNone(events, State(events), events[k])
      BY <1>1 DEF Sound
    <3>2. \A k \in DOMAIN events : events[k].op = "create" => events[k].id \in State(events).seen
      BY <3>1 DEF Says, Anchored
    <3>3. e.op = "create" => e.id \notin State(events).seen
      BY DEF Allowed
    <3>4. PICK s, s2 : s = State(events) /\ s2 = State(more)
      OBVIOUS
    <3>5. more = Append(events, e)
      OBVIOUS
    <3> HIDE DEF more
    <3> QED
      BY <1>1, <1>3, <3>1, <3>2, <3>3, <3>4, <3>5, SkipsNoneStays
  <2> HIDE DEF more
  <2> QED
    BY <1>3, <2>1, <2>2 DEF Sound
<1>5. ASSUME NEW p \in 0 .. Len(more) PROVE Sound(SubSeq(more, 1, p), t)
  <2>1. \/ p \in 0 .. Len(events) /\ SubSeq(more, 1, p) = SubSeq(events, 1, p)
        \/ SubSeq(more, 1, p) = more
    BY <1>1, PrefixOfMore
  <2> HIDE DEF more
  <2> QED
    BY <1>4, <2>1 DEF AllSound
<1>6. more \in Seq(EventSet)
  BY <1>1
<1> QED
  BY <1>2, <1>5, <1>6 DEF AllSound

LEMMA PrefixSound ==
  ASSUME NEW a, NEW t, AllSound(a, t), NEW n \in 0 .. Len(a)
  PROVE  /\ AllSound(SubSeq(a, 1, n), t) /\ Sound(SubSeq(a, 1, n), t)
         /\ Len(SubSeq(a, 1, n)) = n
<1>1. a \in Seq(EventSet)
  BY DEF AllSound
<1>2. SubSeq(a, 1, n) \in Seq(EventSet) /\ Len(SubSeq(a, 1, n)) = n
  BY <1>1
<1>3. ASSUME NEW p \in 0 .. n PROVE Sound(SubSeq(SubSeq(a, 1, n), 1, p), t)
  <2>1. SubSeq(SubSeq(a, 1, n), 1, p) = SubSeq(a, 1, p) /\ p \in 0 .. Len(a)
    BY <1>1, PrefixOfPrefix
  <2> QED
    BY <2>1 DEF AllSound
<1> QED
  BY <1>2, <1>3 DEF AllSound

LEMMA WholeSound ==
  ASSUME NEW a, NEW t, AllSound(a, t)
  PROVE  a \in Seq(EventSet) /\ Sound(a, t) /\ IsState(State(a))
<1>1. a \in Seq(EventSet)
  BY DEF AllSound
<1>2. Len(a) \in 0 .. Len(a) /\ SubSeq(a, 1, Len(a)) = a
  BY <1>1, Whole
<1> QED
  BY <1>1, <1>2 DEF AllSound, Sound

LEMMA LaterSound ==
  ASSUME NEW a, NEW t \in Nat, AllSound(a, t)
  PROVE  AllSound(a, t + 1)
<1> SUFFICES ASSUME NEW p \in 0 .. Len(a) PROVE Sound(SubSeq(a, 1, p), t + 1)
  BY DEF AllSound
<1> DEFINE b == SubSeq(a, 1, p)
<1>1. Sound(b, t) /\ b \in Seq(EventSet)
  BY DEF AllSound
<1> HIDE DEF b
<1>2. \A n \in DOMAIN b : b[n].at \in Nat
  <2>1. \A n \in DOMAIN b : b[n] \in EventSet
    BY <1>1
  <2> QED
    BY <2>1 DEF EventSet
<1>3. \A n \in DOMAIN b : b[n].at <= t => b[n].at <= t + 1
  BY <1>2
<1>4. Sound(b, t + 1)
  BY <1>1, <1>3 DEF Sound, Says, Named
<1> QED
  BY <1>4 DEF b

LEMMA EmptySound == AllSound(<<>>, 1) /\ State(<<>>) = Nothing
<1>1. State(<<>>) = Nothing
  BY FoldEmpty DEF State
<1>2. IsState(Nothing)
  <2>1. Nothing.active = <<>> /\ Nothing.seen = {} /\ Nothing = Folded(Nothing.active, Nothing.seen)
    BY FoldedFields DEF Nothing
  <2> QED
    BY <2>1 DEF IsState
<1>3. Sound(<<>>, 1)
  BY <1>1, <1>2 DEF Sound
<1>4. \A p \in 0 .. 0 : SubSeq(<<>>, 1, p) = <<>>
  OBVIOUS
<1>5. <<>> \in Seq(EventSet) /\ Len(<<>>) = 0
  OBVIOUS
<1> QED
  BY <1>1, <1>3, <1>4, <1>5 DEF AllSound

-----------------------------------------------------------------------------
(* InOrder goes over a set of reminders, each of them once. *)
LEMMA Ranked ==
  ASSUME NEW active, active \in [DOMAIN active -> [every : BOOLEAN, at : Nat]],
         DOMAIN active \subseteq Ids, NEW ids \in SUBSET DOMAIN active
  PROVE  /\ InOrder(active, ids) \in Seq(ids)
         /\ \A m, n \in DOMAIN InOrder(active, ids) :
               InOrder(active, ids)[m] = InOrder(active, ids)[n] => m = n
         /\ \A i \in ids : \E n \in DOMAIN InOrder(active, ids) : InOrder(active, ids)[n] = i
<1> DEFINE C == Cardinality(ids)
           rank == [i \in ids |-> Cardinality(Earlier(active, ids, i))]
           order == InOrder(active, ids)
<1>1. ids \subseteq Nat /\ \A i \in ids : active[i].at \in Nat
  BY DEF Ids
<1>2. IsFiniteSet(ids) /\ C \in Nat
  <2>1. IsFiniteSet(Ids)
    <3>1. 1 \in Int /\ MaxCreates \in Int
      BY ScheduleAssumption
    <3>2. IsFiniteSet(1 .. MaxCreates)
      BY <3>1, FS_Interval
    <3> QED
      BY <3>2 DEF Ids
  <2>2. IsFiniteSet(ids)
    BY <2>1, FS_Subset
  <2> QED
    BY <2>2, FS_CardinalityType
<1>3. \A i \in ids : /\ Earlier(active, ids, i) \subseteq ids /\ i \notin Earlier(active, ids, i)
                     /\ IsFiniteSet(Earlier(active, ids, i))
  <2> SUFFICES ASSUME NEW i \in ids
               PROVE  /\ Earlier(active, ids, i) \subseteq ids /\ i \notin Earlier(active, ids, i)
                      /\ IsFiniteSet(Earlier(active, ids, i))
    OBVIOUS
  <2>1. Earlier(active, ids, i) \subseteq ids /\ i \notin Earlier(active, ids, i)
    BY <1>1 DEF Earlier, Before
  <2> QED
    BY <1>2, <2>1, FS_Subset
<1>4. ASSUME NEW S, NEW T, IsFiniteSet(T), S \subseteq T, NEW x \in T, x \notin S
      PROVE  Cardinality(S) < Cardinality(T)
  <2>1. S \in SUBSET T /\ S # T
    BY <1>4
  <2>2. Cardinality(S) <= Cardinality(T) /\ Cardinality(S) # Cardinality(T) /\ IsFiniteSet(S)
    BY <1>4, <2>1, FS_Subset
  <2>3. Cardinality(S) \in Nat /\ Cardinality(T) \in Nat
    BY <1>4, <2>2, FS_CardinalityType
  <2> QED
    BY <2>2, <2>3
<1>5. rank \in [ids -> 0 .. C - 1]
  <2> SUFFICES ASSUME NEW i \in ids PROVE Cardinality(Earlier(active, ids, i)) \in 0 .. C - 1
    OBVIOUS
  <2>1. Cardinality(Earlier(active, ids, i)) < C
    BY <1>2, <1>3, <1>4
  <2>2. Cardinality(Earlier(active, ids, i)) \in Nat
    BY <1>3, FS_CardinalityType
  <2> QED
    BY <1>2, <2>1, <2>2
<1>6. ASSUME NEW i \in ids, NEW j \in ids, Before(active, i, j) PROVE rank[i] < rank[j]
  <2>1. Earlier(active, ids, i) \subseteq Earlier(active, ids, j) /\ i \in Earlier(active, ids, j)
    BY <1>1, <1>6 DEF Earlier, Before
  <2>2. i \notin Earlier(active, ids, i) /\ IsFiniteSet(Earlier(active, ids, j))
    BY <1>3
  <2>3. Cardinality(Earlier(active, ids, i)) < Cardinality(Earlier(active, ids, j))
    BY <1>4, <2>1, <2>2
  <2> QED
    BY <2>3
<1> HIDE DEF rank, C
<1>7. ASSUME NEW i \in ids, NEW j \in ids, rank[i] = rank[j] PROVE i = j
  <2>1. Before(active, i, j) \/ Before(active, j, i) \/ i = j
    BY <1>1 DEF Before
  <2>2. rank[i] \in Nat /\ rank[j] \in Nat
    BY <1>2, <1>5
  <2> QED
    BY <1>6, <1>7, <2>1, <2>2
<1>8. \A n \in 0 .. C - 1 : \E i \in ids : rank[i] = n
  <2>1. rank \in Injection(ids, 0 .. C - 1)
    BY <1>5, <1>7 DEF Injection, IsInjective
  <2>2. IsFiniteSet(0 .. C - 1) /\ Cardinality(0 .. C - 1) = C
    <3>1. PICK m \in Int : m = C - 1
      BY <1>2
    <3>2. IsFiniteSet(0 .. m) /\ Cardinality(0 .. m) = IF 0 > m THEN 0 ELSE m - 0 + 1
      BY 0 \in Int, FS_Interval, Zenon
    <3> QED
      BY <1>2, <3>1, <3>2
  <2>3. rank \in Surjection(ids, 0 .. C - 1)
    BY <2>1, <2>2, FS_Injection DEF C
  <2> QED
    BY <2>3 DEF Surjection
<1>9. /\ order = [n \in 1 .. C |-> CHOOSE i \in ids : rank[i] = n - 1]
      /\ DOMAIN order = 1 .. C
  BY DEF InOrder, rank, C
<1>10. ASSUME NEW n \in 1 .. C PROVE order[n] \in ids /\ rank[order[n]] = n - 1
  <2>1. n - 1 \in 0 .. C - 1
    BY <1>2
  <2>2. \E i \in ids : rank[i] = n - 1
    BY <1>8, <2>1
  <2> HIDE DEF order
  <2>3. order[n] = CHOOSE i \in ids : rank[i] = n - 1
    BY <1>9
  <2> QED
    BY <2>2, <2>3
<1> HIDE DEF order
<1>11. order \in Seq(ids)
  <2>1. order \in [1 .. C -> ids]
    BY <1>9, <1>10
  <2> QED
    BY <1>2, <2>1
<1>12. ASSUME NEW m \in 1 .. C, NEW n \in 1 .. C, order[m] = order[n] PROVE m = n
  <2>1. m - 1 = n - 1
    BY <1>10, <1>12
  <2> QED
    BY <1>2, <2>1
<1>13. ASSUME NEW i \in ids PROVE \E n \in 1 .. C : order[n] = i
  <2>1. rank[i] \in 0 .. C - 1
    BY <1>5
  <2>2. PICK n \in 1 .. C : n - 1 = rank[i]
    <3>1. rank[i] + 1 \in 1 .. C
      BY <1>2, <2>1
    <3> QED
      BY <2>1, <3>1
  <2>3. rank[order[n]] = rank[i] /\ order[n] \in ids
    BY <1>10, <2>2
  <2> QED
    BY <1>7, <2>3
<1> QED
  BY <1>9, <1>11, <1>12, <1>13 DEF order

-----------------------------------------------------------------------------
(* What Among keeps is what it was told to keep. *)
KeptAt(seq, S, f, n) ==
    IF n = 0 THEN <<>>
    ELSE IF seq[n] \in S THEN Append(f[n - 1], seq[n]) ELSE f[n - 1]
Unfolds(seq, S, f, k) == f = [n \in 0 .. k |-> KeptAt(seq, S, f, n)]

LEMMA UnfoldsExists ==
  ASSUME NEW seq, NEW S
  PROVE  \A k \in Nat : \E f : Unfolds(seq, S, f, k)
<1> DEFINE Reached == {k \in Nat : \E f : Unfolds(seq, S, f, k)}
<1>1. 0 \in Reached
  <2> DEFINE g == [n \in 0 .. 0 |-> <<>>]
  <2>1. Unfolds(seq, S, g, 0)
    BY DEF Unfolds, KeptAt
  <2> QED
    BY <2>1
<1>2. ASSUME NEW k \in Nat, k \in Reached PROVE k + 1 \in Reached
  <2>1. PICK f : Unfolds(seq, S, f, k)
    BY <1>2
  <2> DEFINE g == [n \in 0 .. k + 1 |-> IF n = k + 1 THEN KeptAt(seq, S, f, n) ELSE f[n]]
  <2>2. \A n \in 0 .. k : g[n] = f[n] /\ f[n] = KeptAt(seq, S, f, n)
    BY <2>1 DEF Unfolds
  <2>3. ASSUME NEW n \in 0 .. k + 1 PROVE g[n] = KeptAt(seq, S, g, n)
    <3>1. g[n] = KeptAt(seq, S, f, n)
      <4>1. CASE n = k + 1
        BY <4>1
      <4>2. CASE n \in 0 .. k
        BY <2>2, <4>2
      <4> QED
        BY <4>1, <4>2
    <3>2. n # 0 => n - 1 \in 0 .. k
      OBVIOUS
    <3>3. n # 0 => g[n - 1] = f[n - 1]
      BY <2>2, <3>2
    <3> QED
      BY <3>1, <3>3 DEF KeptAt
  <2>4. Unfolds(seq, S, g, k + 1)
    BY <2>3 DEF Unfolds
  <2> QED
    BY <2>4
<1> HIDE DEF Reached
<1>3. \A k \in Nat : k \in Reached
  BY <1>1, <1>2, SetInduction
<1> QED
  BY <1>3 DEF Reached

LEMMA AmongKeeps ==
  ASSUME NEW T, NEW seq \in Seq(T), NEW S
  PROVE  Among(seq, S) \in Seq(S)
<1> DEFINE kept == CHOOSE f : f = [n \in 0 .. Len(seq) |->
                       IF n = 0 THEN <<>>
                       ELSE IF seq[n] \in S THEN Append(f[n - 1], seq[n]) ELSE f[n - 1]]
           Fit == {n \in Nat : n <= Len(seq) => kept[n] \in Seq(S)}
<1>1. \E f : Unfolds(seq, S, f, Len(seq))
  <2>1. Len(seq) \in Nat
    OBVIOUS
  <2> HIDE DEF kept
  <2> QED
    BY <2>1, UnfoldsExists
<1>2. kept = [n \in 0 .. Len(seq) |->
                 IF n = 0 THEN <<>>
                 ELSE IF seq[n] \in S THEN Append(kept[n - 1], seq[n]) ELSE kept[n - 1]]
  <2>1. \E f : f = [n \in 0 .. Len(seq) |->
                       IF n = 0 THEN <<>>
                       ELSE IF seq[n] \in S THEN Append(f[n - 1], seq[n]) ELSE f[n - 1]]
    BY <1>1 DEF Unfolds, KeptAt
  <2> QED
    BY <2>1, Zenon
<1>3. Among(seq, S) = kept[Len(seq)]
  BY DEF Among
<1> HIDE DEF kept
<1>4. \A n \in 0 .. Len(seq) : kept[n] = KeptAt(seq, S, kept, n)
  BY <1>2 DEF KeptAt
<1>5. 0 \in Fit
  <2>1. 0 \in 0 .. Len(seq)
    OBVIOUS
  <2>2. kept[0] = <<>>
    BY <1>4, <2>1 DEF KeptAt
  <2>3. kept[0] \in Seq(S)
    BY <2>2
  <2> QED
    BY <2>3
<1>6. ASSUME NEW n \in Nat, n \in Fit PROVE n + 1 \in Fit
  <2> SUFFICES ASSUME n + 1 <= Len(seq) PROVE kept[n + 1] \in Seq(S)
    OBVIOUS
  <2>1. kept[n] \in Seq(S)
    BY <1>6
  <2>2. kept[n + 1] = IF seq[n + 1] \in S THEN Append(kept[n], seq[n + 1]) ELSE kept[n]
    BY <1>4 DEF KeptAt
  <2> QED
    BY <2>1, <2>2
<1> HIDE DEF Fit
<1>7. Len(seq) \in Fit
  BY <1>5, <1>6, SetInduction
<1> QED
  BY <1>3, <1>7 DEF Fit

-----------------------------------------------------------------------------
(* What the steps append. *)
IInv ==
    /\ AllSound(log, now)
    /\ folded = State(log)
    /\ now \in Nat \ {0}
    /\ durable \in 0 .. Len(log)
    /\ torn \subseteq 1 .. durable
    /\ DispatchedIsAdmitted

(* Appends leaves the fold to agree with the log. *)
LEMMA FoldedAppends ==
  ASSUME log \in Seq(EventSet), folded = State(log), NEW es \in Seq(EventSet), Appends(es)
  PROVE  folded' = State(log') /\ log' = log \o es
<1>1. FoldFrom(FoldFrom(Nothing, log), es) = FoldFrom(Nothing, log \o es)
  BY FoldJoin
<1> QED
  BY <1>1 DEF Appends, State

(* The dispatches of a log are followed by the admission they belong to.     *)
Follows(l, n) ==
    \E m \in n + 1 .. Len(l) :
        l[m].op = "admitted" /\ \A k \in n .. m - 1 : l[k].op = "dispatch"

LEMMA FollowsMeans ==
  ASSUME log \in Seq(EventSet)
  PROVE  DispatchedIsAdmitted <=>
            \A n \in DOMAIN log : log[n].op = "dispatch" /\ n \notin torn => Follows(log, n)
<1>1. ASSUME NEW n \in DOMAIN log PROVE IsAdmitted(n) <=> Follows(log, n)
  <2>1. ASSUME NEW m \in n + 1 .. Len(log)
        PROVE  (\A k \in n .. m - 1 : k \in Dispatches) <=> \A k \in n .. m - 1 : log[k].op = "dispatch"
    <3>1. \A k \in n .. m - 1 : k \in DOMAIN log
      BY <2>1
    <3> QED
      BY <3>1 DEF Dispatches
  <2> QED
    BY <2>1 DEF IsAdmitted, AdmissionOf, Follows
<1> QED
  BY <1>1 DEF DispatchedIsAdmitted, Dispatches

LEMMA FollowsMeansNext ==
  ASSUME log' \in Seq(EventSet)
  PROVE  DispatchedIsAdmitted' <=>
            \A n \in DOMAIN log' : log'[n].op = "dispatch" /\ n \notin torn' => Follows(log', n)
<1>1. (log \in Seq(EventSet) => (DispatchedIsAdmitted <=>
          \A n \in DOMAIN log : log[n].op = "dispatch" /\ n \notin torn => Follows(log, n)))'
  BY FollowsMeans, PTL
<1> QED
  BY <1>1

LEMMA StaysAdmitted ==
  ASSUME log \in Seq(EventSet), NEW es \in Seq(EventSet), log' = log \o es, torn' = torn,
         DispatchedIsAdmitted,
         \A k \in DOMAIN es : es[k].op = "dispatch" => Follows(es, k)
  PROVE  DispatchedIsAdmitted'
<1> DEFINE L == Len(log)
<1>1. /\ L \in Nat /\ Len(es) \in Nat /\ DOMAIN log = 1 .. L /\ DOMAIN es = 1 .. Len(es)
      /\ Len(log') = L + Len(es) /\ DOMAIN log' = 1 .. L + Len(es)
      /\ \A n \in 1 .. L : log'[n] = log[n]
      /\ \A k \in 1 .. Len(es) : log'[L + k] = es[k]
  OBVIOUS
<1>2. log' \in Seq(EventSet)
  OBVIOUS
<1> SUFFICES ASSUME NEW n \in 1 .. L + Len(es), log'[n].op = "dispatch", n \notin torn
             PROVE  Follows(log', n)
  BY <1>1, <1>2, FollowsMeansNext
<1>3. CASE n \in 1 .. L
  <2>1. Follows(log, n)
    BY <1>1, <1>3, FollowsMeans
  <2>2. PICK m \in n + 1 .. L : log[m].op = "admitted" /\ \A k \in n .. m - 1 : log[k].op = "dispatch"
    BY <2>1 DEF Follows
  <2>3. m \in 1 .. L /\ m \in n + 1 .. L + Len(es) /\ \A k \in n .. m - 1 : k \in 1 .. L
    BY <1>1, <1>3
  <2>4. \A k \in n .. m - 1 : log'[k].op = "dispatch"
    BY <1>1, <2>2, <2>3
  <2> QED
    BY <1>1, <2>2, <2>3, <2>4 DEF Follows
<1>4. CASE n \notin 1 .. L
  <2>1. PICK k \in 1 .. Len(es) : n = L + k
    <3>1. n - L \in 1 .. Len(es)
      BY <1>1, <1>4
    <3> QED
      BY <1>1, <3>1
  <2>2. es[k].op = "dispatch"
    BY <1>1, <2>1
  <2>3. PICK m \in k + 1 .. Len(es) :
           es[m].op = "admitted" /\ \A j \in k .. m - 1 : es[j].op = "dispatch"
    BY <1>1, <2>2 DEF Follows
  <2>4. PICK w : w = L + m
    OBVIOUS
  <2>5. m \in 1 .. Len(es) /\ w \in n + 1 .. L + Len(es) /\ log'[w].op = "admitted"
    BY <1>1, <2>1, <2>3, <2>4
  <2>6. ASSUME NEW j \in n .. w - 1 PROVE log'[j].op = "dispatch"
    <3>1. PICK i : i = j - L
      OBVIOUS
    <3>2. i \in k .. m - 1 /\ i \in 1 .. Len(es) /\ j = L + i
      BY <1>1, <2>1, <2>3, <2>4, <3>1
    <3> QED
      BY <1>1, <2>3, <3>2
  <2> QED
    BY <1>1, <2>5, <2>6 DEF Follows
<1> QED
  BY <1>3, <1>4

(* What is appended one by one: promotions, and a batch of dispatches. *)
LEMMA PromotionsSound ==
  ASSUME NEW a, NEW t \in Nat, AllSound(a, t), NEW es \in Seq(EventSet),
         \A k \in DOMAIN es : es[k].op = "promoted"
  PROVE  AllSound(a \o es, t)
<1> DEFINE Upto(k) == SubSeq(es, 1, k)
           Fit == {k \in Nat : k <= Len(es) => AllSound(a \o Upto(k), t)}
<1>1. a \in Seq(EventSet)
  BY WholeSound
<1>2. 0 \in Fit
  BY <1>1, Whole
<1>3. ASSUME NEW k \in Nat, k \in Fit PROVE k + 1 \in Fit
  <2>1. PICK m \in Nat : m = k + 1
    OBVIOUS
  <2> SUFFICES ASSUME m <= Len(es) PROVE AllSound(a \o Upto(m), t)
    BY <2>1
  <2>2. Upto(m) = Append(Upto(k), es[m]) /\ Upto(k) \in Seq(EventSet) /\ es[m] \in EventSet
    BY <2>1, OneMore
  <2>3. AllSound(a \o Upto(k), t)
    BY <1>3, <2>1
  <2> HIDE DEF Upto
  <2>4. a \o Upto(m) = Append(a \o Upto(k), es[m])
    BY <1>1, <2>2, JoinOneMore
  <2>5. PICK b : b = a \o Upto(k)
    OBVIOUS
  <2>6. es[m].op = "promoted"
    BY <2>1
  <2>7. Allowed(State(b), es[m], t)
    BY <2>6 DEF Allowed
  <2>8. AllSound(Append(b, es[m]), t)
    BY <2>2, <2>3, <2>5, <2>7, AppendSound
  <2> QED
    BY <2>4, <2>5, <2>8
<1> HIDE DEF Fit
<1>4. Len(es) \in Fit
  BY <1>2, <1>3, SetInduction
<1>5. Len(es) \in Nat /\ Upto(Len(es)) = es
  BY Whole
<1> HIDE DEF Upto
<1> QED
  BY <1>4, <1>5 DEF Fit

(* The first k of a batch lie ahead, the others are as they were. *)
Batched(s, s2, ids, k, t) ==
    /\ DOMAIN s2.active = DOMAIN s.active
    /\ \A i \in DOMAIN s.active :
          \/ t < s2.active[i].at /\ \E n \in 1 .. k : ids[n] = i
          \/ s2.active[i] = s.active[i] /\ \A n \in 1 .. k : ids[n] # i

IsBatch(s, ids, es, t) ==
    /\ ids \in Seq(DOMAIN s.active)
    /\ es \in Seq(EventSet) /\ Len(es) = Len(ids)
    /\ \A m, n \in DOMAIN ids : ids[m] = ids[n] => m = n
    /\ \A n \in DOMAIN ids : s.active[ids[n]].every /\ s.active[ids[n]].at <= t
    /\ \A n \in DOMAIN ids : es[n].op = "dispatch" /\ es[n].id = ids[n] /\ es[n].at = t

LEMMA BatchSound ==
  ASSUME NEW a, NEW t \in Nat \ {0}, AllSound(a, t), NEW s, s = State(a),
         NEW ids, NEW es, IsBatch(s, ids, es, t)
  PROVE  AllSound(a \o es, t) /\ Batched(s, State(a \o es), ids, Len(ids), t)
<1> DEFINE Upto(k) == SubSeq(es, 1, k)
           Fit == {k \in Nat : k <= Len(es) =>
                      AllSound(a \o Upto(k), t) /\ Batched(s, State(a \o Upto(k)), ids, k, t)}
<1>1. a \in Seq(EventSet) /\ es \in Seq(EventSet) /\ Len(es) \in Nat /\ DOMAIN ids = 1 .. Len(es)
  BY WholeSound DEF IsBatch
<1>2. 0 \in Fit
  <2>1. a \o Upto(0) = a
    BY <1>1, Whole
  <2>2. Batched(s, s, ids, 0, t)
    BY DEF Batched
  <2> HIDE DEF Upto
  <2> QED
    BY <2>1, <2>2
<1>3. ASSUME NEW k \in Nat, k \in Fit PROVE k + 1 \in Fit
  <2>1. PICK m \in Nat : m = k + 1
    OBVIOUS
  <2> SUFFICES ASSUME m <= Len(es)
               PROVE  AllSound(a \o Upto(m), t) /\ Batched(s, State(a \o Upto(m)), ids, m, t)
    BY <2>1
  <2>2. Upto(m) = Append(Upto(k), es[m]) /\ Upto(k) \in Seq(EventSet) /\ es[m] \in EventSet
    BY <1>1, <2>1, OneMore
  <2>3. k <= Len(es)
    BY <1>1, <2>1
  <2> HIDE DEF Upto
  <2>4. PICK b : b = a \o Upto(k)
    OBVIOUS
  <2>5. AllSound(b, t) /\ Batched(s, State(b), ids, k, t)
    BY <1>3, <2>3, <2>4
  <2>6. a \o Upto(m) = Append(b, es[m])
    BY <1>1, <2>2, <2>4, JoinOneMore
  <2> HIDE DEF Fit
  <2>7. PICK id, s1, s2 : id = ids[m] /\ s1 = State(b) /\ s2 = FoldEvent(s1, es[m])
    OBVIOUS
  <2>8. m \in DOMAIN ids /\ \A n \in 1 .. k : n \in DOMAIN ids /\ n # m
    BY <1>1, <2>1
  <2>9. /\ id \in DOMAIN s.active /\ s.active[id].every /\ s.active[id].at <= t
        /\ \A n \in 1 .. k : ids[n] # id
    BY <2>7, <2>8 DEF IsBatch
  <2>10. s1.active[id] = s.active[id] /\ id \in DOMAIN s1.active
    BY <2>5, <2>7, <2>9 DEF Batched
  <2>11. es[m].op = "dispatch" /\ es[m].id = id /\ es[m].at = t
    BY <2>7, <2>8 DEF IsBatch
  <2>12. IsState(s1)
    BY <2>5, <2>7, WholeSound
  <2>13. Allowed(s1, es[m], t)
    BY <2>9, <2>10, <2>11 DEF Allowed, Absent
  <2>14. AllSound(Append(b, es[m]), t) /\ State(Append(b, es[m])) = s2
    BY <2>2, <2>5, <2>7, <2>13, AppendSound
  <2>15. /\ DOMAIN s2.active = DOMAIN s1.active
         /\ t < s2.active[id].at
         /\ \A i \in DOMAIN s1.active \ {id} : s2.active[i] = s1.active[i]
    <3>1. t \in Nat /\ t # Absent
      BY DEF Absent
    <3>2. PICK e : e = es[m]
      OBVIOUS
    <3>3. e \in EventSet /\ e.op = "dispatch" /\ e.id = id /\ e.at = t /\ s2 = FoldEvent(s1, e)
      BY <2>2, <2>7, <2>11, <3>2
    <3>4. e.id \in DOMAIN s1.active /\ s1.active[e.id].every /\ s1.active[e.id].at <= t
      BY <2>9, <2>10, <3>3
    <3>5. /\ DOMAIN FoldEvent(s1, e).active = DOMAIN s1.active
          /\ t < FoldEvent(s1, e).active[e.id].at
          /\ \A i \in DOMAIN s1.active \ {e.id} : FoldEvent(s1, e).active[i] = s1.active[i]
      BY <2>12, <3>1, <3>3, <3>4, FoldDispatch
    <3> QED
      BY <3>3, <3>5
  <2>16. Batched(s, s2, ids, m, t)
    <3>1. DOMAIN s2.active = DOMAIN s.active
      BY <2>5, <2>7, <2>15 DEF Batched
    <3>2. ASSUME NEW i \in DOMAIN s.active
          PROVE  \/ t < s2.active[i].at /\ \E n \in 1 .. m : ids[n] = i
                 \/ s2.active[i] = s.active[i] /\ \A n \in 1 .. m : ids[n] # i
      <4>1. CASE i = id
        <5>1. m \in 1 .. m
          BY <2>1
        <5> QED
          BY <2>7, <2>15, <4>1, <5>1
      <4>2. CASE i # id
        <5>1. s2.active[i] = s1.active[i]
          BY <2>15, <3>1, <4>2
        <5>2. \A n \in 1 .. m : n \in 1 .. k \/ n = m
          BY <2>1
        <5>3. \A n \in 1 .. k : n \in 1 .. m
          BY <2>1
        <5>4. \/ t < s1.active[i].at /\ \E n \in 1 .. k : ids[n] = i
              \/ s1.active[i] = s.active[i] /\ \A n \in 1 .. k : ids[n] # i
          BY <2>5, <2>7 DEF Batched
        <5> QED
          BY <2>7, <4>2, <5>1, <5>2, <5>3, <5>4
      <4> QED
        BY <4>1, <4>2
    <3> QED
      BY <3>1, <3>2 DEF Batched
  <2> QED
    BY <2>6, <2>14, <2>16
<1> HIDE DEF Fit
<1>4. Len(es) \in Fit
  BY <1>1, <1>2, <1>3, SetInduction
<1>5. Upto(Len(es)) = es /\ Len(es) = Len(ids)
  BY <1>1, Whole DEF IsBatch
<1> HIDE DEF Upto
<1> QED
  BY <1>1, <1>4, <1>5 DEF Fit

-----------------------------------------------------------------------------
(* The steps. *)
LEMMA EventFields ==
  ASSUME NEW op \in {"create", "delete", "dispatch", "admitted", "promoted"},
         NEW id \in Ids \cup {Batch}, NEW every \in BOOLEAN, NEW at \in Nat
  PROVE  /\ Event(op, id, every, at) \in EventSet
         /\ Event(op, id, every, at).op = op /\ Event(op, id, every, at).id = id
         /\ Event(op, id, every, at).every = every /\ Event(op, id, every, at).at = at
  BY DEF Event, EventSet

LEMMA AppendKeeps ==
  ASSUME IInv, NEW es \in Seq(EventSet), Appends(es), AllSound(log \o es, now),
         \A k \in DOMAIN es : es[k].op = "dispatch" => Follows(es, k)
  PROVE  IInv'
<1>1. log \in Seq(EventSet) /\ folded = State(log) /\ DispatchedIsAdmitted
  BY WholeSound DEF IInv
<1>2. folded' = State(log') /\ log' = log \o es
  BY <1>1, FoldedAppends
<1>3. UNCHANGED <<durable, now, torn>>
  BY DEF Appends
<1>4. durable \in 0 .. Len(log \o es)
  BY <1>1 DEF IInv
<1>5. DispatchedIsAdmitted'
  BY <1>1, <1>2, <1>3, StaysAdmitted
<1> QED
  BY <1>2, <1>3, <1>4, <1>5 DEF IInv

LEMMA OneAppended ==
  ASSUME IInv, NEW e \in EventSet, Appends(<<e>>), Allowed(folded, e, now), e.op # "dispatch"
  PROVE  IInv'
<1>1. log \in Seq(EventSet) /\ folded = State(log) /\ AllSound(log, now) /\ now \in Nat
  BY WholeSound DEF IInv
<1>2. AllSound(Append(log, e), now)
  BY <1>1, AppendSound
<1>3. /\ <<e>> \in Seq(EventSet) /\ log \o <<e>> = Append(log, e)
      /\ \A k \in DOMAIN <<e>> : <<e>>[k].op # "dispatch"
  BY <1>1
<1>4. PICK es \in Seq(EventSet) : es = <<e>>
  BY <1>3
<1> QED
  BY <1>2, <1>3, <1>4, AppendKeeps

LEMMA FreeIsFree ==
  ASSUME NEW seen \in SUBSET Ids, Cardinality(seen) < MaxCreates
  PROVE  Free(seen) \in Ids \ seen
<1>1. MaxCreates \in Nat
  BY ScheduleAssumption
<1>2. seen # Ids
  <2>1. 1 \in Int /\ MaxCreates \in Int
    BY <1>1
  <2>2. Cardinality(Ids) = IF 1 > MaxCreates THEN 0 ELSE MaxCreates - 1 + 1
    BY <2>1, FS_Interval, Zenon DEF Ids
  <2> QED
    BY <1>1, <2>2
<1>3. Ids \ seen # {} /\ Ids \ seen \subseteq Nat
  <2>1. Ids \ seen # {}
    BY <1>2
  <2>2. Ids \subseteq Nat
    BY DEF Ids
  <2> QED
    BY <2>1, <2>2
<1>4. PICK x \in Ids \ seen : \A y \in Ids \ seen : x <= y
  BY <1>3, LeastOf
<1>5. 1 .. x - 1 \subseteq seen
  BY <1>1, <1>4 DEF Ids
<1> QED
  BY <1>4, <1>5 DEF Free, Ids

LEMMA CreateStep ==
  ASSUME IInv, NEW every \in BOOLEAN, NEW at \in Nat, every => now < at, Create(every, at)
  PROVE  IInv'
<1> DEFINE id == Free(folded.seen)
           e == Event("create", id, every, at)
<1>1. IsState(folded) /\ folded.seen \in SUBSET Ids
  <2>1. IsState(folded)
    BY WholeSound DEF IInv
  <2> QED
    BY <2>1 DEF IsState
<1>2. id \in Ids \ folded.seen
  BY <1>1, FreeIsFree DEF Create
<1>3. Appends(<<e>>)
  BY DEF Create
<1> HIDE DEF id
<1>4. e \in EventSet /\ e.op = "create" /\ e.id = id /\ e.every = every /\ e.at = at
  BY <1>2, EventFields
<1> HIDE DEF e
<1>5. Allowed(folded, e, now)
  BY <1>2, <1>4 DEF Allowed
<1> QED
  BY <1>3, <1>4, <1>5, OneAppended

LEMMA DeleteStep ==
  ASSUME IInv, NEW id \in Ids, Delete(id)
  PROVE  IInv'
<1> DEFINE e == Event("delete", id, FALSE, Absent)
<1>1. e \in EventSet /\ e.op = "delete" /\ e.id = id
  <2>1. PICK no \in BOOLEAN : no = FALSE
    OBVIOUS
  <2>2. PICK nil \in Nat : nil = Absent
    BY DEF Absent
  <2>3. e = Event("delete", id, no, nil)
    BY <2>1, <2>2
  <2> HIDE DEF e
  <2> QED
    BY <2>3, EventFields
<1>2. Appends(<<e>>) /\ id \in DOMAIN folded.active
  BY DEF Delete
<1> HIDE DEF e
<1>3. Allowed(folded, e, now)
  BY <1>1, <1>2 DEF Allowed
<1> QED
  BY <1>1, <1>2, <1>3, OneAppended

LEMMA ClaimStep ==
  ASSUME IInv, Claim
  PROVE  IInv'
<1>1. log \in Seq(EventSet) /\ AllSound(log, now) /\ now \in Nat
  BY WholeSound DEF IInv
<1>2. PICK claimed \in {Pending} :
         Appends([n \in DOMAIN claimed |-> [claimed[n] EXCEPT !.op = "promoted"]])
  BY DEF Claim
<1> DEFINE es == [n \in DOMAIN claimed |-> [claimed[n] EXCEPT !.op = "promoted"]]
<1>3. claimed \in Seq(EventSet)
  <2> DEFINE S == {e \in ToSet(log) : e.op = "admitted" /\ Key(e) \in PendingKeys}
  <2>1. claimed = Among(log, S)
    BY DEF Pending
  <2>2. S \subseteq EventSet
    BY <1>1 DEF ToSet
  <2> HIDE DEF S
  <2>3. claimed \in Seq(S)
    BY <1>1, <2>1, AmongKeeps
  <2> QED
    BY <2>2, <2>3
<1>4. ASSUME NEW n \in DOMAIN claimed PROVE es[n] \in EventSet /\ es[n].op = "promoted"
  <2>1. claimed[n] \in EventSet
    BY <1>3
  <2> QED
    BY <2>1 DEF EventSet
<1>5. es \in Seq(EventSet) /\ DOMAIN es = DOMAIN claimed
  <2>1. DOMAIN claimed = 1 .. Len(claimed) /\ Len(claimed) \in Nat
    BY <1>3
  <2>2. es \in [1 .. Len(claimed) -> EventSet]
    BY <1>4, <2>1
  <2> QED
    BY <2>1, <2>2
<1> HIDE DEF es
<1>6. AllSound(log \o es, now)
  BY <1>1, <1>4, <1>5, PromotionsSound
<1>7. Appends(es)
  BY <1>2 DEF es
<1>8. \A k \in DOMAIN es : es[k].op # "dispatch"
  BY <1>4, <1>5
<1> QED
  BY <1>5, <1>6, <1>7, <1>8, AppendKeeps

(* The name of an input that is delivered was never given before. *)
LEMMA OneShotIsNew ==
  ASSUME IInv, NEW id \in DOMAIN folded.active, NEW at
  PROVE  ~IsPending(<<id, at>>)
<1>1. log \in Seq(EventSet) /\ folded = State(log) /\ Sound(log, now) /\ IsState(folded)
  BY WholeSound DEF IInv
<1>2. id # Batch
  <2>1. id \in Ids
    BY <1>1 DEF IsState
  <2> QED
    BY <2>1 DEF Ids, Batch
<1>3. ASSUME NEW n \in DOMAIN log, log[n].op = "admitted", log[n].id = id PROVE FALSE
  BY <1>1, <1>2, <1>3 DEF Sound, Says, Named
<1>4. ASSUME NEW e \in ToSet(log), e.op = "admitted", Key(e) = <<id, at>> PROVE FALSE
  <2>1. PICK n \in DOMAIN log : log[n] = e
    BY <1>4 DEF ToSet
  <2>2. e.id = id
    BY <1>4 DEF Key
  <2> QED
    BY <1>3, <1>4, <2>1, <2>2
<1> QED
  BY <1>4 DEF IsPending, PendingKeys, Keys

LEMMA BatchIsNew ==
  ASSUME IInv, NEW id \in DOMAIN folded.active, folded.active[id].every, folded.active[id].at <= now
  PROVE  ~IsPending(<<Batch, now>>)
<1>1. log \in Seq(EventSet) /\ folded = State(log) /\ Sound(log, now) /\ IsState(folded) /\ now \in Nat
  BY WholeSound DEF IInv
<1>2. folded.active[id].at \in Nat
  BY <1>1 DEF IsState
<1>3. ASSUME NEW n \in DOMAIN log, log[n].op = "admitted", log[n].id = Batch, log[n].at = now
      PROVE  FALSE
  <2>1. now < folded.active[id].at
    BY <1>1, <1>3 DEF Sound, Says, Named
  <2> QED
    BY <1>1, <1>2, <2>1
<1>4. ASSUME NEW e \in ToSet(log), e.op = "admitted", Key(e) = <<Batch, now>> PROVE FALSE
  <2>1. PICK n \in DOMAIN log : log[n] = e
    BY <1>4 DEF ToSet
  <2>2. e.id = Batch /\ e.at = now
    BY <1>4 DEF Key
  <2> QED
    BY <1>3, <1>4, <2>1, <2>2
<1> QED
  BY <1>4 DEF IsPending, PendingKeys, Keys

(* A delivery: dispatches, and the admission behind them. *)
LEMMA DeliveryStep ==
  ASSUME IInv, NEW ds \in Seq(EventSet), NEW e \in EventSet, e.op = "admitted",
         \A k \in DOMAIN ds : ds[k].op = "dispatch",
         Appends(ds \o <<e>>), AllSound(log \o ds, now), Allowed(State(log \o ds), e, now)
  PROVE  IInv'
<1>1. log \in Seq(EventSet) /\ now \in Nat
  BY WholeSound DEF IInv
<1>2. PICK es \in Seq(EventSet) : es = ds \o <<e>>
  BY Single
<1>3. PICK joined : joined = log \o ds
  OBVIOUS
<1>4. log \o es = Append(joined, e)
  BY <1>1, <1>2, <1>3
<1>5. AllSound(log \o es, now)
  BY <1>1, <1>3, <1>4, AppendSound
<1>6. ASSUME NEW k \in DOMAIN es, es[k].op = "dispatch" PROVE Follows(es, k)
  <2>1. PICK m \in Nat : m = Len(ds) + 1
    OBVIOUS
  <2>2. es[m] = e /\ Len(es) = m /\ \A j \in 1 .. m - 1 : es[j] = ds[j] /\ j \in DOMAIN ds
    BY <1>2, <2>1
  <2>3. k \in 1 .. m - 1
    BY <1>6, <2>1, <2>2
  <2>4. m \in k + 1 .. Len(es) /\ \A j \in k .. m - 1 : es[j].op = "dispatch"
    BY <2>1, <2>2, <2>3
  <2> QED
    BY <2>2, <2>4 DEF Follows
<1> QED
  BY <1>2, <1>5, <1>6, AppendKeeps

LEMMA OneShotStep ==
  ASSUME IInv, NEW id \in DOMAIN folded.active, ~folded.active[id].every,
         DeliversOneShot(id, folded.active[id].at)
  PROVE  IInv'
<1> DEFINE d == Event("dispatch", id, FALSE, Absent)
           e == Event("admitted", id, FALSE, folded.active[id].at)
<1>1. /\ log \in Seq(EventSet) /\ folded = State(log) /\ AllSound(log, now) /\ now \in Nat
      /\ IsState(folded)
  BY WholeSound DEF IInv
<1>2. id \in Ids /\ id # Batch /\ folded.active[id].at \in Nat /\ id \in folded.seen
  <2>1. id \in Ids /\ folded.active[id].at \in Nat /\ id \in folded.seen
    BY <1>1 DEF IsState
  <2> QED
    BY <2>1 DEF Ids, Batch
<1>3. Appends(<<d>> \o <<e>>)
  BY OneShotIsNew DEF DeliversOneShot, Delivers
<1>4. /\ d \in EventSet /\ d.op = "dispatch" /\ d.id = id /\ d.at = Absent
      /\ e \in EventSet /\ e.op = "admitted" /\ e.id = id
  <2>1. PICK no \in BOOLEAN : no = FALSE
    OBVIOUS
  <2>2. PICK nil \in Nat : nil = Absent
    BY DEF Absent
  <2>3. d = Event("dispatch", id, no, nil) /\ e = Event("admitted", id, no, folded.active[id].at)
    BY <2>1, <2>2
  <2> HIDE DEF d, e
  <2> QED
    BY <1>2, <2>2, <2>3, EventFields
<1> HIDE DEF d, e
<1>5. Allowed(folded, d, now)
  BY <1>4 DEF Allowed
<1>6. AllSound(Append(log, d), now) /\ State(Append(log, d)) = FoldEvent(folded, d)
  BY <1>1, <1>4, <1>5, AppendSound
<1>7. PICK s2 : s2 = FoldEvent(folded, d)
  OBVIOUS
<1>8. s2 = Folded(Forget(folded.active, id), folded.seen)
  <2>1. ~folded.corrupt
    BY <1>1, StateFields
  <2>2. Fits(folded, d)
    BY <1>4 DEF Fits
  <2> QED
    BY <1>4, <1>7, <2>1, <2>2 DEF FoldEvent, Advance
<1>9. s2.seen = folded.seen /\ DOMAIN s2.active = DOMAIN folded.active \ {id}
  BY <1>8, FoldedFields DEF Forget
<1>10. Allowed(s2, e, now)
  BY <1>2, <1>4, <1>9 DEF Allowed, Named
<1>11. PICK ds \in Seq(EventSet) : ds = <<d>>
  BY <1>1, <1>4, Single
<1>12. log \o ds = Append(log, d) /\ \A k \in DOMAIN ds : ds[k] = d
  BY <1>1, <1>4, <1>11, Single
<1>13. AllSound(log \o ds, now) /\ Allowed(State(log \o ds), e, now)
  BY <1>6, <1>7, <1>10, <1>12
<1>14. Appends(ds \o <<e>>) /\ \A k \in DOMAIN ds : ds[k].op = "dispatch"
  BY <1>3, <1>4, <1>11, <1>12
<1> QED
  BY <1>4, <1>13, <1>14, DeliveryStep

LEMMA BatchStep ==
  ASSUME IInv, Due(folded.active) # {}, \A id \in Due(folded.active) : folded.active[id].every,
         DeliversBatch(InOrder(folded.active, Due(folded.active)))
  PROVE  IInv'
<1> DEFINE due == Due(folded.active)
           ids == InOrder(folded.active, due)
           ds == [n \in DOMAIN ids |-> Event("dispatch", ids[n], FALSE, now)]
           e == Event("admitted", Batch, FALSE, now)
<1>1. /\ log \in Seq(EventSet) /\ folded = State(log) /\ AllSound(log, now) /\ now \in Nat \ {0}
      /\ IsState(folded)
  BY WholeSound DEF IInv
<1>2. /\ folded.active \in [DOMAIN folded.active -> [every : BOOLEAN, at : Nat]]
      /\ DOMAIN folded.active \subseteq Ids
  BY <1>1 DEF IsState
<1>3. /\ due \in SUBSET DOMAIN folded.active
      /\ \A i \in due : folded.active[i].every /\ folded.active[i].at <= now
      /\ \A i \in DOMAIN folded.active : i \notin due => now < folded.active[i].at
  BY <1>1, <1>2 DEF Due
<1>4. Appends(ds \o <<e>>)
  <2>1. ~IsPending(<<Batch, now>>)
    BY <1>3, BatchIsNew
  <2> QED
    BY <2>1 DEF DeliversBatch, Delivers
<1> HIDE DEF due
<1>5. /\ ids \in Seq(due)
      /\ \A m, n \in DOMAIN ids : ids[m] = ids[n] => m = n
      /\ \A i \in due : \E n \in DOMAIN ids : ids[n] = i
  BY <1>2, <1>3, Ranked
<1> HIDE DEF ids
<1>6. PICK no \in BOOLEAN : no = FALSE
  OBVIOUS
<1>7. /\ e = Event("admitted", Batch, no, now)
      /\ \A n \in DOMAIN ids : ds[n] = Event("dispatch", ids[n], no, now)
      /\ DOMAIN ds = DOMAIN ids /\ ds = [n \in DOMAIN ids |-> ds[n]]
  BY <1>6
<1> HIDE DEF ds, e
<1>8. e \in EventSet /\ e.op = "admitted" /\ e.id = Batch /\ e.at = now
  <2>1. e = Event("admitted", Batch, no, now) /\ Batch \in Ids \cup {Batch} /\ now \in Nat
    BY <1>1, <1>7
  <2> QED
    BY <2>1, EventFields
<1>9. ASSUME NEW n \in DOMAIN ids
       PROVE  ds[n] \in EventSet /\ ds[n].op = "dispatch" /\ ds[n].id = ids[n] /\ ds[n].at = now
  <2>1. ids[n] \in Ids /\ now \in Nat
    BY <1>1, <1>2, <1>3, <1>5
  <2>2. ds[n] = Event("dispatch", ids[n], no, now)
    BY <1>7
  <2> QED
    BY <2>1, <2>2, EventFields
<1>10. ds \in Seq(EventSet) /\ Len(ds) = Len(ids)
  <2>1. DOMAIN ids = 1 .. Len(ids) /\ Len(ids) \in Nat
    BY <1>5
  <2>2. ds \in [1 .. Len(ids) -> EventSet]
    BY <1>7, <1>9, <2>1
  <2> QED
    BY <2>1, <2>2
<1>11. IsBatch(folded, ids, ds, now)
  <2>1. ids \in Seq(DOMAIN folded.active) /\ \A n \in DOMAIN ids : ids[n] \in due
    BY <1>3, <1>5
  <2> QED
    BY <1>3, <1>5, <1>9, <1>10, <2>1 DEF IsBatch
<1>12. AllSound(log \o ds, now) /\ Batched(folded, State(log \o ds), ids, Len(ids), now)
  BY <1>1, <1>11, BatchSound
<1>13. Allowed(State(log \o ds), e, now)
  <2>1. PICK s2 : s2 = State(log \o ds)
    OBVIOUS
  <2>2. ASSUME NEW i \in DOMAIN s2.active PROVE now < s2.active[i].at
    <3>1. i \in DOMAIN folded.active
      BY <1>12, <2>1 DEF Batched
    <3>2. CASE i \in due
      <4>1. PICK n \in DOMAIN ids : ids[n] = i
        BY <1>5, <3>2
      <4>2. n \in 1 .. Len(ids)
        BY <1>5
      <4> QED
        BY <1>12, <2>1, <3>1, <4>1, <4>2 DEF Batched
    <3>3. CASE i \notin due
      BY <1>3, <1>12, <2>1, <3>1, <3>3 DEF Batched
    <3> QED
      BY <3>2, <3>3
  <2>3. Named(s2, e, now)
    BY <1>1, <1>8, <2>2 DEF Named
  <2> QED
    BY <1>8, <2>1, <2>3 DEF Allowed
<1> QED
  BY <1>4, <1>7, <1>12, <1>13, <1>8, <1>9, <1>10, DeliveryStep

LEMMA TickStep ==
  ASSUME IInv, Tick
  PROVE  IInv'
<1> DEFINE active == folded.active
           due == Due(active)
           oneShots == {id \in due : ~active[id].every}
<1>1. IsState(folded)
  BY WholeSound DEF IInv
<1>2. /\ active \in [DOMAIN active -> [every : BOOLEAN, at : Nat]] /\ DOMAIN active \subseteq Ids
      /\ oneShots \in SUBSET DOMAIN active
  BY <1>1 DEF IsState, Due
<1>3. CASE oneShots # {}
  <2>1. PICK S \in SUBSET DOMAIN active : S = oneShots
    BY <1>2
  <2>2. PICK ids : ids = InOrder(active, S)
    OBVIOUS
  <2>3. DeliversOneShot(Head(ids), active[Head(ids)].at)
    BY <1>3, <2>1, <2>2 DEF Tick
  <2>4. ids \in Seq(S) /\ \A i \in S : \E n \in DOMAIN ids : ids[n] = i
    BY <1>2, <2>2, Ranked
  <2>5. Head(ids) \in S
    <3>1. S # {}
      BY <1>3, <2>1
    <3> HIDE DEF oneShots
    <3> QED
      BY <2>4, <3>1
  <2>6. Head(ids) \in DOMAIN active /\ ~active[Head(ids)].every
    BY <2>1, <2>5
  <2> QED
    BY <2>3, <2>6, OneShotStep
<1>4. CASE oneShots = {}
  <2>1. due # {} /\ DeliversBatch(InOrder(active, due))
    BY <1>4 DEF Tick
  <2>2. \A id \in due : active[id].every
    BY <1>4
  <2> QED
    BY <2>1, <2>2, BatchStep
<1> QED
  BY <1>3, <1>4

(* A crash cuts the log: the dispatches that lose their admission are at its *)
(* end, with nothing behind them but dispatches.                             *)
LEMMA CrashStep ==
  ASSUME IInv, Crash
  PROVE  IInv'
<1>1. log \in Seq(EventSet) /\ durable \in 0 .. Len(log) /\ torn \subseteq 1 .. durable
  BY WholeSound DEF IInv
<1>2. PICK n \in durable .. Len(log) :
         /\ log' = SubSeq(log, 1, n) /\ folded' = FoldFrom(Nothing, log') /\ durable' = n
         /\ torn' = torn \cup Unadmitted(log')
  BY DEF Crash
<1>3. now' = now
  BY DEF Crash
<1>4. n \in 0 .. Len(log) /\ n \in Nat
  BY <1>1, <1>2
<1>5. /\ log' \in Seq(EventSet) /\ Len(log') = n /\ DOMAIN log' = 1 .. n
      /\ \A k \in 1 .. n : log'[k] = log[k] /\ k \in DOMAIN log
  BY <1>1, <1>2, <1>4
<1>6. AllSound(log', now')
  BY <1>2, <1>3, <1>4, PrefixSound DEF IInv
<1>7. torn' \subseteq 1 .. durable'
  <2>1. Unadmitted(log') \subseteq 1 .. n
    BY <1>5 DEF Unadmitted
  <2>2. torn \subseteq 1 .. n
    BY <1>1, <1>4
  <2> QED
    BY <1>2, <2>1, <2>2
<1>8. ASSUME NEW k \in DOMAIN log', log'[k].op = "dispatch", k \notin torn' PROVE Follows(log', k)
  <2>1. k \in DOMAIN log /\ log[k].op = "dispatch" /\ k \notin torn
    BY <1>2, <1>5, <1>8
  <2>2. Follows(log, k)
    BY <1>1, <2>1, FollowsMeans DEF IInv
  <2>3. PICK m \in k + 1 .. Len(log) :
           log[m].op = "admitted" /\ \A j \in k .. m - 1 : log[j].op = "dispatch"
    BY <2>2 DEF Follows
  <2>4. CASE m <= n
    <3>1. m \in k + 1 .. Len(log') /\ m \in 1 .. n /\ \A j \in k .. m - 1 : j \in 1 .. n
      BY <1>4, <1>5, <1>8, <2>4
    <3> QED
      BY <1>5, <2>3, <3>1 DEF Follows
  <2>5. CASE n < m
    <3>1. \A j \in k .. n : j \in k .. m - 1 /\ j \in 1 .. n
      BY <1>4, <1>5, <1>8, <2>5
    <3>2. \A j \in k .. Len(log') : log'[j].op = "dispatch"
      BY <1>5, <2>3, <3>1
    <3>3. k \in Unadmitted(log')
      BY <1>8, <3>2 DEF Unadmitted
    <3> QED
      BY <1>2, <1>8, <3>3
  <2> QED
    BY <1>4, <2>4, <2>5
<1>9. DispatchedIsAdmitted'
  BY <1>5, <1>8, FollowsMeansNext
<1> QED
  BY <1>2, <1>3, <1>4, <1>5, <1>6, <1>7, <1>9 DEF IInv, State

LEMMA RestStep ==
  ASSUME IInv, Flushed \/ Save \/ Passes
  PROVE  IInv'
<1>1. log \in Seq(EventSet) /\ AllSound(log, now) /\ now \in Nat \ {0}
  BY WholeSound DEF IInv
<1>2. log' = log /\ folded' = folded /\ torn' = torn
  BY DEF Flushed, Save, Passes
<1>3. durable' \in {durable, Len(log)} /\ now' \in {now, now + 1}
  BY DEF Flushed, Save, Passes
<1>4. durable' \in 0 .. Len(log') /\ torn' \subseteq 1 .. durable'
  BY <1>1, <1>2, <1>3 DEF IInv
<1>5. AllSound(log', now') /\ now' \in Nat \ {0}
  BY <1>1, <1>2, <1>3, LaterSound
<1>6. DispatchedIsAdmitted'
  BY <1>2 DEF IInv, DispatchedIsAdmitted, Dispatches, IsAdmitted, AdmissionOf
<1> QED
  BY <1>2, <1>4, <1>5, <1>6 DEF IInv

-----------------------------------------------------------------------------
(* The invariant of the log is one of the specification. *)
THEOREM ScheduleInvariance == Spec => []IInv
<1>1. Init => IInv
  <2> SUFFICES ASSUME Init PROVE IInv
    OBVIOUS
  <2>1. AllSound(log, now) /\ folded = State(log)
    BY EmptySound DEF Init
  <2>2. now \in Nat \ {0} /\ durable \in 0 .. Len(log) /\ torn \subseteq 1 .. durable
    BY DEF Init
  <2>3. DispatchedIsAdmitted
    BY DEF Init, DispatchedIsAdmitted, Dispatches
  <2> QED
    BY <2>1, <2>2, <2>3 DEF IInv
<1>2. IInv /\ [Next]_vars => IInv'
  <2> SUFFICES ASSUME IInv, [Next]_vars PROVE IInv'
    OBVIOUS
  <2>1. now \in Nat /\ Interval \in Nat /\ 0 < Interval /\ \A d \in Delays : d \in Nat
    BY ScheduleAssumption DEF IInv
  <2>2. CASE StepBoundary
    BY <2>2, ClaimStep, TickStep DEF StepBoundary
  <2>3. CASE CreateOneShot
    <3>1. PICK delay \in Delays : Create(FALSE, now + delay)
      BY <2>3 DEF CreateOneShot
    <3>2. PICK no \in BOOLEAN : no = FALSE
      OBVIOUS
    <3>3. PICK at \in Nat : at = now + delay
      BY <2>1
    <3>4. Create(no, at) /\ ~no
      BY <3>1, <3>2, <3>3
    <3> QED
      BY <3>4, CreateStep
  <2>4. CASE CreateEvery
    <3>1. PICK yes \in BOOLEAN : yes = TRUE
      OBVIOUS
    <3>2. PICK at \in Nat : at = now + Interval
      BY <2>1
    <3>3. now < at
      BY <2>1, <3>2
    <3>4. Create(TRUE, now + Interval)
      BY <2>4, Zenon DEF CreateEvery
    <3>5. Create(yes, at)
      BY <3>1, <3>2, <3>4, Zenon
    <3> QED
      BY <3>3, <3>5, CreateStep
  <2>5. CASE \E id \in 1 .. MaxCreates : Delete(id)
    BY <2>5, DeleteStep DEF Ids
  <2>6. CASE Flushed \/ Save \/ Passes
    BY <2>6, RestStep
  <2>7. CASE Crash
    BY <2>7, CrashStep
  <2>8. CASE UNCHANGED vars
    BY <2>8 DEF vars, IInv, DispatchedIsAdmitted, Dispatches, IsAdmitted, AdmissionOf
  <2> QED
    BY <2>2, <2>3, <2>4, <2>5, <2>6, <2>7, <2>8 DEF Next
<1> QED
  BY <1>1, <1>2, PTL DEF Spec

(* The log, the fold and the ghosts keep their types. *)
THEOREM ScheduleTypes == Spec => []TypeOK
<1> DEFINE Counts == ticking \in BOOLEAN /\ crashes \in 0 .. MaxCrashes
<1>0. MaxCrashes \in Nat
  BY ScheduleAssumption
<1>1. Init => Counts
  <2> SUFFICES ASSUME Init PROVE Counts
    OBVIOUS
  <2>1. ticking = FALSE /\ crashes = 0
    BY DEF Init
  <2>2. crashes \in 0 .. MaxCrashes
    BY <1>0, <2>1
  <2> QED
    BY <2>1, <2>2
<1>2. Counts /\ [Next]_vars => Counts'
  <2> SUFFICES ASSUME Counts, [Next]_vars PROVE Counts'
    OBVIOUS
  <2>1. CASE Tick
    <3>1. crashes' = crashes /\ (ticking' \in BOOLEAN)
      BY <2>1 DEF Tick, DeliversOneShot, DeliversBatch, Delivers, Appends
    <3> QED
      BY <3>1
  <2>2. CASE Crash
    <3>1. ticking' = FALSE /\ crashes < MaxCrashes /\ crashes' = crashes + 1
      BY <2>2 DEF Crash
    <3>2. crashes \in 0 .. MaxCrashes
      OBVIOUS
    <3>3. crashes' \in 0 .. MaxCrashes
      BY <1>0, <3>1, <3>2
    <3> QED
      BY <3>1, <3>3
  <2>3. CASE Claim \/ CreateOneShot \/ CreateEvery \/ \E id \in 1 .. MaxCreates : Delete(id)
    BY <2>3 DEF Claim, CreateOneShot, CreateEvery, Create, Delete, Appends
  <2>4. CASE Flushed \/ Save \/ Passes \/ UNCHANGED vars
    BY <2>4 DEF Flushed, Save, Passes, vars
  <2> QED
    BY <2>1, <2>2, <2>3, <2>4 DEF Next, StepBoundary
<1>3. IInv /\ Counts => TypeOK
  <2> SUFFICES ASSUME IInv, Counts PROVE TypeOK
    OBVIOUS
  <2>1. log \in Seq(EventSet) /\ folded = State(log) /\ Sound(log, now)
    BY WholeSound DEF IInv
  <2>2. IsState(folded)
    BY <2>1 DEF Sound
  <2> QED
    BY <2>1, <2>2 DEF IInv, TypeOK, IsState, EventSet, Ids
<1> HIDE DEF Counts
<1>4. Spec => []Counts
  BY <1>1, <1>2, PTL DEF Spec
<1> QED
  BY <1>3, <1>4, ScheduleInvariance, PTL

(* The strict fold accepts the log for ever (driver.ts:139). *)
THEOREM StreamsStayFoldable == Spec => []StreamStaysFoldable
<1>1. IInv => StreamStaysFoldable
  BY WholeSound, StateFields DEF IInv, StreamStaysFoldable
<1> QED
  BY <1>1, ScheduleInvariance, PTL

(* A dispatch that no crash has torn off has its admission behind it         *)
(* (assembly.ts:979).                                                        *)
THEOREM DispatchesAreAdmitted == Spec => []DispatchedIsAdmitted
<1>1. IInv => DispatchedIsAdmitted
  BY DEF IInv
<1> QED
  BY <1>1, ScheduleInvariance, PTL

(* A fixed-rate reminder is a whole number of intervals behind its creation, *)
(* ahead of every instant it was accepted at, and by no more than one        *)
(* interval of the last of them (index.ts:389-394).                          *)
THEOREM AnchorsAreKept == Spec => []KeepsItsAnchor
<1>1. IInv => KeepsItsAnchor
  <2> SUFFICES ASSUME IInv, NEW n \in DOMAIN log, log[n].op = "create", log[n].every,
                      log[n].id \in DOMAIN folded.active
               PROVE  FirstAhead(folded.active[log[n].id].at, log[n].at, AcceptedAt(log[n].id))
    BY DEF KeepsItsAnchor
  <2> DEFINE id == log[n].id
             next == folded.active[log[n].id].at
  <2>1. log \in Seq(EventSet) /\ folded = State(log) /\ Sound(log, now)
    BY WholeSound DEF IInv
  <2>2. PICK q \in Nat : folded.active[id].every /\ next = log[n].at + q * Interval
    BY <2>1 DEF Sound, Says, Anchored
  <2>3. log[n].at \in Nat /\ Interval \in Nat
    <3>1. log[n] \in EventSet
      BY <2>1
    <3> QED
      BY <3>1, ScheduleAssumption DEF EventSet
  <2>4. next - log[n].at = q * Interval
    BY <2>2, <2>3
  <2>5. (next - log[n].at) % Interval = 0
    BY <2>4, WholeIntervals
  <2>6. \A m \in Dispatches : log[m].id = id => log[m].at < next
    <3>1. \A m \in DOMAIN log : Says(folded, log[m], now)
      BY <2>1 DEF Sound
    <3> QED
      BY <2>2, <3>1 DEF Says, Passed, Dispatches
  <2>7. \A a \in AcceptedAt(id) : a < next
    BY <2>6 DEF AcceptedAt
  <2>8. next = log[n].at \/ \E a \in AcceptedAt(id) : next <= a + Interval
    <3>1. SkipsNone(log, folded, log[n])
      BY <2>1 DEF Sound
    <3>2. next = log[n].at \/ Accepts(log, id, next)
      BY <3>1 DEF SkipsNone
    <3> QED
      BY <3>2 DEF Accepts, AcceptedAt, Dispatches
  <2> QED
    BY <2>5, <2>7, <2>8 DEF FirstAhead
<1> QED
  BY <1>1, ScheduleInvariance, PTL

=============================================================================
