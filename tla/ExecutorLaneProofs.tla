-------------------------- MODULE ExecutorLaneProofs --------------------------
(***************************************************************************)
(* Proofs about ExecutorLane for any number of inputs, pumps and restarts: *)
(* an input is read once, a restart loses one at most, queued inputs keep  *)
(* their order, an answer is about the caller's own input, and a turn that *)
(* was reported to have succeeded is on disk.                              *)
(*                                                                         *)
(* The inbox is what the log says, so most of the invariant is about the   *)
(* log alone, and about each of its prefixes: a restart may go on from any. *)
(* The log grows in three ways: by an admission, by a row of cancellations  *)
(* and by inputs that are read.  What Among keeps of a sequence is proved   *)
(* by induction on its length, in the form that sets have (SetInduction).   *)
(*                                                                         *)
(* The second part goes on to SessionQueue, which drives the lane for the  *)
(* desktop: the lane is asked for one input at a time, the rows know what  *)
(* runs, and what callers were told is on disk.                            *)
(***************************************************************************)
EXTENDS SessionQueue, WellFoundedInduction, FiniteSetTheorems, TLAPS

(* Every non-empty set of numbers has a least member, and so induction. *)
LEMMA LeastOf ==
  ASSUME NEW T, T \subseteq Nat, T # {}
  PROVE  \E x \in T : \A y \in T : x <= y
<1>1. \E x \in T : \A y \in T : ~(<<y, x>> \in OpToRel(<, Nat))
  BY NatLessThanWellFounded, WFMin
<1>2. \A x, y \in Nat : ~(<<y, x>> \in OpToRel(<, Nat)) => x <= y
  BY DEF OpToRel
<1> QED
  BY <1>1, <1>2

LEMMA SetInduction ==
  ASSUME NEW S, 0 \in S, \A n \in Nat : n \in S => n + 1 \in S
  PROVE  \A n \in Nat : n \in S
<1> SUFFICES ASSUME Nat \ S # {} PROVE FALSE
  OBVIOUS
<1>1. PICK x \in Nat \ S : \A y \in Nat \ S : x <= y
  BY LeastOf
<1>2. x # 0 /\ x - 1 \in Nat
  BY <1>1
<1>3. x - 1 \in S
  BY <1>1, <1>2
<1> QED
  BY <1>1, <1>2, <1>3

-----------------------------------------------------------------------------
(* The function that Among goes over a sequence with exists. *)
KeptAt(seq, S, f, n) ==
    IF n = 0 THEN <<>>
    ELSE IF seq[n] \in S THEN Append(f[n - 1], seq[n]) ELSE f[n - 1]

Unfolds(seq, S, f, k) == f = [n \in 0..k |-> KeptAt(seq, S, f, n)]

LEMMA UnfoldsExists ==
  ASSUME NEW seq, NEW S
  PROVE  \A k \in Nat : \E f : Unfolds(seq, S, f, k)
<1> DEFINE Reached == {k \in Nat : \E f : Unfolds(seq, S, f, k)}
<1>1. 0 \in Reached
  <2> DEFINE g == [n \in 0..0 |-> <<>>]
  <2>1. Unfolds(seq, S, g, 0)
    BY DEF Unfolds, KeptAt
  <2> QED
    BY <2>1
<1>2. ASSUME NEW k \in Nat, k \in Reached PROVE k + 1 \in Reached
  <2>1. PICK f : Unfolds(seq, S, f, k)
    BY <1>2
  <2> DEFINE g == [n \in 0..k + 1 |-> IF n = k + 1 THEN KeptAt(seq, S, f, n) ELSE f[n]]
  <2>2. \A n \in 0..k : g[n] = f[n] /\ f[n] = KeptAt(seq, S, f, n)
    BY <2>1 DEF Unfolds
  <2>3. ASSUME NEW n \in 0..k + 1 PROVE g[n] = KeptAt(seq, S, g, n)
    <3>1. g[n] = KeptAt(seq, S, f, n)
      <4>1. CASE n = k + 1
        BY <4>1
      <4>2. CASE n \in 0..k
        BY <2>2, <4>2
      <4> QED
        BY <4>1, <4>2
    <3>2. n # 0 => n - 1 \in 0..k
      OBVIOUS
    <3>3. n # 0 => g[n - 1] = f[n - 1]
      BY <2>2, <3>2
    <3> QED
      BY <3>1, <3>3 DEF KeptAt
  <2>4. Unfolds(seq, S, g, k + 1)
    BY <2>3 DEF Unfolds
  <2> QED
    BY <2>4
<1> HIDE DEF Reached
<1>3. \A k \in Nat : k \in Reached
  BY <1>1, <1>2, SetInduction
<1> QED
  BY <1>3 DEF Reached

LEMMA AmongUnfolds ==
  ASSUME NEW T, NEW seq \in Seq(T), NEW S
  PROVE  \E f : Unfolds(seq, S, f, Len(seq)) /\ Among(seq, S) = f[Len(seq)]
<1> DEFINE kept == CHOOSE f : f = [n \in 0..Len(seq) |->
                       IF n = 0 THEN <<>>
                       ELSE IF seq[n] \in S THEN Append(f[n - 1], seq[n]) ELSE f[n - 1]]
<1>1. \E f : Unfolds(seq, S, f, Len(seq))
  <2>1. Len(seq) \in Nat
    OBVIOUS
  <2> HIDE DEF kept
  <2> QED
    BY <2>1, UnfoldsExists
<1>2. kept = [n \in 0..Len(seq) |->
                 IF n = 0 THEN <<>>
                 ELSE IF seq[n] \in S THEN Append(kept[n - 1], seq[n]) ELSE kept[n - 1]]
  <2>1. \E f : f = [n \in 0..Len(seq) |->
                       IF n = 0 THEN <<>>
                       ELSE IF seq[n] \in S THEN Append(f[n - 1], seq[n]) ELSE f[n - 1]]
    BY <1>1 DEF Unfolds, KeptAt
  <2> QED
    BY <2>1, Zenon
<1>3. Unfolds(seq, S, kept, Len(seq))
  BY <1>2 DEF Unfolds, KeptAt
<1>4. Among(seq, S) = kept[Len(seq)]
  BY DEF Among
<1> QED
  BY <1>3, <1>4

(* Where the entries of a kept sequence come from: from places of the whole  *)
(* one, in its order, and from every place that has a member of S.           *)
Places(seq, S, n, a, g) ==
    /\ g \in [1..Len(a) -> 1..n]
    /\ \A i \in 1..Len(a) : a[i] = seq[g[i]] /\ a[i] \in S
    /\ \A i, j \in 1..Len(a) : i < j => g[i] < g[j]
    /\ \A m \in 1..n : seq[m] \in S => \E i \in 1..Len(a) : g[i] = m

LEMMA AmongPlaces ==
  ASSUME NEW T, NEW seq \in Seq(T), NEW S
  PROVE  /\ Among(seq, S) \in Seq(T)
         /\ \E g : Places(seq, S, Len(seq), Among(seq, S), g)
<1>1. PICK f : Unfolds(seq, S, f, Len(seq)) /\ Among(seq, S) = f[Len(seq)]
  BY AmongUnfolds
<1>2. \A n \in 0..Len(seq) : f[n] = KeptAt(seq, S, f, n)
  BY <1>1 DEF Unfolds
<1> DEFINE Fit == {n \in Nat : n <= Len(seq) => f[n] \in Seq(T) /\ \E g : Places(seq, S, n, f[n], g)}
<1>3. 0 \in Fit
  <2>1. f[0] = <<>>
    BY <1>2 DEF KeptAt
  <2> DEFINE g == [i \in 1..0 |-> 0]
  <2>2. Places(seq, S, 0, f[0], g)
    BY <2>1 DEF Places
  <2>3. f[0] \in Seq(T)
    BY <2>1
  <2> HIDE DEF g
  <2> QED
    BY <2>2, <2>3
<1>4. ASSUME NEW n \in Nat, n \in Fit PROVE n + 1 \in Fit
  <2> SUFFICES ASSUME n + 1 <= Len(seq)
               PROVE  f[n + 1] \in Seq(T) /\ \E g : Places(seq, S, n + 1, f[n + 1], g)
    OBVIOUS
  <2>1. f[n] \in Seq(T)
    BY <1>4
  <2>2. PICK g : Places(seq, S, n, f[n], g)
    BY <1>4
  <2>3. f[n + 1] = IF seq[n + 1] \in S THEN Append(f[n], seq[n + 1]) ELSE f[n]
    BY <1>2 DEF KeptAt
  <2>4. seq[n + 1] \in T
    OBVIOUS
  <2>5. CASE seq[n + 1] \notin S
    <3>1. Places(seq, S, n + 1, f[n], g)
      BY <2>1, <2>2, <2>5 DEF Places
    <3> QED
      BY <2>1, <2>3, <2>5, <3>1
  <2>6. CASE seq[n + 1] \in S
    <3> DEFINE k == Len(f[n])
               a == Append(f[n], seq[n + 1])
               h == [i \in 1..k + 1 |-> IF i = k + 1 THEN n + 1 ELSE g[i]]
    <3>1. a \in Seq(T) /\ Len(a) = k + 1 /\ k \in Nat /\ a[k + 1] = seq[n + 1]
      BY <2>1, <2>4
    <3>2. \A i \in 1..k : a[i] = f[n][i] /\ i \in 1..k + 1
      BY <2>1
    <3>3. \A i \in 1..k : h[i] = g[i] /\ g[i] \in 1..n
      <4>1. \A i \in 1..k : g[i] \in 1..n
        BY <2>2 DEF Places
      <4>2. \A i \in 1..k : i \in 1..k + 1 /\ i # k + 1
        BY <3>1
      <4> HIDE DEF k
      <4> QED
        BY <4>1, <4>2
    <3>4. h[k + 1] = n + 1 /\ \A i \in 1..k + 1 : i \in 1..k \/ i = k + 1
      BY <3>1
    <3> HIDE DEF a, k
    <3>5. h \in [1..Len(a) -> 1..n + 1]
      <4>1. \A i \in 1..k + 1 : IF i = k + 1 THEN TRUE ELSE g[i] \in 1..n
        BY <3>3, <3>4
      <4>2. \A i \in 1..k + 1 : (IF i = k + 1 THEN n + 1 ELSE g[i]) \in 1..n + 1
        BY <4>1
      <4> QED
        BY <3>1, <4>2
    <3> HIDE DEF h
    <3>6. \A i \in 1..Len(a) : a[i] = seq[h[i]] /\ a[i] \in S
      <4> SUFFICES ASSUME NEW i \in 1..k + 1 PROVE a[i] = seq[h[i]] /\ a[i] \in S
        BY <3>1
      <4>1. CASE i = k + 1
        BY <2>6, <3>1, <3>4, <4>1
      <4>2. CASE i \in 1..k
        BY <2>2, <3>2, <3>3, <4>2 DEF Places, k
      <4> QED
        BY <3>4, <4>1, <4>2
    <3>7. \A i, j \in 1..Len(a) : i < j => h[i] < h[j]
      <4> SUFFICES ASSUME NEW i \in 1..k + 1, NEW j \in 1..k + 1, i < j PROVE h[i] < h[j]
        BY <3>1
      <4>1. i \in 1..k /\ h[i] = g[i] /\ g[i] \in 1..n
        BY <3>1, <3>3
      <4>2. CASE j = k + 1
        BY <3>4, <4>1, <4>2
      <4>3. CASE j \in 1..k
        BY <2>2, <3>3, <4>1, <4>3 DEF Places, k
      <4> QED
        BY <3>4, <4>2, <4>3
    <3>8. \A m \in 1..n + 1 : seq[m] \in S => \E i \in 1..Len(a) : h[i] = m
      <4> SUFFICES ASSUME NEW m \in 1..n + 1, seq[m] \in S PROVE \E i \in 1..k + 1 : h[i] = m
        BY <3>1
      <4>1. CASE m = n + 1
        BY <3>1, <3>4, <4>1
      <4>2. CASE m \in 1..n
        <5>1. PICK i \in 1..k : g[i] = m
          BY <2>2, <4>2 DEF Places, k
        <5> QED
          BY <3>2, <3>3, <5>1
      <4> QED
        BY <4>1, <4>2
    <3>9. Places(seq, S, n + 1, a, h)
      BY <3>5, <3>6, <3>7, <3>8 DEF Places
    <3> QED
      BY <2>3, <2>6, <3>1, <3>9 DEF a
  <2> QED
    BY <2>5, <2>6
<1> HIDE DEF Fit
<1>5. Len(seq) \in Fit
  BY <1>3, <1>4, SetInduction
<1> QED
  BY <1>1, <1>5 DEF Fit

-----------------------------------------------------------------------------
(* Queues of inputs, none of them twice. *)
Distinct(q) == \A a, b \in DOMAIN q : q[a] = q[b] => a = b

LEMMA AmongQueue ==
  ASSUME NEW T, NEW q \in Seq(T), NEW S
  PROVE  /\ Among(q, S) \in Seq(T)
         /\ \A i : i \in ToSet(Among(q, S)) <=> i \in ToSet(q) /\ i \in S
         /\ Distinct(q) => Distinct(Among(q, S))
<1> DEFINE a == Among(q, S)
<1>1. a \in Seq(T)
  BY AmongPlaces
<1>2. PICK g : Places(q, S, Len(q), a, g)
  BY AmongPlaces
<1> HIDE DEF a
<1>3. DOMAIN a = 1..Len(a) /\ DOMAIN q = 1..Len(q)
  BY <1>1
<1>4. \A n \in DOMAIN a : g[n] \in DOMAIN q /\ a[n] = q[g[n]] /\ a[n] \in S
  BY <1>2, <1>3 DEF Places
<1>5. \A i : i \in ToSet(a) => i \in ToSet(q) /\ i \in S
  BY <1>4 DEF ToSet
<1>6. ASSUME NEW i, i \in ToSet(q), i \in S PROVE i \in ToSet(a)
  <2>1. PICK m \in DOMAIN q : q[m] = i
    BY <1>6 DEF ToSet
  <2>2. PICK n \in DOMAIN a : g[n] = m
    BY <1>2, <1>3, <1>6, <2>1 DEF Places
  <2> QED
    BY <1>4, <2>1, <2>2 DEF ToSet
<1>7. ASSUME Distinct(q), NEW m \in DOMAIN a, NEW n \in DOMAIN a, a[m] = a[n] PROVE m = n
  <2>1. g[m] = g[n]
    BY <1>4, <1>7 DEF Distinct
  <2>2. m \in 1..Len(a) /\ n \in 1..Len(a) /\ Len(a) \in Nat
    BY <1>1, <1>3
  <2>3. g[m] \in 1..Len(q) /\ Len(q) \in Nat
    BY <1>3, <1>4
  <2>4. ~(m < n) /\ ~(n < m)
    BY <1>2, <2>1, <2>2, <2>3 DEF Places
  <2> QED
    BY <2>2, <2>4
<1> QED
  BY <1>1, <1>5, <1>6, <1>7 DEF a, Distinct

-----------------------------------------------------------------------------
(* What a log says, and when it is one that the lane can write. *)
Events == [kind : {"admitted", "promoted", "cancelled", "message"}, input : Input]
In(l, kind, i) == \E n \in DOMAIN l : l[n] = Event(kind, i)
Before(l, e, f) == \E n \in DOMAIN l : l[n] = f /\ \E m \in 1..n - 1 : l[m] = e
Waits(l, i) == In(l, "admitted", i) /\ ~In(l, "promoted", i) /\ ~In(l, "cancelled", i)

Earlier(l, n, kind) == \E m \in 1..n - 1 : l[m] = Event(kind, l[n].input)
Orderly(l, n) ==
    /\ l[n].kind = "admitted" => ~Earlier(l, n, "admitted")
    /\ l[n].kind \in {"promoted", "cancelled"} =>
          Earlier(l, n, "admitted") /\ ~Earlier(l, n, "promoted") /\ ~Earlier(l, n, "cancelled")
    /\ l[n].kind = "message" => n - 1 \in DOMAIN l /\ l[n - 1] = Event("promoted", l[n].input)

(* On the CLI's lane what was admitted before a queued input that was read   *)
(* had been taken or withdrawn by then.                                      *)
Overtakes(l, i, j) ==
    /\ Before(l, Event("admitted", i), Event("admitted", j))
    /\ In(l, "message", j)
    /\ ~Before(l, Event("promoted", i), Event("message", j))
    /\ ~Before(l, Event("cancelled", i), Event("message", j))

GoodLog(l) ==
    /\ l \in Seq(Events)
    /\ \A n \in DOMAIN l : Orderly(l, n)
    /\ host = "cli" => \A i, j \in Input \ Steer : ~Overtakes(l, i, j)

(* The inputs that were taken and not read. *)
LostOf(l) == {i \in Input : In(l, "promoted", i) /\ ~In(l, "message", i)}

LEMMA EventFields ==
  ASSUME NEW e \in Events
  PROVE  /\ e.input \in Input /\ e.kind \in {"admitted", "promoted", "cancelled", "message"}
         /\ \A kind, i : e = Event(kind, i) <=> e.kind = kind /\ e.input = i
<1>1. e = Event(e.kind, e.input)
  BY DEF Events, Event
<1>2. \A kind, i : Event(kind, i).kind = kind /\ Event(kind, i).input = i
  BY DEF Event
<1> QED
  BY <1>1, <1>2 DEF Events

(* The inbox: the inputs that wait, each once, in the order of the log. *)
LEMMA PendingFacts ==
  ASSUME GoodLog(log)
  PROVE  /\ Pending \in Seq(Input) /\ Distinct(Pending)
         /\ \A i : i \in ToSet(Pending) <=> i \in Input /\ Waits(log, i)
         /\ \A i \in Input : IsPending(i) <=> Waits(log, i)
         /\ \A a \in DOMAIN Pending, i \in Input :
               Waits(log, i) /\ Before(log, Event("admitted", i), Event("admitted", Pending[a]))
               => \E b \in DOMAIN Pending : b < a /\ Pending[b] = i
<1> DEFINE q == Pending
           S == Input \ Consumed
<1>1. \A n \in DOMAIN log : log[n] \in Events /\ n \in Nat
  BY DEF GoodLog
<1>2. /\ \A i : i \in Consumed <=> In(log, "promoted", i) \/ In(log, "cancelled", i)
  <2>1. ASSUME NEW n \in DOMAIN log, log[n].kind \in {"promoted", "cancelled"}
        PROVE  In(log, "promoted", log[n].input) \/ In(log, "cancelled", log[n].input)
    BY <1>1, <2>1, EventFields DEF In
  <2>2. ASSUME NEW i, In(log, "promoted", i) \/ In(log, "cancelled", i)
        PROVE  i \in Consumed
    BY <1>1, <2>2, EventFields DEF In, Consumed
  <2> QED
    BY <2>1, <2>2 DEF Consumed
<1>3. /\ Admissions \in Seq(Input \cup {NoInput}) /\ DOMAIN Admissions = DOMAIN log
      /\ Len(Admissions) = Len(log)
  <2>1. DOMAIN log = 1..Len(log) /\ Len(log) \in Nat
    BY DEF GoodLog
  <2>2. \A n \in DOMAIN log : log[n].input \in Input
    BY <1>1, EventFields
  <2>3. Admissions \in [1..Len(log) -> Input \cup {NoInput}]
    BY <2>1, <2>2 DEF Admissions
  <2> QED
    BY <2>1, <2>3
<1>4. \A n \in DOMAIN log, i \in Input : Admissions[n] = i <=> log[n] = Event("admitted", i)
  BY <1>1, EventFields, LaneAssumption DEF Admissions
<1>5. /\ q \in Seq(Input \cup {NoInput})
      /\ \A i : i \in ToSet(q) <=> i \in ToSet(Admissions) /\ i \in S
  BY <1>3, AmongQueue DEF Pending
<1>6. PICK g : Places(Admissions, S, Len(log), q, g)
  BY <1>3, AmongPlaces DEF Pending
<1> HIDE DEF q
<1>7. \A n \in DOMAIN q : /\ q[n] \in S /\ g[n] \in DOMAIN log /\ g[n] \in Nat
                          /\ log[g[n]] = Event("admitted", q[n])
  <2>1. DOMAIN q = 1..Len(q) /\ DOMAIN log = 1..Len(log)
    BY <1>5 DEF GoodLog
  <2>2. \A n \in DOMAIN q : q[n] \in S /\ g[n] \in DOMAIN log /\ q[n] = Admissions[g[n]]
    BY <1>6, <2>1 DEF Places
  <2> QED
    BY <1>1, <1>4, <2>2
<1>8. q \in Seq(Input)
  <2>1. q \in [1..Len(q) -> Input] /\ Len(q) \in Nat
    BY <1>5, <1>7
  <2> QED
    BY <2>1
<1>9. \A i \in Input : i \in ToSet(Admissions) <=> In(log, "admitted", i)
  BY <1>3, <1>4 DEF ToSet, In
<1>10. \A i : i \in ToSet(q) <=> i \in Input /\ Waits(log, i)
  BY <1>2, <1>5, <1>9 DEF Waits
<1>11. \A i \in Input : IsPending(i) <=> Waits(log, i)
  BY <1>2 DEF IsPending, Has, In, Waits
(* an input is admitted at one place *)
<1>12. ASSUME NEW m \in DOMAIN log, NEW n \in DOMAIN log, NEW i,
              log[m] = Event("admitted", i), log[n] = Event("admitted", i)
       PROVE  m = n
  <2>1. log[m].kind = "admitted" /\ log[m].input = i /\ log[n].kind = "admitted" /\ log[n].input = i
    BY <1>12 DEF Event
  <2>2. ~(m \in 1..n - 1) /\ ~(n \in 1..m - 1)
    BY <1>12, <2>1 DEF GoodLog, Orderly, Earlier
  <2>3. m \in Nat /\ n \in Nat /\ m >= 1 /\ n >= 1
    BY DEF GoodLog
  <2> QED
    BY <2>2, <2>3
<1>13. Distinct(q)
  <2> SUFFICES ASSUME NEW a \in DOMAIN q, NEW b \in DOMAIN q, q[a] = q[b] PROVE a = b
    BY DEF Distinct
  <2>1. g[a] = g[b]
    BY <1>7, <1>12
  <2>2. a \in 1..Len(q) /\ b \in 1..Len(q) /\ g[a] \in Nat /\ Len(q) \in Nat
    BY <1>7, <1>8
  <2>3. ~(a < b) /\ ~(b < a)
    BY <1>6, <2>1, <2>2 DEF Places
  <2> QED
    BY <2>2, <2>3
<1>14. ASSUME NEW a \in DOMAIN q, NEW i \in Input, Waits(log, i),
              Before(log, Event("admitted", i), Event("admitted", q[a]))
       PROVE  \E b \in DOMAIN q : b < a /\ q[b] = i
  <2>1. PICK n \in DOMAIN log : /\ log[n] = Event("admitted", q[a])
                                /\ \E m \in 1..n - 1 : log[m] = Event("admitted", i)
    BY <1>14 DEF Before
  <2>2. PICK m \in 1..n - 1 : log[m] = Event("admitted", i)
    BY <2>1
  <2>3. n = g[a]
    BY <1>7, <1>12, <2>1
  <2>4. PICK b \in DOMAIN q : q[b] = i
    BY <1>10, <1>14 DEF ToSet
  <2>5. m \in DOMAIN log /\ m < n
    BY <1>1, <2>2 DEF GoodLog
  <2>6. g[b] = m
    BY <1>7, <1>12, <2>2, <2>4, <2>5
  <2>7. a \in 1..Len(q) /\ b \in 1..Len(q) /\ Len(q) \in Nat /\ g[a] \in Nat /\ g[b] \in Nat
    BY <1>7, <1>8
  <2>8. ~(a < b) /\ a # b
    BY <1>6, <2>3, <2>5, <2>6, <2>7 DEF Places
  <2> QED
    BY <2>4, <2>7, <2>8
<1> QED
  BY <1>8, <1>10, <1>11, <1>13, <1>14 DEF q

(* What is at one place of a good log only. *)
LEMMA OnePlace ==
  ASSUME NEW l \in Seq(Events), \A n \in DOMAIN l : Orderly(l, n), NEW i
  PROVE  /\ \A m, n \in DOMAIN l :
               l[m] = Event("admitted", i) /\ l[n] = Event("admitted", i) => m = n
         /\ \A m, n \in DOMAIN l :
               l[m] = Event("promoted", i) /\ l[n] = Event("promoted", i) => m = n
         /\ \A n \in DOMAIN l :
               l[n] = Event("message", i) => n - 1 \in DOMAIN l /\ l[n - 1] = Event("promoted", i)
         /\ \A m, n \in DOMAIN l :
               l[m] = Event("message", i) /\ l[n] = Event("message", i) => m = n
         /\ \A n \in DOMAIN l :
               l[n] \in {Event("promoted", i), Event("cancelled", i), Event("message", i)}
               => \E m \in 1..n - 1 : l[m] = Event("admitted", i)
<1>1. \A kind : Event(kind, i).kind = kind /\ Event(kind, i).input = i
  BY DEF Event
<1>2. \A n \in DOMAIN l : n \in Nat /\ n >= 1
  OBVIOUS
<1>3. ASSUME NEW kind \in {"admitted", "promoted"}, NEW m \in DOMAIN l, NEW n \in DOMAIN l,
             l[m] = Event(kind, i), l[n] = Event(kind, i)
      PROVE  m = n
  <2>1. ~(m \in 1..n - 1) /\ ~(n \in 1..m - 1)
    BY <1>1, <1>3 DEF Orderly, Earlier
  <2> QED
    BY <1>2, <2>1
<1>4. \A n \in DOMAIN l :
         l[n] = Event("message", i) => n - 1 \in DOMAIN l /\ l[n - 1] = Event("promoted", i)
  BY <1>1 DEF Orderly
<1>5. ASSUME NEW m \in DOMAIN l, NEW n \in DOMAIN l,
             l[m] = Event("message", i), l[n] = Event("message", i)
      PROVE  m = n
  <2>1. m - 1 = n - 1
    BY <1>3, <1>4, <1>5
  <2> QED
    BY <1>2, <2>1
<1>6. ASSUME NEW n \in DOMAIN l, l[n] \in {Event("promoted", i), Event("cancelled", i)}
      PROVE  \E m \in 1..n - 1 : l[m] = Event("admitted", i)
  BY <1>1, <1>6 DEF Orderly, Earlier
<1>7. ASSUME NEW n \in DOMAIN l, l[n] = Event("message", i)
      PROVE  \E m \in 1..n - 1 : l[m] = Event("admitted", i)
  <2>1. \E m \in 1..n - 1 - 1 : l[m] = Event("admitted", i)
    BY <1>4, <1>6, <1>7
  <2> QED
    BY <1>2, <2>1
<1> QED
  BY <1>3, <1>4, <1>5, <1>6, <1>7

(* A log and one that goes on from it. *)
Extends(l, new) ==
    /\ DOMAIN l \subseteq DOMAIN new
    /\ \A n \in DOMAIN l : new[n] = l[n]

LEMMA ExtendsKeeps ==
  ASSUME NEW l, NEW new, Extends(l, new)
  PROVE  /\ \A kind, i : In(l, kind, i) => In(new, kind, i)
         /\ l \in Seq(Events) => \A e, f : Before(l, e, f) => Before(new, e, f)
<1>1. \A kind, i : In(l, kind, i) => In(new, kind, i)
  BY DEF Extends, In
<1>2. ASSUME l \in Seq(Events), NEW e, NEW f, Before(l, e, f) PROVE Before(new, e, f)
  <2>1. PICK n \in DOMAIN l : l[n] = f /\ \E m \in 1..n - 1 : l[m] = e
    BY <1>2 DEF Before
  <2>2. PICK m \in 1..n - 1 : l[m] = e
    BY <2>1
  <2>3. m \in DOMAIN l
    BY <1>2
  <2> QED
    BY <2>1, <2>2, <2>3 DEF Extends, Before
<1> QED
  BY <1>1, <1>2

LEMMA Joined ==
  ASSUME NEW l \in Seq(Events), NEW m \in Seq(Events)
  PROVE  /\ l \o m \in Seq(Events) /\ Extends(l, l \o m)
         /\ Len(l) \in Nat /\ DOMAIN l = 1..Len(l)
         /\ \A k \in DOMAIN m : /\ k \in Nat /\ k >= 1 /\ Len(l) + k \in DOMAIN (l \o m)
                                /\ (l \o m)[Len(l) + k] = m[k]
         /\ \A n \in DOMAIN (l \o m) :
               n \in DOMAIN l \/ \E k \in DOMAIN m : n = Len(l) + k
<1>1. l \o m \in Seq(Events) /\ Len(l \o m) = Len(l) + Len(m)
  OBVIOUS
<1>2. Extends(l, l \o m)
  BY DEF Extends
<1>3. \A k \in DOMAIN m : /\ k \in Nat /\ k >= 1 /\ Len(l) + k \in DOMAIN (l \o m)
                          /\ (l \o m)[Len(l) + k] = m[k]
  OBVIOUS
<1>4. ASSUME NEW n \in DOMAIN (l \o m), n \notin DOMAIN l
      PROVE  \E k \in DOMAIN m : n = Len(l) + k
  <2>1. n \in Len(l) + 1..Len(l) + Len(m) /\ Len(l) \in Nat /\ Len(m) \in Nat
    BY <1>1, <1>4
  <2>2. n - Len(l) \in DOMAIN m /\ n = Len(l) + (n - Len(l))
    BY <2>1
  <2> QED
    BY <2>2
<1> QED
  BY <1>1, <1>2, <1>3, <1>4

(* A good log grows into a good one when what is added to it is in order and *)
(* no queued input is read before one that waits longer.                     *)
LEMMA GoodGrows ==
  ASSUME NEW l, GoodLog(l), NEW m \in Seq(Events),
         \A k \in DOMAIN m : Orderly(l \o m, Len(l) + k),
         host = "cli" => \A i, j \in Input \ Steer :
             In(m, "message", j) /\ Before(l \o m, Event("admitted", i), Event("admitted", j))
             => In(l, "promoted", i) \/ In(l, "cancelled", i)
  PROVE  GoodLog(l \o m)
<1> DEFINE new == l \o m
<1>1. /\ l \in Seq(Events) /\ new \in Seq(Events) /\ Extends(l, new)
      /\ Len(l) \in Nat /\ DOMAIN l = 1..Len(l)
      /\ \A k \in DOMAIN m : /\ k \in Nat /\ k >= 1 /\ Len(l) + k \in DOMAIN new
                             /\ new[Len(l) + k] = m[k]
      /\ \A n \in DOMAIN new : n \in DOMAIN l \/ \E k \in DOMAIN m : n = Len(l) + k
  BY Joined DEF GoodLog
<1>2. \A k \in DOMAIN m : Orderly(new, Len(l) + k)
  OBVIOUS
<1>3. host = "cli" => \A i, j \in Input \ Steer :
         In(m, "message", j) /\ Before(new, Event("admitted", i), Event("admitted", j))
         => In(l, "promoted", i) \/ In(l, "cancelled", i)
  OBVIOUS
<1> HIDE DEF new
<1>4. ASSUME NEW n \in DOMAIN new PROVE Orderly(new, n)
  <2>1. CASE n \in DOMAIN l
    <3>1. Orderly(l, n)
      BY <2>1 DEF GoodLog
    <3>2. new[n] = l[n] /\ \A k \in 1..n - 1 : k \in DOMAIN l /\ new[k] = l[k]
      BY <1>1, <2>1 DEF Extends
    <3>3. \A kind : Earlier(new, n, kind) <=> Earlier(l, n, kind)
      BY <3>2 DEF Earlier
    <3>4. l[n].kind = "message" => n - 1 \in DOMAIN new /\ new[n - 1] = l[n - 1]
      BY <1>1, <3>1 DEF Orderly, Extends
    <3> QED
      BY <3>1, <3>2, <3>3, <3>4 DEF Orderly
  <2> QED
    BY <1>1, <1>2, <2>1
<1>5. ASSUME host = "cli", NEW i \in Input \ Steer, NEW j \in Input \ Steer, Overtakes(new, i, j)
      PROVE  FALSE
  <2>1. Before(new, Event("admitted", i), Event("admitted", j)) /\ In(new, "message", j)
    BY <1>5 DEF Overtakes
  <2>2. PICK p \in DOMAIN new : new[p] = Event("message", j)
    BY <2>1 DEF In
  <2>3. CASE p \in DOMAIN l
    <3>1. l[p] = Event("message", j)
      BY <1>1, <2>2, <2>3 DEF Extends
    <3>2. PICK a \in 1..p - 1 : l[a] = Event("admitted", j)
      BY <1>1, <2>3, <3>1, OnePlace DEF GoodLog
    <3>3. a \in DOMAIN l /\ new[a] = Event("admitted", j) /\ a \in DOMAIN new
      BY <1>1, <2>3, <3>2 DEF Extends
    <3>4. PICK n \in DOMAIN new : /\ new[n] = Event("admitted", j)
                                  /\ \E b \in 1..n - 1 : new[b] = Event("admitted", i)
      BY <2>1 DEF Before
    <3>5. n = a
      BY <1>1, <1>4, <3>3, <3>4, OnePlace
    <3>6. \A b \in 1..n - 1 : new[b] = l[b]
      <4>1. a \in Nat /\ a <= Len(l)
        BY <1>1, <3>3
      <4>2. \A b \in 1..n - 1 : b \in DOMAIN l
        BY <1>1, <3>5, <4>1
      <4> QED
        BY <1>1, <4>2 DEF Extends
    <3>7. Before(l, Event("admitted", i), Event("admitted", j))
      BY <3>2, <3>3, <3>4, <3>5, <3>6 DEF Before
    <3>8. In(l, "message", j)
      BY <2>3, <3>1 DEF In
    <3>9. \/ Before(l, Event("promoted", i), Event("message", j))
          \/ Before(l, Event("cancelled", i), Event("message", j))
      BY <1>5, <3>7, <3>8 DEF GoodLog, Overtakes
    <3> QED
      BY <1>1, <1>5, <3>9, ExtendsKeeps DEF Overtakes
  <2>4. CASE p \notin DOMAIN l
    <3>1. PICK k \in DOMAIN m : p = Len(l) + k
      BY <1>1, <2>4
    <3>2. In(m, "message", j)
      BY <1>1, <2>2, <3>1 DEF In
    <3>3. In(l, "promoted", i) \/ In(l, "cancelled", i)
      BY <1>3, <1>5, <2>1, <3>2
    <3>4. PICK b \in DOMAIN l : l[b] \in {Event("promoted", i), Event("cancelled", i)}
      BY <3>3 DEF In
    <3>5. b \in 1..p - 1 /\ new[b] = l[b]
      BY <1>1, <3>1, <3>4 DEF Extends
    <3> QED
      BY <1>5, <2>2, <3>4, <3>5 DEF Overtakes, Before
  <2> QED
    BY <2>3, <2>4
<1> QED
  BY <1>1, <1>4, <1>5 DEF GoodLog, new

(* The ways in which the log grows. *)
LEMMA AdmissionGrows ==
  ASSUME NEW l, GoodLog(l), NEW i \in Input, ~In(l, "admitted", i)
  PROVE  /\ GoodLog(Append(l, Event("admitted", i)))
         /\ Extends(l, Append(l, Event("admitted", i)))
         /\ \A j \in Input : Waits(l, j) => Waits(Append(l, Event("admitted", i)), j)
         /\ LostOf(Append(l, Event("admitted", i))) = LostOf(l)
<1> DEFINE m == <<Event("admitted", i)>>
           new == l \o m
<1>1. m \in Seq(Events) /\ DOMAIN m = {1} /\ m[1] = Event("admitted", i)
  BY DEF Events, Event
<1>2. l \in Seq(Events) /\ Append(l, Event("admitted", i)) = new
  BY <1>1 DEF GoodLog
<1> HIDE DEF m
<1>3. /\ new \in Seq(Events) /\ Extends(l, new) /\ Len(l) \in Nat /\ DOMAIN l = 1..Len(l)
      /\ Len(l) + 1 \in DOMAIN new /\ new[Len(l) + 1] = Event("admitted", i)
      /\ \A n \in DOMAIN new : n \in DOMAIN l \/ n = Len(l) + 1
  BY <1>1, <1>2, Joined
<1>4. \A kind : Event(kind, i).kind = kind /\ Event(kind, i).input = i
  BY DEF Event
<1>5. Orderly(new, Len(l) + 1)
  <2> HIDE DEF new
  <2>1. \A k \in 1..Len(l) + 1 - 1 : new[k] = l[k] /\ k \in DOMAIN l
    BY <1>3 DEF Extends
  <2> QED
    BY <1>3, <1>4, <2>1 DEF Orderly, Earlier, In
<1>6. ~\E j : In(m, "message", j)
  BY <1>1 DEF In, Event
<1>7. GoodLog(new)
  BY <1>1, <1>5, <1>6, GoodGrows
<1> HIDE DEF new
<1>8. \A kind, j : In(new, kind, j) => In(l, kind, j) \/ kind = "admitted"
  BY <1>3 DEF In, Extends, Event
<1>9. \A kind, j : In(l, kind, j) => In(new, kind, j)
  BY <1>3, ExtendsKeeps
<1> QED
  BY <1>2, <1>3, <1>7, <1>8, <1>9 DEF Waits, LostOf

(* Of a log that grew by what happens to the inputs of a set. *)
Handles(l, new, inputs) ==
    /\ GoodLog(new) /\ Extends(l, new)
    /\ \A i \in Input : Waits(l, i) /\ i \notin inputs => Waits(new, i)
    /\ \A i, j : Before(new, Event("admitted", i), Event("admitted", j))
               => Before(l, Event("admitted", i), Event("admitted", j))
    /\ LostOf(new) \subseteq LostOf(l)

LEMMA NoNewAdmissions ==
  ASSUME NEW l \in Seq(Events), NEW m \in Seq(Events),
         \A i : \A k \in DOMAIN m : m[k] # Event("admitted", i),
         NEW i, NEW j, Before(l \o m, Event("admitted", i), Event("admitted", j))
  PROVE  Before(l, Event("admitted", i), Event("admitted", j))
<1> DEFINE new == l \o m
<1>1. /\ new \in Seq(Events) /\ Extends(l, new) /\ Len(l) \in Nat /\ DOMAIN l = 1..Len(l)
      /\ \A k \in DOMAIN m : new[Len(l) + k] = m[k]
      /\ \A n \in DOMAIN new : n \in DOMAIN l \/ \E k \in DOMAIN m : n = Len(l) + k
  BY Joined
<1>2. PICK n \in DOMAIN new : /\ new[n] = Event("admitted", j)
                              /\ \E b \in 1..n - 1 : new[b] = Event("admitted", i)
  BY DEF Before
<1> HIDE DEF new
<1>3. n \in DOMAIN l
  BY <1>1, <1>2
<1>4. n \in Nat /\ n <= Len(l)
  BY <1>1, <1>3
<1>5. \A b \in 1..n - 1 : b \in DOMAIN l
  BY <1>1, <1>4
<1>6. \A b \in 1..n - 1 : new[b] = l[b]
  BY <1>1, <1>5 DEF Extends
<1> QED
  BY <1>1, <1>2, <1>3, <1>6 DEF Before, Extends

LEMMA CancellationsGrow ==
  ASSUME NEW l, GoodLog(l), NEW q \in Seq(Input), Distinct(q), \A i \in ToSet(q) : Waits(l, i)
  PROVE  /\ Handles(l, l \o Mark("cancelled", q), ToSet(q))
         /\ \A i \in ToSet(q) : In(l \o Mark("cancelled", q), "cancelled", i)
<1> DEFINE m == Mark("cancelled", q)
           new == l \o m
<1>1. /\ m \in Seq(Events) /\ DOMAIN m = DOMAIN q
      /\ \A k \in DOMAIN q : m[k] = Event("cancelled", q[k]) /\ q[k] \in Input /\ k \in Nat /\ k >= 1
  <2>1. DOMAIN q = 1..Len(q) /\ Len(q) \in Nat
    OBVIOUS
  <2>2. m \in [1..Len(q) -> Events]
    BY <2>1 DEF Mark, Events, Event
  <2>3. \A k \in DOMAIN q : m[k] = Event("cancelled", q[k])
    BY DEF Mark
  <2> HIDE DEF m
  <2> QED
    BY <2>1, <2>2, <2>3
<1>2. l \in Seq(Events)
  BY DEF GoodLog
<1> HIDE DEF m
<1>3. /\ new \in Seq(Events) /\ Extends(l, new) /\ Len(l) \in Nat /\ DOMAIN l = 1..Len(l)
      /\ \A k \in DOMAIN q : Len(l) + k \in DOMAIN new /\ new[Len(l) + k] = Event("cancelled", q[k])
      /\ \A n \in DOMAIN new : n \in DOMAIN l \/ \E k \in DOMAIN q : n = Len(l) + k
  <2>1. /\ new \in Seq(Events) /\ Extends(l, new) /\ Len(l) \in Nat /\ DOMAIN l = 1..Len(l)
        /\ \A k \in DOMAIN m : Len(l) + k \in DOMAIN new /\ new[Len(l) + k] = m[k]
        /\ \A n \in DOMAIN new : n \in DOMAIN l \/ \E k \in DOMAIN m : n = Len(l) + k
    BY <1>1, <1>2, Joined
  <2> HIDE DEF new
  <2> QED
    BY <1>1, <2>1
<1>4. \A kind, i : Event(kind, i).kind = kind /\ Event(kind, i).input = i
  BY DEF Event
<1>5. \A kind, i : kind # "cancelled" /\ In(new, kind, i) => In(l, kind, i)
  <2> HIDE DEF new
  <2> QED
    BY <1>3, <1>4 DEF In, Extends
<1>6. \A i : In(new, "cancelled", i) => In(l, "cancelled", i) \/ i \in ToSet(q)
  <2> HIDE DEF new
  <2> QED
    BY <1>3, <1>4 DEF In, Extends, ToSet
<1>7. \A kind, i : In(l, kind, i) => In(new, kind, i)
  BY <1>3, ExtendsKeeps
<1>8. ASSUME NEW k \in DOMAIN q PROVE Orderly(new, Len(l) + k)
  <2> HIDE DEF new
  <2>1. new[Len(l) + k] = Event("cancelled", q[k]) /\ Waits(l, q[k])
    BY <1>3 DEF ToSet
  <2>2. ASSUME NEW b \in 1..Len(l) + k - 1, b \notin DOMAIN l
        PROVE  new[b].kind = "cancelled" /\ new[b].input # q[k]
    <3>1. b \in DOMAIN new
      BY <1>1, <1>3
    <3>2. PICK c \in DOMAIN q : b = Len(l) + c
      BY <1>3, <2>2, <3>1
    <3>3. c # k
      BY <1>1, <1>3, <3>2
    <3> QED
      BY <1>3, <1>4, <3>2, <3>3 DEF Distinct
  <2>3. PICK a \in DOMAIN l : l[a] = Event("admitted", q[k])
    BY <2>1 DEF Waits, In
  <2>4. a \in 1..Len(l) + k - 1 /\ new[a] = l[a]
    BY <1>1, <1>3, <2>3 DEF Extends
  <2>5. \A b \in 1..Len(l) + k - 1 :
           new[b] # Event("promoted", q[k]) /\ new[b] # Event("cancelled", q[k])
    <3> SUFFICES ASSUME NEW b \in 1..Len(l) + k - 1
                 PROVE  new[b] # Event("promoted", q[k]) /\ new[b] # Event("cancelled", q[k])
      OBVIOUS
    <3>1. CASE b \in DOMAIN l
      BY <1>3, <2>1, <3>1 DEF Waits, In, Extends
    <3>2. CASE b \notin DOMAIN l
      <4>1. new[b].kind = "cancelled" /\ new[b].input # q[k]
        BY <2>2, <3>2
      <4> QED
        BY <1>4, <4>1
    <3> QED
      BY <3>1, <3>2
  <2> QED
    BY <1>4, <2>1, <2>3, <2>4, <2>5 DEF Orderly, Earlier
<1>9. \A i : ~In(m, "message", i)
  BY <1>1, <1>4 DEF In
<1>10. GoodLog(new)
  BY <1>1, <1>8, <1>9, GoodGrows
<1>11. \A i, j : Before(new, Event("admitted", i), Event("admitted", j))
               => Before(l, Event("admitted", i), Event("admitted", j))
  <2>1. \A i : \A k \in DOMAIN m : m[k] # Event("admitted", i)
    BY <1>1, <1>4
  <2> QED
    BY <1>1, <1>2, <2>1, NoNewAdmissions
<1>12. LostOf(new) \subseteq LostOf(l)
  BY <1>5, <1>7 DEF LostOf
<1>13. \A i \in Input : Waits(l, i) /\ i \notin ToSet(q) => Waits(new, i)
  BY <1>5, <1>6, <1>7 DEF Waits
<1>14. \A i \in ToSet(q) : In(new, "cancelled", i)
  BY <1>3 DEF In, ToSet
<1> QED
  BY <1>3, <1>10, <1>11, <1>12, <1>13, <1>14 DEF Handles, new, m

(* A row of inputs that are read: marker, message, marker, message. *)
LEMMA ReadEntries ==
  ASSUME NEW q \in Seq(Input)
  PROVE  /\ Read(q) \in Seq(Events)
         /\ \A k \in DOMAIN q :
               /\ k \in Nat /\ k >= 1 /\ q[k] \in Input
               /\ 2 * k - 1 \in DOMAIN Read(q) /\ Read(q)[2 * k - 1] = Event("promoted", q[k])
               /\ 2 * k \in DOMAIN Read(q) /\ Read(q)[2 * k] = Event("message", q[k])
         /\ \A n \in DOMAIN Read(q) : \E k \in DOMAIN q : n = 2 * k - 1 \/ n = 2 * k
<1> DEFINE size == Len(q)
<1>1. size \in Nat /\ DOMAIN q = 1..size /\ \A k \in 1..size : q[k] \in Input
  OBVIOUS
<1> HIDE DEF size
<1>2. ASSUME NEW n \in 1..2 * size
      PROVE  \E k \in 1..size : /\ n = 2 * k - 1 \/ n = 2 * k
                                /\ n = 2 * k - 1 => n % 2 = 1 /\ (n + 1) \div 2 = k
                                /\ n = 2 * k => n % 2 # 1 /\ (n + 1) \div 2 = k
  <2> DEFINE k == (n + 1) \div 2
  <2>1. k \in 1..size /\ (n = 2 * k - 1 \/ n = 2 * k)
    BY <1>1
  <2>2. n = 2 * k - 1 => n % 2 = 1
    BY <1>1, <2>1
  <2>3. n = 2 * k => n % 2 # 1
    BY <1>1, <2>1
  <2> QED
    BY <2>1, <2>2, <2>3
<1>3. ASSUME NEW k \in 1..size
      PROVE  /\ 2 * k - 1 \in 1..2 * size /\ 2 * k \in 1..2 * size
             /\ (2 * k - 1) % 2 = 1 /\ (2 * k - 1 + 1) \div 2 = k
             /\ (2 * k) % 2 # 1 /\ (2 * k + 1) \div 2 = k
  BY <1>1
<1>4. Read(q) = [n \in 1..2 * size |->
                    Event(IF n % 2 = 1 THEN "promoted" ELSE "message", q[(n + 1) \div 2])]
  BY DEF Read, size
<1>5. Read(q) \in [1..2 * size -> Events]
  <2>1. \A n \in 1..2 * size : q[(n + 1) \div 2] \in Input
    BY <1>1, <1>2
  <2> QED
    BY <1>4, <2>1 DEF Event, Events
<1>6. Read(q) \in Seq(Events) /\ DOMAIN Read(q) = 1..2 * size
  <2>1. 2 * size \in Nat
    BY <1>1
  <2> QED
    BY <1>5, <2>1
<1>7. \A k \in 1..size : /\ Read(q)[2 * k - 1] = Event("promoted", q[k])
                         /\ Read(q)[2 * k] = Event("message", q[k])
  BY <1>3, <1>4
<1>8. \A k \in 1..size : k \in Nat /\ k >= 1
  BY <1>1
<1> QED
  BY <1>1, <1>2, <1>3, <1>6, <1>7, <1>8

LEMMA ReadingGrows ==
  ASSUME NEW l, GoodLog(l), NEW q \in Seq(Input), Distinct(q), \A i \in ToSet(q) : Waits(l, i),
         host = "cli" => \A i \in Input \ Steer, j \in ToSet(q) \ Steer :
             Before(l, Event("admitted", i), Event("admitted", j))
             => In(l, "promoted", i) \/ In(l, "cancelled", i)
  PROVE  /\ Handles(l, l \o Read(q), ToSet(q))
         /\ \A i \in ToSet(q) : /\ In(l \o Read(q), "promoted", i)
                                /\ In(l \o Read(q), "message", i)
<1> DEFINE m == Read(q)
           new == l \o m
<1>1. /\ m \in Seq(Events)
      /\ \A k \in DOMAIN q :
            /\ k \in Nat /\ k >= 1 /\ q[k] \in Input
            /\ 2 * k - 1 \in DOMAIN m /\ m[2 * k - 1] = Event("promoted", q[k])
            /\ 2 * k \in DOMAIN m /\ m[2 * k] = Event("message", q[k])
      /\ \A n \in DOMAIN m : \E k \in DOMAIN q : n = 2 * k - 1 \/ n = 2 * k
  BY ReadEntries
<1>2. l \in Seq(Events)
  BY DEF GoodLog
<1> HIDE DEF m
<1>3. /\ new \in Seq(Events) /\ Extends(l, new) /\ Len(l) \in Nat /\ DOMAIN l = 1..Len(l)
      /\ \A k \in DOMAIN m : /\ k \in Nat /\ k >= 1
                             /\ Len(l) + k \in DOMAIN new /\ new[Len(l) + k] = m[k]
      /\ \A n \in DOMAIN new : n \in DOMAIN l \/ \E k \in DOMAIN m : n = Len(l) + k
  BY <1>1, <1>2, Joined
<1>4. \A kind, i : Event(kind, i).kind = kind /\ Event(kind, i).input = i
  BY DEF Event
<1>5. \A n \in DOMAIN m : \E k \in DOMAIN q :
         \/ n = 2 * k - 1 /\ m[n] = Event("promoted", q[k])
         \/ n = 2 * k /\ m[n] = Event("message", q[k])
  BY <1>1
<1>6. \A kind, i : In(new, kind, i) => \/ In(l, kind, i)
                                       \/ kind \in {"promoted", "message"} /\ i \in ToSet(q)
  <2> SUFFICES ASSUME NEW kind, NEW i, In(new, kind, i), ~In(l, kind, i)
               PROVE  kind \in {"promoted", "message"} /\ i \in ToSet(q)
    OBVIOUS
  <2> HIDE DEF new
  <2>1. PICK n \in DOMAIN new : new[n] = Event(kind, i)
    BY DEF In
  <2>2. n \notin DOMAIN l
    BY <1>3, <2>1 DEF In, Extends
  <2>3. PICK c \in DOMAIN m : n = Len(l) + c
    BY <1>3, <2>2
  <2>4. PICK k \in DOMAIN q : m[c] = Event("promoted", q[k]) \/ m[c] = Event("message", q[k])
    BY <1>5
  <2> QED
    BY <1>3, <1>4, <2>1, <2>3, <2>4 DEF ToSet
<1>7. \A kind, i : In(l, kind, i) => In(new, kind, i)
  BY <1>3, ExtendsKeeps
<1>8. \A k \in DOMAIN q : /\ new[Len(l) + (2 * k - 1)] = Event("promoted", q[k])
                          /\ new[Len(l) + 2 * k] = Event("message", q[k])
                          /\ Len(l) + (2 * k - 1) \in DOMAIN new /\ Len(l) + 2 * k \in DOMAIN new
  BY <1>1, <1>3
<1>9. ASSUME NEW c \in DOMAIN m PROVE Orderly(new, Len(l) + c)
  <2> DEFINE p == Len(l) + c
             Taken(n, k) == n = Len(l) + (2 * k - 1) /\ new[n] = Event("promoted", q[k])
             Shown(n, k) == n = Len(l) + 2 * k /\ new[n] = Event("message", q[k])
  <2>1. \A n \in DOMAIN new : n \in DOMAIN l \/ \E k \in DOMAIN q : Taken(n, k) \/ Shown(n, k)
    <3> SUFFICES ASSUME NEW n \in DOMAIN new, n \notin DOMAIN l
                 PROVE  \E k \in DOMAIN q : Taken(n, k) \/ Shown(n, k)
      OBVIOUS
    <3> HIDE DEF new
    <3>1. PICK b \in DOMAIN m : n = Len(l) + b
      BY <1>3
    <3>2. new[n] = m[b]
      BY <1>3, <3>1
    <3>3. PICK k \in DOMAIN q : \/ b = 2 * k - 1 /\ m[b] = Event("promoted", q[k])
                                \/ b = 2 * k /\ m[b] = Event("message", q[k])
      BY <1>5
    <3> QED
      BY <3>1, <3>2, <3>3
  <2>2. p \in DOMAIN new /\ \A n \in DOMAIN new : n \in Nat /\ n >= 1
    BY <1>3
  <2>3. p \notin DOMAIN l
    <3>1. c \in Nat /\ c >= 1
      BY <1>3
    <3> QED
      BY <1>3, <3>1
  <2>4. \A n \in 1..p - 1 : n \in DOMAIN new
    <3>1. DOMAIN new = 1..Len(new) /\ Len(new) \in Nat
      BY <1>3
    <3> HIDE DEF p, new
    <3> QED
      BY <2>2, <3>1
  <2>5. \A n \in DOMAIN l : n \in 1..p - 1 /\ new[n] = l[n]
    <3>1. c \in Nat /\ c >= 1
      BY <1>3
    <3> QED
      BY <1>3, <3>1 DEF Extends
  <2> HIDE DEF p, new
  <2>6. PICK k \in DOMAIN q : Taken(p, k) \/ Shown(p, k)
    BY <2>1, <2>2, <2>3
  <2>7. Waits(l, q[k]) /\ k \in Nat /\ k >= 1
    BY <1>1 DEF ToSet
  <2>8. CASE Shown(p, k)
    <3>1. p - 1 = Len(l) + (2 * k - 1)
      BY <1>3, <2>7, <2>8
    <3>2. p - 1 \in DOMAIN new /\ new[p - 1] = Event("promoted", q[k])
      BY <1>8, <3>1
    <3> QED
      BY <1>4, <2>8, <3>2 DEF Orderly, p
  <2>9. CASE Taken(p, k)
    <3>1. new[p].kind = "promoted" /\ new[p].input = q[k]
      BY <1>4, <2>9
    <3>2. Earlier(new, p, "admitted")
      BY <2>5, <2>7, <3>1 DEF Waits, In, Earlier
    <3>3. ASSUME NEW n \in 1..p - 1
          PROVE  new[n] # Event("promoted", q[k]) /\ new[n] # Event("cancelled", q[k])
      <4>1. CASE n \in DOMAIN l
        BY <2>5, <2>7, <4>1 DEF Waits, In
      <4>2. CASE n \notin DOMAIN l
        <5>1. PICK d \in DOMAIN q : Taken(n, d) \/ Shown(n, d)
          BY <2>1, <2>4, <4>2
        <5>2. n < p
          BY <2>2
        <5>3. d # k
          <6>1. p = Len(l) + (2 * k - 1) /\ Len(l) \in Nat
            BY <1>3, <2>9
          <6>2. n = Len(l) + (2 * d - 1) \/ n = Len(l) + 2 * d
            BY <5>1
          <6>3. d = k => n = p \/ n = p + 1
            BY <2>7, <6>1, <6>2
          <6>4. p \in Nat
            BY <2>2
          <6> QED
            BY <5>2, <6>3, <6>4
        <5>4. q[d] # q[k]
          BY <5>3 DEF Distinct
        <5>5. new[n] = Event("promoted", q[d]) \/ new[n] = Event("message", q[d])
          BY <5>1
        <5>6. Event("cancelled", q[k]).kind = "cancelled" /\ Event("promoted", q[k]).input = q[k]
          BY <1>4
        <5>7. new[n].kind # "cancelled" /\ new[n].input = q[d]
          BY <1>4, <5>5
        <5> QED
          BY <5>4, <5>6, <5>7
      <4> QED
        BY <4>1, <4>2
    <3>4. ~Earlier(new, p, "promoted") /\ ~Earlier(new, p, "cancelled")
      BY <3>1, <3>3 DEF Earlier
    <3> QED
      BY <3>1, <3>2, <3>4 DEF Orderly, p
  <2> QED
    BY <2>6, <2>8, <2>9
<1>10. \A i, j : Before(new, Event("admitted", i), Event("admitted", j))
               => Before(l, Event("admitted", i), Event("admitted", j))
  <2>1. \A i : \A k \in DOMAIN m : m[k] # Event("admitted", i)
    BY <1>4, <1>5
  <2> QED
    BY <1>1, <1>2, <2>1, NoNewAdmissions
<1>11. \A j : In(m, "message", j) => j \in ToSet(q)
  BY <1>4, <1>5 DEF In, ToSet
<1>12. GoodLog(new)
  <2>1. \A k \in DOMAIN m : Orderly(new, Len(l) + k)
    BY <1>9
  <2>2. host = "cli" => \A i, j \in Input \ Steer :
           In(m, "message", j) /\ Before(new, Event("admitted", i), Event("admitted", j))
           => In(l, "promoted", i) \/ In(l, "cancelled", i)
    <3> HIDE DEF new
    <3> QED
      BY <1>10, <1>11
  <2> QED
    BY <1>1, <2>1, <2>2, GoodGrows
<1>13. \A i \in ToSet(q) : In(new, "promoted", i) /\ In(new, "message", i)
  <2> SUFFICES ASSUME NEW i \in ToSet(q) PROVE In(new, "promoted", i) /\ In(new, "message", i)
    OBVIOUS
  <2> HIDE DEF new
  <2>1. PICK k \in DOMAIN q : q[k] = i
    BY DEF ToSet
  <2>2. \E n \in DOMAIN new : new[n] = Event("promoted", i)
    BY <1>8, <2>1
  <2>3. \E n \in DOMAIN new : new[n] = Event("message", i)
    BY <1>8, <2>1
  <2> QED
    BY <2>2, <2>3 DEF In
<1>14. LostOf(new) \subseteq LostOf(l)
  BY <1>6, <1>7, <1>13 DEF LostOf
<1>15. \A i \in Input : Waits(l, i) /\ i \notin ToSet(q) => Waits(new, i)
  BY <1>6, <1>7 DEF Waits
<1> QED
  BY <1>3, <1>10, <1>12, <1>13, <1>14, <1>15 DEF Handles, new, m

-----------------------------------------------------------------------------
(* A restart keeps a prefix of the log: it is a good one, and the input it   *)
(* cuts off between its marker and its message is lost.                      *)
LEMMA PrefixIsGood ==
  ASSUME NEW l, GoodLog(l), NEW k \in 0..Len(l)
  PROVE  /\ GoodLog(SubSeq(l, 1, k)) /\ Extends(SubSeq(l, 1, k), l)
         /\ Len(SubSeq(l, 1, k)) = k
         /\ \E x : LostOf(SubSeq(l, 1, k)) \subseteq LostOf(l) \cup {x}
<1> DEFINE cut == SubSeq(l, 1, k)
<1>1. /\ l \in Seq(Events) /\ cut \in Seq(Events) /\ Len(cut) = k /\ k \in Nat
      /\ DOMAIN cut = 1..k /\ DOMAIN cut \subseteq DOMAIN l
      /\ \A n \in DOMAIN cut : cut[n] = l[n]
  BY DEF GoodLog
<1>2. \A n \in DOMAIN l : Orderly(l, n) /\ n \in Nat /\ n >= 1
  BY <1>1 DEF GoodLog
<1> HIDE DEF cut
<1>3. Extends(cut, l)
  BY <1>1 DEF Extends
<1>4. ASSUME NEW n \in DOMAIN cut PROVE Orderly(cut, n)
  <2>1. \A m \in 1..n - 1 : m \in DOMAIN cut /\ cut[m] = l[m]
    BY <1>1
  <2>2. \A kind : Earlier(cut, n, kind) <=> Earlier(l, n, kind)
    BY <1>1, <2>1 DEF Earlier
  <2>3. n - 1 \in DOMAIN l => n - 1 \in DOMAIN cut /\ cut[n - 1] = l[n - 1]
    BY <1>1, <1>2
  <2> QED
    BY <1>1, <1>2, <2>2, <2>3 DEF Orderly
<1>5. ASSUME host = "cli", NEW i \in Input \ Steer, NEW j \in Input \ Steer
      PROVE  ~Overtakes(cut, i, j)
  <2> SUFFICES ASSUME Overtakes(cut, i, j) PROVE FALSE
    OBVIOUS
  <2>1. Before(l, Event("admitted", i), Event("admitted", j)) /\ In(l, "message", j)
    BY <1>1, <1>3, ExtendsKeeps DEF Overtakes
  <2>2. PICK kind \in {"promoted", "cancelled"} : Before(l, Event(kind, i), Event("message", j))
    BY <1>5, <2>1 DEF GoodLog, Overtakes
  <2>3. PICK p \in DOMAIN cut : cut[p] = Event("message", j)
    BY DEF Overtakes, In
  <2>4. PICK n \in DOMAIN l : /\ l[n] = Event("message", j)
                              /\ \E m \in 1..n - 1 : l[m] = Event(kind, i)
    BY <2>2 DEF Before
  <2>5. n = p
    BY <1>1, <1>2, <2>3, <2>4, OnePlace
  <2>6. \A m \in 1..p - 1 : m \in DOMAIN cut /\ cut[m] = l[m]
    BY <1>1
  <2>7. Before(cut, Event(kind, i), Event("message", j))
    BY <2>3, <2>4, <2>5, <2>6 DEF Before
  <2> QED
    BY <2>7 DEF Overtakes
<1>6. GoodLog(cut)
  BY <1>1, <1>4, <1>5 DEF GoodLog
<1>7. LostOf(cut) \subseteq LostOf(l) \cup {l[k + 1].input}
  <2> SUFFICES ASSUME NEW i \in LostOf(cut), i \notin LostOf(l) PROVE i = l[k + 1].input
    OBVIOUS
  <2>1. PICK p \in DOMAIN cut : cut[p] = Event("promoted", i)
    BY DEF LostOf, In
  <2>2. PICK n \in DOMAIN l : l[n] = Event("message", i)
    BY <1>3, ExtendsKeeps DEF LostOf, In
  <2>3. n \notin DOMAIN cut
    BY <1>1, <2>2 DEF LostOf, In
  <2>4. n - 1 = p
    BY <1>1, <1>2, <2>1, <2>2, OnePlace
  <2>5. n = k + 1
    BY <1>1, <1>2, <2>3, <2>4
  <2> QED
    BY <2>2, <2>5 DEF Event
<1> QED
  BY <1>1, <1>3, <1>6, <1>7 DEF cut

-----------------------------------------------------------------------------
LEMMA NothingLeft ==
  ASSUME NEW T, NEW seq \in Seq(T), NEW k \in 0..Len(seq), SubSeq(seq, k + 1, Len(seq)) = <<>>
  PROVE  k = Len(seq)
<1>1. \A rest \in Seq(T) : rest = <<>> => Len(rest) = 0
  OBVIOUS
<1>2. SubSeq(seq, k + 1, Len(seq)) \in Seq(T)
  OBVIOUS
<1>3. Len(SubSeq(seq, k + 1, Len(seq))) = Len(seq) - k
  OBVIOUS
<1>4. Len(SubSeq(seq, k + 1, Len(seq))) = 0
  BY <1>1, <1>2
<1> QED
  BY <1>3, <1>4

(* What a pump finds: the inputs it cancels on its way, and the next one. *)
LEMMA DroppedFacts ==
  ASSUME NEW q \in Seq(Input), Distinct(q), chain # <<>>
  PROVE  /\ Dropped(q) \in Seq(Input) /\ Distinct(Dropped(q))
         /\ ToSet(Dropped(q)) \subseteq ToSet(q)
         /\ Chosen(q) # <<>> =>
               \E k \in DOMAIN q :
                  /\ Head(Chosen(q)) = q[k]
                  /\ q[k] \notin ToSet(Dropped(q))
                  /\ Head(chain) = First => \A b \in 1..k - 1 : q[b] \in ToSet(Dropped(q))
                  /\ Head(chain) # First => q[k] = Head(chain)
         /\ Head(chain) # First /\ Chosen(q) = <<>> =>
               Head(chain) \notin ToSet(q) \/ CutOff(Head(chain))
         /\ Head(chain) = First /\ Chosen(q) = <<>> => ToSet(Dropped(q)) = ToSet(q)
<1>1. DOMAIN q = 1..Len(q) /\ Len(q) \in Nat
  OBVIOUS
<1>2. CASE Head(chain) # First
  <2>1. Dropped(q) = <<>>
    BY <1>2 DEF Dropped
  <2>2. ToSet(Dropped(q)) = {} /\ Dropped(q) \in Seq(Input) /\ Distinct(Dropped(q))
    BY <2>1 DEF ToSet, Distinct
  <2> DEFINE S == {i \in {Head(chain)} : ~CutOff(i)}
             a == Among(q, S)
  <2>3. Chosen(q) = a
    BY <1>2 DEF Chosen
  <2>4. a \in Seq(Input) /\ \A i : i \in ToSet(a) <=> i \in ToSet(q) /\ i \in S
    BY AmongQueue
  <2> HIDE DEF a
  <2>5. CASE a # <<>>
    <3>1. Head(a) \in ToSet(a)
      BY <2>4, <2>5 DEF ToSet
    <3>2. PICK k \in DOMAIN q : q[k] = Head(a)
      BY <2>4, <3>1 DEF ToSet
    <3> QED
      BY <1>2, <2>2, <2>3, <2>4, <2>5, <3>1, <3>2
  <2>6. CASE a = <<>>
    <3>1. ToSet(a) = {}
      BY <2>6 DEF ToSet
    <3> QED
      BY <1>2, <2>2, <2>3, <2>4, <2>6, <3>1
  <2> QED
    BY <2>5, <2>6
<1>3. CASE Head(chain) = First
  <2> DEFINE runnable == {n \in DOMAIN q : ~CutOff(q[n])}
             first == CHOOSE n \in runnable : \A m \in runnable : n <= m
  <2>1. Dropped(q) = SubSeq(q, 1, IF runnable = {} THEN Len(q) ELSE first - 1)
    BY <1>3 DEF Dropped
  <2>2. \E k \in 0..Len(q) : Dropped(q) = SubSeq(q, 1, k)
    <3>1. CASE runnable = {}
      <4>1. Dropped(q) = SubSeq(q, 1, Len(q)) /\ Len(q) \in 0..Len(q)
        BY <1>1, <2>1, <3>1
      <4> QED
        BY <4>1
    <3>2. CASE runnable # {}
      <4>1. runnable \subseteq Nat
        BY <1>1
      <4>2. first \in runnable
        <5> HIDE DEF runnable
        <5>1. \E n \in runnable : \A m \in runnable : n <= m
          BY <3>2, <4>1, LeastOf
        <5> QED
          BY <5>1
      <4>3. Dropped(q) = SubSeq(q, 1, first - 1)
        BY <2>1, <3>2
      <4> HIDE DEF first
      <4>4. first \in DOMAIN q
        BY <4>2
      <4>5. first - 1 \in 0..Len(q)
        BY <1>1, <4>4
      <4> QED
        BY <4>3, <4>5
    <3> QED
      BY <3>1, <3>2
  <2> HIDE DEF runnable, first
  <2>3. PICK k \in 0..Len(q) : Dropped(q) = SubSeq(q, 1, k)
    BY <2>2
  <2>4. Dropped(q) \in Seq(Input) /\ DOMAIN Dropped(q) = 1..k /\ Len(Dropped(q)) = k
    BY <1>1, <2>3
  <2>5. \A n \in 1..k : Dropped(q)[n] = q[n] /\ n \in DOMAIN q
    BY <1>1, <2>3
  <2>6. Distinct(Dropped(q)) /\ ToSet(Dropped(q)) \subseteq ToSet(q)
    BY <2>4, <2>5 DEF Distinct, ToSet
  <2>7. Chosen(q) = SubSeq(q, k + 1, Len(q))
    BY <1>3, <2>4 DEF Chosen
  <2>8. ASSUME Chosen(q) # <<>>
        PROVE  /\ k + 1 \in DOMAIN q /\ Head(Chosen(q)) = q[k + 1]
               /\ q[k + 1] \notin ToSet(Dropped(q))
               /\ \A b \in 1..k + 1 - 1 : q[b] \in ToSet(Dropped(q))
    <3>1. k + 1 \in DOMAIN q
      BY <1>1, <2>3, <2>7, <2>8
    <3>2. Head(Chosen(q)) = q[k + 1]
      BY <1>1, <2>3, <2>7, <3>1
    <3>3. \A n \in 1..k : n # k + 1
      BY <2>3
    <3>4. q[k + 1] \notin ToSet(Dropped(q))
      BY <2>4, <2>5, <3>1, <3>3 DEF ToSet, Distinct
    <3>5. \A b \in 1..k + 1 - 1 : b \in 1..k
      BY <2>3
    <3> QED
      BY <2>4, <2>5, <3>1, <3>2, <3>4, <3>5 DEF ToSet
  <2>9. ASSUME Chosen(q) = <<>> PROVE ToSet(q) \subseteq ToSet(Dropped(q))
    <3>1. SubSeq(q, k + 1, Len(q)) = <<>>
      BY <2>7, <2>9
    <3>2. k = Len(q)
      BY <3>1, NothingLeft
    <3> QED
      BY <1>1, <2>4, <2>5, <3>2 DEF ToSet
  <2>10. Chosen(q) = <<>> => ToSet(Dropped(q)) = ToSet(q)
    BY <2>6, <2>9
  <2> QED
    BY <1>3, <2>4, <2>6, <2>8, <2>10
<1> QED
  BY <1>2, <1>3

-----------------------------------------------------------------------------
(* The invariant: what the log is, and what the pumps know about it.         *)
Lost == IsFiniteSet(LostOf(log)) /\ Cardinality(LostOf(log)) <= restarts

(* The CLI's pumps take what waits.  The service has one pump, for an input  *)
(* that waits until it runs or has been withdrawn.                           *)
Pumps ==
    /\ host = "cli" => \A n \in DOMAIN chain : chain[n] = First
    /\ host = "service" =>
          /\ ~halted
          /\ \/ chain = <<>>
             \/ \E i \in Input : /\ chain = <<i>>
                                 /\ IF current = NoInput
                                    THEN Waits(log, i) \/ In(log, "cancelled", i)
                                    ELSE current = i
    /\ chain = <<>> => current = NoInput

(* An input that failed or that runs is one that was taken and read; a turn  *)
(* that succeeded saves its message.                                         *)
Turns ==
    /\ \A i \in failed : In(log, "promoted", i)
    /\ current \notin failed
    /\ current # NoInput => In(log, "promoted", current) /\ In(log, "message", current)
    /\ phase.at = "saving" /\ phase.ok =>
          \E n \in 1..phase.target : log[n] = Event("message", current)

Inv ==
    /\ TypeOK
    /\ GoodLog(log)
    /\ Lost
    /\ Pumps
    /\ Turns
    /\ AnswerIsOwn
    /\ DoneIsDurable

(* What a step that is no restart does to the log. *)
Grows(l, new) ==
    /\ GoodLog(new) /\ Extends(l, new)
    /\ LostOf(new) \subseteq LostOf(l)

LEMMA HandlesGrows ==
  ASSUME NEW l, NEW new, NEW inputs, Handles(l, new, inputs)
  PROVE  Grows(l, new)
BY DEF Handles, Grows

LEMMA GrowsTwice ==
  ASSUME NEW k, NEW l, NEW new, Grows(k, l), Grows(l, new)
  PROVE  Grows(k, new)
BY DEF Grows, Extends

LEMMA GrowsNot ==
  ASSUME NEW l, GoodLog(l)
  PROVE  Grows(l, l)
BY DEF Grows, Extends

(* Steers are read by whoever claims them, in any order with the others. *)
LEMMA SteersGrow ==
  ASSUME NEW l, GoodLog(l), NEW q \in Seq(Input), Distinct(q), \A i \in ToSet(q) : Waits(l, i)
  PROVE  Grows(l, l \o Read(Steers(q)))
<1>1. /\ Steers(q) \in Seq(Input) /\ Distinct(Steers(q))
      /\ \A i : i \in ToSet(Steers(q)) <=> i \in ToSet(q) /\ i \in Steer
  BY AmongQueue DEF Steers
<1>2. Handles(l, l \o Read(Steers(q)), ToSet(Steers(q)))
  <2>1. \A i \in ToSet(Steers(q)) : Waits(l, i)
    BY <1>1
  <2>2. ToSet(Steers(q)) \ Steer = {}
    BY <1>1
  <2> QED
    BY <1>1, <2>1, <2>2, ReadingGrows
<1> QED
  BY <1>2, HandlesGrows

LEMMA StepClaimsGrows ==
  ASSUME GoodLog(log), StepClaims
  PROVE  Grows(log, log')
<1>1. Pending \in Seq(Input) /\ Distinct(Pending) /\ \A i \in ToSet(Pending) : Waits(log, i)
  BY PendingFacts
<1>2. Grows(log, log \o Read(Steers(Pending)))
  BY <1>1, SteersGrow
<1> QED
  BY <1>2 DEF StepClaims

(* A pump that ends has cancelled what it dropped, and found nothing else. *)
LEMMA PumpEndsGrows ==
  ASSUME GoodLog(log), PumpEnds
  PROVE  /\ Grows(log, log')
         /\ ~halted /\ Head(chain) \in Input =>
               ~Waits(log, Head(chain)) \/ CutOff(Head(chain))
<1>1. Pending \in Seq(Input) /\ Distinct(Pending) /\ chain # <<>>
      /\ \A i : i \in ToSet(Pending) <=> i \in Input /\ Waits(log, i)
  BY PendingFacts DEF PumpEnds
<1>2. CASE halted
  <2>1. log' = log
    BY <1>2 DEF PumpEnds
  <2> QED
    BY <1>2, <2>1, GrowsNot
<1>3. CASE ~halted
  <2>1. Chosen(Pending) = <<>> /\ log' = log \o Mark("cancelled", Dropped(Pending))
    BY <1>3 DEF PumpEnds
  <2>2. /\ Dropped(Pending) \in Seq(Input) /\ Distinct(Dropped(Pending))
        /\ \A i \in ToSet(Dropped(Pending)) : Waits(log, i)
        /\ Head(chain) # First => Head(chain) \notin ToSet(Pending) \/ CutOff(Head(chain))
    BY <1>1, <2>1, DroppedFacts
  <2>3. Grows(log, log')
    BY <2>1, <2>2, CancellationsGrow, HandlesGrows
  <2> QED
    BY <1>1, <2>2, <2>3, LaneAssumption
<1> QED
  BY <1>2, <1>3

(* A pump that runs cancels what it drops, reads the next input and perhaps  *)
(* the steers behind it.                                                     *)
LEMMA PumpRunsGrows ==
  ASSUME GoodLog(log), Pumps, host \in {"cli", "service"}, PumpRuns
  PROVE  /\ Grows(log, log') /\ current' \in Input /\ Waits(log, current')
         /\ In(log', "promoted", current') /\ In(log', "message", current')
         /\ host = "service" => chain = <<current'>>
<1> DEFINE q == Pending
           skipped == Dropped(q)
           next == Head(Chosen(q))
           rest == Among(q, Input \ ({next} \cup ToSet(skipped)))
           cleared == log \o Mark("cancelled", skipped)
           opening == cleared \o Read(<<next>>)
<1>1. /\ chain # <<>> /\ Chosen(q) # <<>> /\ current' = next
      /\ log' = opening \/ log' = opening \o Read(Steers(rest))
  BY DEF PumpRuns
<1>2. /\ q \in Seq(Input) /\ Distinct(q)
      /\ \A i : i \in ToSet(q) <=> i \in Input /\ Waits(log, i)
      /\ \A a \in DOMAIN q, i \in Input :
            Waits(log, i) /\ Before(log, Event("admitted", i), Event("admitted", q[a]))
            => \E b \in DOMAIN q : b < a /\ q[b] = i
  BY PendingFacts
<1> HIDE DEF q
<1>3. /\ skipped \in Seq(Input) /\ Distinct(skipped) /\ ToSet(skipped) \subseteq ToSet(q)
  BY <1>1, <1>2, DroppedFacts
<1>4. PICK k \in DOMAIN q :
         /\ next = q[k] /\ q[k] \notin ToSet(skipped)
         /\ Head(chain) = First => \A b \in 1..k - 1 : q[b] \in ToSet(skipped)
         /\ Head(chain) # First => q[k] = Head(chain)
  BY <1>1, <1>2, DroppedFacts
<1> HIDE DEF skipped, next
<1>5. next \in ToSet(q) /\ next \notin ToSet(skipped) /\ next \in Input /\ Waits(log, next)
  BY <1>2, <1>4 DEF ToSet
<1>6. /\ Handles(log, cleared, ToSet(skipped))
      /\ \A i \in ToSet(skipped) : In(cleared, "cancelled", i)
  BY <1>2, <1>3, CancellationsGrow
<1> HIDE DEF cleared
<1>7. GoodLog(cleared) /\ Waits(cleared, next)
  BY <1>5, <1>6 DEF Handles
<1>8. <<next>> \in Seq(Input) /\ Distinct(<<next>>) /\ ToSet(<<next>>) = {next}
  BY <1>5 DEF Distinct, ToSet
<1>9. ASSUME host = "cli", NEW i \in Input \ Steer,
             Before(cleared, Event("admitted", i), Event("admitted", next))
      PROVE  In(cleared, "promoted", i) \/ In(cleared, "cancelled", i)
  <2>1. Before(log, Event("admitted", i), Event("admitted", next))
    BY <1>6, <1>9 DEF Handles
  <2>2. In(log, "admitted", i)
    <3>1. \A n \in DOMAIN log : \A m \in 1..n - 1 : m \in DOMAIN log
      BY DEF GoodLog
    <3> QED
      BY <2>1, <3>1 DEF Before, In
  <2>3. \A kind : In(log, kind, i) => In(cleared, kind, i)
    BY <1>6, ExtendsKeeps DEF Handles
  <2>4. CASE Waits(log, i)
    <3>1. PICK b \in DOMAIN q : b < k /\ q[b] = i
      BY <1>2, <1>4, <2>1, <2>4
    <3>2. Head(chain) = First
      BY <1>1, <1>9 DEF Pumps
    <3>3. b \in 1..k - 1
      BY <1>2, <3>1
    <3> QED
      BY <1>4, <1>6, <3>1, <3>2, <3>3
  <2> QED
    BY <2>2, <2>3, <2>4 DEF Waits
<1>10. /\ Handles(cleared, opening, {next})
       /\ In(opening, "promoted", next) /\ In(opening, "message", next)
  <2>1. \A i \in ToSet(<<next>>) : Waits(cleared, i)
    BY <1>7, <1>8
  <2>2. host = "cli" => \A i \in Input \ Steer, j \in ToSet(<<next>>) \ Steer :
           Before(cleared, Event("admitted", i), Event("admitted", j))
           => In(cleared, "promoted", i) \/ In(cleared, "cancelled", i)
    BY <1>8, <1>9
  <2> HIDE DEF opening
  <2>3. /\ Handles(cleared, opening, ToSet(<<next>>))
        /\ \A i \in ToSet(<<next>>) : In(opening, "promoted", i) /\ In(opening, "message", i)
    BY <1>7, <1>8, <2>1, <2>2, ReadingGrows DEF opening
  <2> QED
    BY <1>8, <2>3
<1> HIDE DEF opening
<1>11. Grows(log, opening)
  BY <1>6, <1>10, HandlesGrows, GrowsTwice
<1>12. Grows(opening, opening \o Read(Steers(rest)))
  <2>1. /\ rest \in Seq(Input) /\ Distinct(rest)
        /\ \A i \in ToSet(rest) : i \in ToSet(q) /\ i # next /\ i \notin ToSet(skipped)
    BY <1>2, AmongQueue
  <2> HIDE DEF rest
  <2>2. \A i \in ToSet(rest) : Waits(opening, i)
    BY <1>2, <1>6, <1>10, <2>1 DEF Handles
  <2> QED
    BY <1>10, <2>1, <2>2, SteersGrow DEF Handles
<1>13. Grows(opening, log')
  BY <1>1, <1>10, <1>12, GrowsNot DEF Handles
<1>14. In(log', "promoted", next) /\ In(log', "message", next)
  BY <1>10, <1>13, ExtendsKeeps DEF Grows
<1>15. host = "service" => chain = <<next>>
  <2> SUFFICES ASSUME host = "service" PROVE chain = <<next>>
    OBVIOUS
  <2>1. PICK i \in Input : chain = <<i>>
    BY <1>1 DEF Pumps
  <2>2. Head(chain) = i /\ i # First
    BY <2>1, LaneAssumption
  <2> QED
    BY <1>4, <2>1, <2>2
<1> QED
  BY <1>1, <1>5, <1>11, <1>13, <1>14, <1>15, GrowsTwice

-----------------------------------------------------------------------------
LEMMA Initially == Init => Inv
<1> SUFFICES ASSUME Init PROVE Inv
  OBVIOUS
<1> USE DEF Init
<1>1. log = <<>> /\ log \in Seq(Events) /\ DOMAIN log = {} /\ Len(log) = 0
  OBVIOUS
<1>2. TypeOK
  <2>1. /\ phase \in [at : {"none", "steps", "saving"}, target : 0..Len(log), ok : BOOLEAN]
        /\ phase.at = "none"
    BY <1>1 DEF Idle
  <2>2. restarts \in 0..MaxRestarts
    BY LaneAssumption
  <2>3. answer \in [Input -> {"none", "waiting", "resolved", "rejected"}]
    OBVIOUS
  <2>4. {stop, lastError, halted, strayed} \subseteq BOOLEAN
    OBVIOUS
  <2>5. log \in Seq(Events) /\ durable \in 0..Len(log) /\ chain \in Seq(Input \cup {First})
    BY <1>1
  <2>6. /\ host \in {"cli", "service"} /\ current \in Input \cup {NoInput}
        /\ current = NoInput <=> phase.at = "none"
        /\ signals \in SUBSET Signalled /\ aborted \in SUBSET Signalled
        /\ submitted \cup failed \cup done \subseteq Input
    BY <2>1
  <2> HIDE DEF Init
  <2> QED
    BY <2>1, <2>2, <2>3, <2>4, <2>5, <2>6 DEF TypeOK, Events
<1>3. GoodLog(log)
  BY <1>1 DEF GoodLog, Overtakes, In
<1>4. Lost
  <2>1. LostOf(log) = {}
    BY <1>1 DEF LostOf, In
  <2> QED
    BY <2>1, FS_EmptySet DEF Lost
<1>5. Pumps /\ Turns
  BY LaneAssumption DEF Pumps, Turns, Idle
<1>6. AnswerIsOwn /\ DoneIsDurable
  BY DEF AnswerIsOwn, DoneIsDurable
<1> QED
  BY <1>2, <1>3, <1>4, <1>5, <1>6 DEF Inv

(* What a log that grows keeps of the invariant. *)
LEMMA LogGrows ==
  ASSUME Inv, Grows(log, log'), UNCHANGED <<host, restarts>>
  PROVE  /\ GoodLog(log)' /\ Lost'
         /\ log' \in Seq(Events) /\ Len(log) \in Nat /\ Len(log') \in Nat /\ Len(log) <= Len(log')
         /\ \A n \in 1..Len(log) : log'[n] = log[n]
         /\ \A kind, i : In(log, kind, i) => In(log', kind, i)
<1>1. GoodLog(log') /\ Extends(log, log') /\ LostOf(log') \subseteq LostOf(log)
  BY DEF Grows
<1>2. GoodLog(log)'
  BY <1>1 DEF GoodLog
<1>3. Lost'
  <2>1. IsFiniteSet(LostOf(log)) /\ Cardinality(LostOf(log)) <= restarts /\ restarts \in Nat
    BY DEF Inv, Lost, TypeOK
  <2>2. IsFiniteSet(LostOf(log')) /\ Cardinality(LostOf(log')) <= Cardinality(LostOf(log))
    BY <1>1, <2>1, FS_Subset
  <2>3. Cardinality(LostOf(log)) \in Nat /\ Cardinality(LostOf(log')) \in Nat
    BY <2>1, <2>2, FS_CardinalityType
  <2>4. Cardinality(LostOf(log')) <= restarts'
    BY <2>1, <2>2, <2>3
  <2> QED
    BY <2>2, <2>4 DEF Lost, LostOf, In
<1>4. /\ DOMAIN log = 1..Len(log) /\ DOMAIN log' = 1..Len(log')
      /\ Len(log) \in Nat /\ Len(log') \in Nat /\ log' \in Seq(Events)
  BY <1>1 DEF GoodLog, Inv
<1>5. Len(log) <= Len(log')
  <2>1. 1..Len(log) \subseteq 1..Len(log')
    BY <1>1, <1>4 DEF Extends
  <2> QED
    BY <1>4, <2>1
<1>6. \A n \in 1..Len(log) : log'[n] = log[n]
  BY <1>1, <1>4 DEF Extends
<1>7. \A kind, i : In(log, kind, i) => In(log', kind, i)
  BY <1>1, ExtendsKeeps
<1> QED
  BY <1>2, <1>3, <1>4, <1>5, <1>6, <1>7

(* The log grows and the turn goes on: what is known about it stays known.   *)
LEMMA TurnGoesOn ==
  ASSUME Inv, Grows(log, log'),
         UNCHANGED <<host, restarts, durable, current, phase, failed, done>>
  PROVE  /\ Turns' /\ DoneIsDurable'
         /\ log' \in Seq(Events) /\ durable' \in 0..Len(log')
         /\ phase' \in [at : {"none", "steps", "saving"}, target : 0..Len(log'), ok : BOOLEAN]
<1>1. /\ Len(log) \in Nat /\ Len(log') \in Nat /\ Len(log) <= Len(log')
      /\ \A n \in 1..Len(log) : log'[n] = log[n]
      /\ \A kind, i : In(log, kind, i) => In(log', kind, i)
      /\ log' \in Seq(Events)
  BY LogGrows
<1>2. /\ durable \in 0..Len(log)
      /\ phase \in [at : {"none", "steps", "saving"}, target : 0..Len(log), ok : BOOLEAN]
  BY DEF Inv, TypeOK
<1>3. 0..Len(log) \subseteq 0..Len(log')
  BY <1>1
<1>4. /\ durable' \in 0..Len(log')
      /\ phase' \in [at : {"none", "steps", "saving"}, target : 0..Len(log'), ok : BOOLEAN]
  BY <1>2, <1>3
<1>5. \A k \in 0..Len(log) : \A n \in 1..k : log'[n] = log[n]
  BY <1>1
<1>6. DoneIsDurable'
  BY <1>2, <1>5 DEF Inv, DoneIsDurable
<1>7. phase.at = "saving" /\ phase.ok =>
         \E n \in 1..phase.target : log'[n] = Event("message", current)
  BY <1>2, <1>5 DEF Inv, Turns
<1>8. Turns'
  BY <1>1, <1>7 DEF Inv, Turns, In
<1> QED
  BY <1>1, <1>4, <1>6, <1>8

LEMMA AnswersStay ==
  ASSUME Inv, Grows(log, log'), UNCHANGED <<host, restarts, failed>>,
         NEW i \in Input, answer'[i] = answer[i], i \in aborted => i \in aborted'
  PROVE  /\ answer'[i] = "resolved" => i \notin failed'
         /\ answer'[i] = "rejected" => i \in failed' \cup aborted' \/ Has("cancelled", i)'
<1>1. Has("cancelled", i) => Has("cancelled", i)'
  BY LogGrows DEF In, Has
<1> QED
  BY <1>1 DEF Inv, AnswerIsOwn

(* Steps that change the log alone: an input is admitted, cancelled, or      *)
(* claimed by the running turn.                                              *)
LEMMA LogStep ==
  ASSUME Inv, Grows(log, log'), UNCHANGED <<host, durable, memory, restarts, done>>,
         current # NoInput
         \/ \A i \in Input : Waits(log, i) => Waits(log', i) \/ In(log', "cancelled", i)
  PROVE  Inv'
<1> USE DEF memory
<1>1. GoodLog(log)' /\ Lost' /\ \A kind, i : In(log, kind, i) => In(log', kind, i)
  BY LogGrows
<1>2. /\ Turns' /\ DoneIsDurable' /\ log' \in Seq(Events) /\ durable' \in 0..Len(log')
      /\ phase' \in [at : {"none", "steps", "saving"}, target : 0..Len(log'), ok : BOOLEAN]
  BY TurnGoesOn
<1>3. TypeOK'
  BY <1>2 DEF Inv, TypeOK, Events
<1>4. Pumps'
  <2>1. \A i \in Input : current = NoInput /\ (Waits(log, i) \/ In(log, "cancelled", i))
                         => Waits(log', i) \/ In(log', "cancelled", i)
    BY <1>1
  <2>2. /\ host = "cli" => \A n \in DOMAIN chain : chain[n] = First
        /\ chain = <<>> => current = NoInput
        /\ host = "service" => ~halted
    BY DEF Inv, Pumps
  <2>3. host = "service" =>
           \/ chain = <<>>
           \/ \E i \in Input : /\ chain = <<i>>
                               /\ IF current = NoInput
                                  THEN Waits(log', i) \/ In(log', "cancelled", i)
                                  ELSE current = i
    BY <2>1 DEF Inv, Pumps
  <2> QED
    BY <2>2, <2>3 DEF Pumps, Waits, In
<1>5. AnswerIsOwn'
  BY AnswersStay DEF AnswerIsOwn
<1> QED
  BY <1>1, <1>2, <1>3, <1>4, <1>5 DEF Inv

LEMMA AdmissionStep ==
  ASSUME Inv, NEW i \in Input, ~Has("admitted", i), log' = Append(log, Event("admitted", i))
  PROVE  /\ Grows(log, log')
         /\ \A j \in Input : Waits(log, j) => Waits(log', j)
<1>1. GoodLog(log) /\ ~In(log, "admitted", i)
  BY DEF Inv, Has, In
<1> QED
  BY <1>1, AdmissionGrows DEF Grows

LEMMA SubmitStep ==
  ASSUME Inv, NEW i \in Input, Submit(i)
  PROVE  Inv'
<1> USE DEF Submit
<1>1. Grows(log, log')
  BY AdmissionStep
<1>2. GoodLog(log)' /\ Lost'
  BY <1>1, LogGrows
<1>3. /\ Turns' /\ DoneIsDurable' /\ log' \in Seq(Events) /\ durable' \in 0..Len(log')
      /\ phase' \in [at : {"none", "steps", "saving"}, target : 0..Len(log'), ok : BOOLEAN]
  BY <1>1, TurnGoesOn
<1>4. chain' = Append(chain, First) /\ chain \in Seq(Input \cup {First})
  BY DEF Push, Inv, TypeOK
<1>5. TypeOK'
  <2>1. chain' \in Seq(Input \cup {First}) /\ signals' \subseteq Signalled
    BY <1>4 DEF Hand, Inv, TypeOK
  <2> QED
    BY <1>3, <2>1 DEF Inv, TypeOK, Events
<1>6. Pumps'
  <2>1. \A n \in DOMAIN chain : chain[n] = First
    BY DEF Inv, Pumps
  <2>2. chain' # <<>> /\ \A n \in DOMAIN chain' : chain'[n] = First
    BY <1>4, <2>1
  <2> QED
    BY <2>2 DEF Pumps
<1>7. AnswerIsOwn'
  BY <1>1, AnswersStay DEF AnswerIsOwn
<1> QED
  BY <1>2, <1>3, <1>5, <1>6, <1>7 DEF Inv

LEMMA AdmitStep ==
  ASSUME Inv, NEW i \in Input, Admit(i)
  PROVE  Inv'
<1>1. Grows(log, log') /\ \A j \in Input : Waits(log, j) => Waits(log', j)
  BY AdmissionStep DEF Admit
<1> QED
  BY <1>1, LogStep DEF Admit

LEMMA CancelGrows ==
  ASSUME Inv, NEW i \in Input, Cancel(i)
  PROVE  /\ Grows(log, log')
         /\ \A j \in Input : Waits(log, j) => Waits(log', j) \/ In(log', "cancelled", j)
<1>1. <<i>> \in Seq(Input) /\ Distinct(<<i>>) /\ ToSet(<<i>>) = {i}
  BY DEF Distinct, ToSet
<1>2. GoodLog(log) /\ Waits(log, i)
  BY PendingFacts DEF Cancel, Inv
<1>3. /\ Handles(log, log \o Mark("cancelled", <<i>>), {i})
      /\ In(log \o Mark("cancelled", <<i>>), "cancelled", i)
  <2>1. \A j \in ToSet(<<i>>) : Waits(log, j)
    BY <1>1, <1>2
  <2>2. /\ Handles(log, log \o Mark("cancelled", <<i>>), ToSet(<<i>>))
        /\ \A j \in ToSet(<<i>>) : In(log \o Mark("cancelled", <<i>>), "cancelled", j)
    BY <1>1, <1>2, <2>1, CancellationsGrow
  <2> QED
    BY <1>1, <2>2
<1>4. log' = log \o Mark("cancelled", <<i>>)
  <2>1. Mark("cancelled", <<i>>) = <<Event("cancelled", i)>>
    BY DEF Mark
  <2>2. log \in Seq(Events) /\ Event("cancelled", i) \in Events
    BY <1>2 DEF GoodLog, Event, Events
  <2>3. \A e \in Events : log \o <<e>> = Append(log, e)
    BY <2>2
  <2> QED
    BY <2>1, <2>2, <2>3 DEF Cancel
<1> QED
  BY <1>3, <1>4, HandlesGrows DEF Handles

LEMMA CancelStep ==
  ASSUME Inv, NEW i \in Input, Cancel(i)
  PROVE  Inv'
BY CancelGrows, LogStep DEF Cancel

LEMMA StepClaimsStep ==
  ASSUME Inv, StepClaims
  PROVE  Inv'
<1>1. Grows(log, log')
  BY StepClaimsGrows DEF Inv
<1>2. current # NoInput
  BY DEF StepClaims, Inv, TypeOK
<1> QED
  BY <1>1, <1>2, LogStep DEF StepClaims

(* The service asks for an input that waits; it has not failed.              *)
LEMMA RunAdmittedStep ==
  ASSUME Inv, NEW i \in Input, RunAdmitted(i)
  PROVE  Inv'
<1> USE DEF RunAdmitted, Ask
<1>1. Grows(log, log')
  BY GrowsNot DEF Inv
<1>2. GoodLog(log)' /\ Lost'
  BY <1>1, LogGrows
<1>3. /\ Turns' /\ DoneIsDurable' /\ log' \in Seq(Events) /\ durable' \in 0..Len(log')
      /\ phase' \in [at : {"none", "steps", "saving"}, target : 0..Len(log'), ok : BOOLEAN]
  BY <1>1, TurnGoesOn
<1>4. Waits(log, i)
  BY PendingFacts DEF Inv
<1>5. chain' = <<i>> /\ current = NoInput
  BY DEF Push, Inv, Pumps
<1>6. TypeOK'
  <2>1. chain' \in Seq(Input \cup {First}) /\ signals' \subseteq Signalled
    BY <1>5 DEF Hand, Inv, TypeOK
  <2>2. answer' \in [Input -> {"none", "waiting", "resolved", "rejected"}]
    BY DEF Inv, TypeOK
  <2> QED
    BY <1>3, <2>1, <2>2 DEF Inv, TypeOK, Events
<1>7. Pumps'
  <2>1. Waits(log', i)
    BY <1>4
  <2>2. host = "service" /\ ~halted /\ host' = host /\ halted' = halted /\ current' = current
    BY DEF Inv, Pumps
  <2>3. chain' # <<>>
    BY <1>5
  <2> QED
    BY <1>5, <2>1, <2>2, <2>3 DEF Pumps, Waits, In
<1>8. AnswerIsOwn'
  <2> SUFFICES ASSUME NEW j \in Input
               PROVE  /\ answer'[j] = "resolved" => j \notin failed'
                      /\ answer'[j] = "rejected" => j \in failed' \cup aborted' \/ Has("cancelled", j)'
    BY DEF AnswerIsOwn
  <2>1. answer' = [answer EXCEPT ![i] = "waiting"] /\ DOMAIN answer = Input
    BY DEF Inv, TypeOK
  <2>2. CASE j = i
    BY <2>1, <2>2
  <2>3. CASE j # i
    BY <1>1, <2>1, <2>3, AnswersStay
  <2> QED
    BY <2>2, <2>3
<1> QED
  BY <1>2, <1>3, <1>6, <1>7, <1>8 DEF Inv

(* Steps of the caller that only signal. *)
LEMMA SignalStep ==
  ASSUME Inv,
         UNCHANGED <<host, log, durable, chain, current, phase, signals, lastError, answer,
                     restarts, submitted, failed, done, strayed>>,
         aborted \subseteq aborted', aborted' \subseteq Signalled,
         {stop', halted'} \subseteq BOOLEAN, host = "service" => ~halted'
  PROVE  Inv'
<1>1. Grows(log, log')
  BY GrowsNot DEF Inv
<1>2. GoodLog(log)' /\ Lost'
  BY <1>1, LogGrows
<1>3. /\ Turns' /\ DoneIsDurable' /\ log' \in Seq(Events) /\ durable' \in 0..Len(log')
      /\ phase' \in [at : {"none", "steps", "saving"}, target : 0..Len(log'), ok : BOOLEAN]
  BY <1>1, TurnGoesOn
<1>4. TypeOK'
  BY <1>3 DEF Inv, TypeOK, Events
<1>5. Pumps'
  BY DEF Inv, Pumps, Waits, In
<1>6. AnswerIsOwn'
  BY <1>1, AnswersStay DEF AnswerIsOwn
<1> QED
  BY <1>2, <1>3, <1>4, <1>5, <1>6 DEF Inv

LEMMA CallerStep ==
  ASSUME Inv, CancelCurrent \/ Halt \/ \E i \in Input : AbortWaiting(i)
  PROVE  Inv'
<1>1. {stop, halted} \subseteq BOOLEAN /\ aborted \subseteq Signalled /\ signals \subseteq Signalled
      /\ (host = "service" => ~halted)
  BY DEF Inv, TypeOK, Pumps
<1>2. CASE CancelCurrent
  BY <1>1, <1>2, SignalStep DEF CancelCurrent
<1>3. CASE Halt
  <2>1. stop' \in BOOLEAN /\ halted' = TRUE
    BY <1>1, <1>3 DEF Halt
  <2>2. aborted' = aborted /\ host # "service"
    BY <1>3 DEF Halt
  <2> QED
    BY <1>1, <1>3, <2>1, <2>2, SignalStep DEF Halt
<1>4. ASSUME NEW i \in Input, AbortWaiting(i) PROVE Inv'
  BY <1>1, <1>4, SignalStep DEF AbortWaiting
<1> QED
  BY <1>2, <1>3, <1>4

-----------------------------------------------------------------------------
LEMMA CancelledIsNotTaken ==
  ASSUME NEW l, GoodLog(l), NEW i, In(l, "cancelled", i)
  PROVE  ~In(l, "promoted", i)
<1> SUFFICES ASSUME In(l, "promoted", i) PROVE FALSE
  OBVIOUS
<1>1. PICK m \in DOMAIN l : l[m] = Event("promoted", i)
  BY DEF In
<1>2. PICK n \in DOMAIN l : l[n] = Event("cancelled", i)
  BY DEF In
<1>3. l[m].kind = "promoted" /\ l[m].input = i /\ l[n].kind = "cancelled" /\ l[n].input = i
  BY <1>1, <1>2 DEF Event
<1>4. ~(m \in 1..n - 1) /\ ~(n \in 1..m - 1)
  BY <1>1, <1>2, <1>3 DEF GoodLog, Orderly, Earlier
<1>5. m \in Nat /\ n \in Nat /\ m >= 1 /\ n >= 1 /\ m # n
  BY <1>3 DEF GoodLog
<1> QED
  BY <1>4, <1>5

LEMMA DoneStays ==
  ASSUME Inv, Grows(log, log'), UNCHANGED <<host, restarts, durable, done>>
  PROVE  DoneIsDurable' /\ durable' \in 0..Len(log')
<1>1. /\ Len(log) \in Nat /\ Len(log') \in Nat /\ Len(log) <= Len(log')
      /\ \A n \in 1..Len(log) : log'[n] = log[n]
  BY LogGrows
<1>2. durable \in 0..Len(log)
  BY DEF Inv, TypeOK
<1>3. \A n \in 1..durable : log'[n] = log[n]
  BY <1>1, <1>2
<1> QED
  BY <1>1, <1>2, <1>3 DEF Inv, DoneIsDurable

(* The first pump, and what is left of the chain when it ends.               *)
LEMMA HeadOfChain ==
  ASSUME Inv, chain # <<>>
  PROVE  /\ Behind \in Seq(Input \cup {First})
         /\ host = "cli" => Head(chain) = First /\ \A n \in DOMAIN Behind : Behind[n] = First
         /\ host = "service" => Behind = <<>> /\ Head(chain) \in Input /\ chain = <<Head(chain)>>
         /\ Head(chain) # First => host = "service"
         /\ Head(chain) \in Input => Head(chain) # First
<1>1. chain \in Seq(Input \cup {First}) /\ host \in {"cli", "service"}
  BY DEF Inv, TypeOK
<1>2. Behind \in Seq(Input \cup {First})
  BY <1>1 DEF Behind
<1>3. host = "cli" => Head(chain) = First /\ \A n \in DOMAIN Behind : Behind[n] = First
  BY <1>1 DEF Behind, Inv, Pumps
<1>4. host = "service" => Behind = <<>> /\ Head(chain) \in Input /\ chain = <<Head(chain)>>
  <2> SUFFICES ASSUME host = "service"
               PROVE  Behind = <<>> /\ Head(chain) \in Input /\ chain = <<Head(chain)>>
    OBVIOUS
  <2>1. PICK i \in Input : chain = <<i>>
    BY DEF Inv, Pumps
  <2>2. Head(<<i>>) = i /\ Tail(<<i>>) = <<>>
    OBVIOUS
  <2> QED
    BY <2>1, <2>2 DEF Behind
<1> QED
  BY <1>1, <1>2, <1>3, <1>4, LaneAssumption

(* An answer is given for the pump that ends, if it was asked for an input.  *)
LEMMA AnsweredFacts ==
  ASSUME Inv, chain # <<>>, NEW error, Answered(error)
  PROVE  /\ answer' \in [Input -> {"none", "waiting", "resolved", "rejected"}]
         /\ \A j \in Input : j # Head(chain) => answer'[j] = answer[j]
         /\ Head(chain) \in Input =>
               answer'[Head(chain)] = IF error THEN "rejected" ELSE "resolved"
<1>1. answer \in [Input -> {"none", "waiting", "resolved", "rejected"}]
  BY DEF Inv, TypeOK
<1>2. Head(chain) \in Input => Head(chain) # First
  BY HeadOfChain
<1>3. CASE Head(chain) = First
  BY <1>1, <1>2, <1>3 DEF Answered
<1>4. CASE Head(chain) # First
  <2>1. answer' = [answer EXCEPT ![Head(chain)] = IF error THEN "rejected" ELSE "resolved"]
    BY <1>4 DEF Answered
  <2>2. (IF error THEN "rejected" ELSE "resolved") \in {"none", "waiting", "resolved", "rejected"}
    OBVIOUS
  <2> QED
    BY <1>1, <2>1, <2>2
<1> QED
  BY <1>3, <1>4

LEMMA PumpEndsStep ==
  ASSUME Inv, PumpEnds
  PROVE  Inv'
<1> DEFINE i == Head(chain)
<1>1. /\ Grows(log, log')
      /\ ~halted /\ i \in Input => ~Waits(log, i) \/ CutOff(i)
  BY PumpEndsGrows DEF Inv
<1>2. GoodLog(log)' /\ Lost' /\ \A kind, j : In(log, kind, j) => In(log', kind, j)
  BY <1>1, LogGrows DEF PumpEnds
<1>3. /\ Turns' /\ DoneIsDurable' /\ log' \in Seq(Events) /\ durable' \in 0..Len(log')
      /\ phase' \in [at : {"none", "steps", "saving"}, target : 0..Len(log'), ok : BOOLEAN]
  BY <1>1, TurnGoesOn DEF PumpEnds
<1>4. /\ chain # <<>> /\ current = NoInput /\ current' = NoInput /\ chain' = Behind
      /\ Answered(lastError)
  BY DEF PumpEnds
<1>5. /\ answer' \in [Input -> {"none", "waiting", "resolved", "rejected"}]
      /\ \A j \in Input : j # i => answer'[j] = answer[j]
      /\ i \in Input => answer'[i] \in {"rejected", "resolved"}
  BY <1>4, AnsweredFacts
<1>6. /\ Behind \in Seq(Input \cup {First})
      /\ host = "cli" => \A n \in DOMAIN Behind : Behind[n] = First
      /\ host = "service" => Behind = <<>> /\ chain = <<i>> /\ i \in Input
      /\ i # First => host = "service"
      /\ i \in Input => i # First
  BY <1>4, HeadOfChain
<1>7. TypeOK'
  <2>1. signals' \subseteq signals
    BY DEF PumpEnds
  <2> QED
    BY <1>3, <1>4, <1>5, <1>6, <2>1 DEF Inv, TypeOK, Events, PumpEnds
<1>8. Pumps'
  <2>1. host' = host /\ halted' = halted
    BY DEF PumpEnds
  <2> QED
    BY <1>4, <1>6, <2>1 DEF Pumps, Inv
<1>9. AnswerIsOwn'
  <2> SUFFICES ASSUME NEW j \in Input
               PROVE  /\ answer'[j] = "resolved" => j \notin failed'
                      /\ answer'[j] = "rejected" => j \in failed' \cup aborted' \/ Has("cancelled", j)'
    BY DEF AnswerIsOwn
  <2>1. UNCHANGED <<host, restarts, failed, aborted>>
    BY DEF PumpEnds
  <2>2. CASE j # i
    BY <1>1, <1>5, <2>1, <2>2, AnswersStay
  <2>3. CASE j = i
    <3>1. host = "service" /\ ~halted
      BY <1>6, <2>3 DEF Inv, Pumps
    <3>2. Waits(log, i) \/ In(log, "cancelled", i)
      <4>1. PICK k \in Input : chain = <<k>> /\ (Waits(log, k) \/ In(log, "cancelled", k))
        BY <1>4, <3>1 DEF Inv, Pumps
      <4>2. Head(<<k>>) = k
        OBVIOUS
      <4> QED
        BY <4>1, <4>2
    <3>3. ~In(log, "promoted", i)
      BY <3>2, CancelledIsNotTaken DEF Inv, Waits
    <3>4. i \notin failed'
      BY <2>1, <3>3 DEF Inv, Turns
    <3>5. In(log', "cancelled", i) \/ i \in aborted'
      BY <1>1, <1>2, <2>1, <2>3, <3>1, <3>2 DEF CutOff
    <3> QED
      BY <2>3, <3>4, <3>5 DEF Has, In
  <2> QED
    BY <2>2, <2>3
<1> QED
  BY <1>2, <1>3, <1>7, <1>8, <1>9 DEF Inv

LEMMA PumpRunsStep ==
  ASSUME Inv, PumpRuns
  PROVE  Inv'
<1>1. /\ Grows(log, log') /\ current' \in Input /\ Waits(log, current')
      /\ In(log', "promoted", current') /\ In(log', "message", current')
      /\ host = "service" => chain = <<current'>>
  BY PumpRunsGrows DEF Inv, TypeOK
<1>2. /\ GoodLog(log)' /\ Lost' /\ log' \in Seq(Events) /\ Len(log') \in Nat
      /\ \A kind, j : In(log, kind, j) => In(log', kind, j)
  BY <1>1, LogGrows DEF PumpRuns
<1>3. DoneIsDurable' /\ durable' \in 0..Len(log')
  BY <1>1, DoneStays DEF PumpRuns
<1>4. phase' = Steps \/ phase' = Saving(log', FALSE)
  BY DEF PumpRuns
<1>5. /\ phase' \in [at : {"none", "steps", "saving"}, target : 0..Len(log'), ok : BOOLEAN]
      /\ phase'.at # "none" /\ ~(phase'.at = "saving" /\ phase'.ok)
  <2>1. CASE phase' = Steps
    <3>1. 0 \in 0..Len(log')
      BY <1>2
    <3>2. Idle \in [at : {"none", "steps", "saving"}, target : 0..Len(log'), ok : BOOLEAN]
      BY <3>1 DEF Idle
    <3>3. /\ Steps \in [at : {"none", "steps", "saving"}, target : 0..Len(log'), ok : BOOLEAN]
          /\ Steps.at = "steps"
      BY <3>2 DEF Steps
    <3> QED
      BY <2>1, <3>3
  <2>2. CASE phase' = Saving(log', FALSE)
    BY <1>2, <2>2 DEF Saving
  <2> QED
    BY <1>4, <2>1, <2>2
<1>6. /\ UNCHANGED <<host, durable, chain, aborted, stop, lastError, halted, answer, restarts,
                     submitted, failed, done, strayed>>
      /\ chain # <<>> /\ signals' \subseteq signals
  BY DEF PumpRuns
<1>7. TypeOK'
  BY <1>1, <1>2, <1>3, <1>5, <1>6, LaneAssumption DEF Inv, TypeOK, Events
<1>8. Pumps'
  <2>1. current' # NoInput
    BY <1>1, LaneAssumption
  <2> QED
    BY <1>1, <1>6, <2>1 DEF Inv, Pumps
<1>9. Turns'
  <2>1. current' \notin failed
    BY <1>1 DEF Inv, Turns, Waits
  <2>2. \A j \in failed' : In(log', "promoted", j)
    BY <1>2, <1>6 DEF Inv, Turns
  <2> QED
    BY <1>1, <1>5, <1>6, <2>1, <2>2 DEF Turns, In
<1>10. AnswerIsOwn'
  BY <1>1, <1>6, AnswersStay DEF AnswerIsOwn
<1> QED
  BY <1>2, <1>3, <1>7, <1>8, <1>9, <1>10 DEF Inv

LEMMA TurnClosesStep ==
  ASSUME Inv, TurnCloses
  PROVE  Inv'
<1>1. PICK ok \in BOOLEAN : phase' = [at |-> "saving", target |-> Len(log), ok |-> ok]
  BY DEF TurnCloses, Saving
<1>2. /\ UNCHANGED <<host, log, durable, chain, current, signals, aborted, stop, lastError,
                     halted, answer, restarts, submitted, failed, done, strayed>>
      /\ phase.at = "steps"
  BY DEF TurnCloses
<1>3. log \in Seq(Events) /\ Len(log) \in Nat /\ DOMAIN log = 1..Len(log)
  BY DEF Inv, GoodLog
<1>4. current # NoInput
  BY <1>2 DEF Inv, TypeOK
<1>5. TypeOK'
  <2>1. phase' \in [at : {"none", "steps", "saving"}, target : 0..Len(log'), ok : BOOLEAN]
    BY <1>1, <1>2, <1>3
  <2>2. phase'.at # "none"
    BY <1>1
  <2> QED
    BY <1>2, <1>4, <2>1, <2>2 DEF Inv, TypeOK
<1>6. GoodLog(log)' /\ Lost' /\ Pumps'
  BY <1>2 DEF Inv, GoodLog, Lost, LostOf, Pumps, In, Waits
<1>7. Turns'
  <2>1. PICK n \in 1..Len(log) : log[n] = Event("message", current)
    BY <1>3, <1>4 DEF Inv, Turns, In
  <2>2. phase'.target = Len(log)
    BY <1>1
  <2>3. \E k \in 1..phase'.target : log[k] = Event("message", current)
    BY <2>1, <2>2
  <2> QED
    BY <1>2, <2>3 DEF Inv, Turns, In
<1>8. AnswerIsOwn' /\ DoneIsDurable'
  BY <1>2 DEF Inv, AnswerIsOwn, DoneIsDurable, Has
<1> QED
  BY <1>5, <1>6, <1>7, <1>8 DEF Inv

(* However the turn ends: what is on disk has been dealt with.               *)
LEMMA TurnSettlesStep ==
  ASSUME Inv, phase.at # "none", NEW ok \in BOOLEAN, TurnSettles(ok),
         durable' \in 0..Len(log), DoneIsDurable'
  PROVE  Inv'
<1> DEFINE i == Head(chain)
<1>1. /\ UNCHANGED <<host, log, signals, aborted, halted, restarts, submitted>>
      /\ current' = NoInput /\ phase' = Idle /\ stop' = FALSE /\ lastError' = ~ok
      /\ failed' = IF ok THEN failed ELSE failed \cup ({current} \cap {i})
      /\ done' = IF ok THEN done \cup {current} ELSE done
      /\ (ok /\ i = First /\ chain' = chain /\ answer' = answer)
         \/ (~(ok /\ i = First) /\ chain' = Behind /\ Answered(~ok))
      /\ strayed' = (strayed \/ (~ok /\ i = First /\ current \notin submitted))
  BY DEF TurnSettles, Remembered
<1>2. current # NoInput /\ current \in Input /\ chain # <<>>
  BY DEF Inv, TypeOK, Pumps
<1>3. /\ Behind \in Seq(Input \cup {First})
      /\ host = "cli" => i = First /\ \A n \in DOMAIN Behind : Behind[n] = First
      /\ host = "service" => Behind = <<>> /\ chain = <<i>> /\ i \in Input
      /\ i # First => host = "service"
      /\ i \in Input => i # First
  BY <1>2, HeadOfChain
<1>4. host = "service" => i = current
  <2> SUFFICES ASSUME host = "service" PROVE i = current
    OBVIOUS
  <2>1. chain = <<current>>
    BY <1>2 DEF Inv, Pumps
  <2>2. Head(<<current>>) = current
    OBVIOUS
  <2> QED
    BY <2>1, <2>2
<1>5. i = First => ~(current = i)
  BY <1>2, LaneAssumption
<1>6. answer' \in [Input -> {"none", "waiting", "resolved", "rejected"}]
  <2>1. CASE answer' = answer
    BY <2>1 DEF Inv, TypeOK
  <2>2. CASE Answered(~ok)
    BY <1>2, <2>2, AnsweredFacts
  <2> QED
    BY <1>1, <2>1, <2>2
<1>7. TypeOK'
  <2>1. Idle = [at |-> "none", target |-> 0, ok |-> TRUE] /\ 0 \in 0..Len(log)
    <3>1. Len(log) \in Nat
      BY DEF Inv, GoodLog
    <3> QED
      BY <3>1 DEF Idle
  <2>2. phase' \in [at : {"none", "steps", "saving"}, target : 0..Len(log'), ok : BOOLEAN]
        /\ phase'.at = "none"
    BY <1>1, <2>1
  <2>3. chain' \in Seq(Input \cup {First})
    BY <1>1, <1>3 DEF Inv, TypeOK
  <2>4. {stop', lastError', halted', strayed'} \subseteq BOOLEAN
    <3>1. stop' \in BOOLEAN /\ lastError' \in BOOLEAN /\ strayed' \in BOOLEAN
      BY <1>1
    <3>2. halted' \in BOOLEAN
      BY <1>1 DEF Inv, TypeOK
    <3> QED
      BY <3>1, <3>2
  <2>5. submitted' \cup failed' \cup done' \subseteq Input
    <3>1. submitted \cup failed \cup done \subseteq Input
      BY DEF Inv, TypeOK
    <3> QED
      BY <1>1, <1>2, <3>1
  <2> QED
    BY <1>1, <1>6, <2>2, <2>3, <2>4, <2>5 DEF Inv, TypeOK
<1>8. GoodLog(log)' /\ Lost'
  BY <1>1 DEF Inv, GoodLog, Lost, LostOf, In
<1>9. Pumps'
  <2>1. host = "cli" => \A n \in DOMAIN chain' : chain'[n] = First
    BY <1>1, <1>3 DEF Inv, Pumps
  <2>2. host = "service" => chain' = <<>>
    BY <1>1, <1>3
  <2>3. host = "service" => ~halted
    BY DEF Inv, Pumps
  <2> QED
    BY <1>1, <2>1, <2>2, <2>3 DEF Pumps
<1>10. Turns'
  <2>1. \A j \in failed' : In(log, "promoted", j)
    BY <1>1, <1>2 DEF Inv, Turns
  <2>2. NoInput \notin failed'
    <3>1. failed' \subseteq Input
      BY <1>1, <1>2 DEF Inv, TypeOK
    <3> QED
      BY <3>1, LaneAssumption
  <2>3. phase'.at # "saving"
    BY <1>1 DEF Idle
  <2> QED
    BY <1>1, <2>1, <2>2, <2>3 DEF Turns, In
<1>11. AnswerIsOwn'
  <2> SUFFICES ASSUME NEW j \in Input
               PROVE  /\ answer'[j] = "resolved" => j \notin failed'
                      /\ answer'[j] = "rejected" => j \in failed' \cup aborted' \/ Has("cancelled", j)'
    BY DEF AnswerIsOwn
  <2>1. Grows(log, log')
    BY <1>1, GrowsNot DEF Inv
  <2>2. CASE i = First
    <3>1. failed' = failed /\ answer'[j] = answer[j]
      BY <1>1, <1>5, <2>2 DEF Answered
    <3> QED
      BY <1>1, <2>1, <3>1, AnswersStay
  <2>3. CASE i # First
    <3>1. i = current /\ i \in Input
      BY <1>3, <1>4, <2>3
    <3>2. Answered(~ok)
      BY <1>1, <2>3
    <3>3. /\ \A k \in Input : k # i => answer'[k] = answer[k]
          /\ answer'[i] = IF ~ok THEN "rejected" ELSE "resolved"
      BY <1>2, <3>1, <3>2, AnsweredFacts
    <3>4. CASE j = i
      BY <1>1, <3>1, <3>3, <3>4 DEF Inv, Turns
    <3>5. CASE j # i
      <4>1. j \in failed' <=> j \in failed
        BY <1>1, <3>1, <3>5
      <4> QED
        BY <1>1, <3>3, <3>5, <4>1 DEF Inv, AnswerIsOwn, Has
    <3> QED
      BY <3>4, <3>5
  <2> QED
    BY <2>2, <2>3
<1> QED
  BY <1>7, <1>8, <1>9, <1>10, <1>11 DEF Inv

LEMMA TurnStep ==
  ASSUME Inv, Turn
  PROVE  Inv'
<1>1. /\ durable \in 0..Len(log) /\ Len(log) \in Nat
      /\ phase \in [at : {"none", "steps", "saving"}, target : 0..Len(log), ok : BOOLEAN]
  BY DEF Inv, TypeOK, GoodLog
<1>2. CASE TurnCloses
  BY <1>2, TurnClosesStep
<1>3. CASE TurnSaved
  <2>1. /\ durable' \in 0..Len(log) /\ 1..durable \subseteq 1..durable'
        /\ 1..phase.target \subseteq 1..durable'
    BY <1>1, <1>3 DEF TurnSaved
  <2>2. log' = log /\ done' = IF phase.ok THEN done \cup {current} ELSE done
    BY <1>3 DEF TurnSaved, TurnSettles
  <2>3. phase.ok => \E n \in 1..phase.target : log[n] = Event("message", current)
    BY <1>3 DEF TurnSaved, Inv, Turns
  <2>4. DoneIsDurable'
    BY <2>1, <2>2, <2>3 DEF Inv, DoneIsDurable
  <2> QED
    BY <1>1, <1>3, <2>1, <2>4, TurnSettlesStep DEF TurnSaved
<1>4. CASE TurnNotSaved \/ StopHookThrows
  <2>1. durable' = durable /\ TurnSettles(FALSE) /\ phase.at # "none"
    BY <1>4 DEF TurnNotSaved, StopHookThrows
  <2>2. log' = log /\ done' = done
    BY <2>1 DEF TurnSettles
  <2>3. DoneIsDurable'
    BY <2>1, <2>2 DEF Inv, DoneIsDurable
  <2> QED
    BY <1>1, <2>1, <2>3, TurnSettlesStep
<1> QED
  BY <1>2, <1>3, <1>4 DEF Turn

(* A restart goes on from a prefix that holds whatever was on disk.          *)
LEMMA RestartStep ==
  ASSUME Inv, Restart
  PROVE  Inv'
<1>1. /\ durable' \in durable..Len(log) /\ log' = SubSeq(log, 1, durable')
      /\ chain' = <<>> /\ current' = NoInput /\ phase' = Idle /\ signals' = {} /\ aborted' = {}
      /\ stop' = FALSE /\ lastError' = FALSE /\ halted' = FALSE
      /\ answer' = [i \in Input |-> "none"]
      /\ restarts < MaxRestarts /\ restarts' = restarts + 1
      /\ submitted' = {} /\ failed' = {} /\ strayed' = FALSE
      /\ host' = host /\ done' = done
  BY DEF Restart, Kept
<1>2. /\ durable \in 0..Len(log) /\ Len(log) \in Nat /\ GoodLog(log)
      /\ restarts \in 0..MaxRestarts /\ MaxRestarts \in Nat
  BY LaneAssumption DEF Inv, TypeOK, GoodLog
<1>3. durable' \in 0..Len(log) /\ durable' \in Nat /\ durable <= durable'
  BY <1>1, <1>2
<1>4. /\ GoodLog(log') /\ Extends(log', log) /\ Len(log') = durable'
      /\ \E x : LostOf(log') \subseteq LostOf(log) \cup {x}
  BY <1>1, <1>2, <1>3, PrefixIsGood
<1>5. log' \in Seq(Events) /\ DOMAIN log' = 1..durable' /\ \A n \in 1..durable' : log'[n] = log[n]
  BY <1>4 DEF GoodLog, Extends
<1>6. TypeOK'
  <2>1. phase' \in [at : {"none", "steps", "saving"}, target : 0..Len(log'), ok : BOOLEAN]
        /\ phase'.at = "none"
    <3>1. 0 \in 0..Len(log')
      BY <1>3, <1>4
    <3> QED
      BY <1>1, <3>1 DEF Idle
  <2>2. durable' \in 0..Len(log') /\ restarts' \in 0..MaxRestarts
    <3>1. durable' \in 0..Len(log')
      BY <1>3, <1>4
    <3>2. restarts' \in 0..MaxRestarts
      BY <1>1, <1>2
    <3> QED
      BY <3>1, <3>2
  <2>3. chain' \in Seq(Input \cup {First}) /\ {stop', lastError', halted', strayed'} \subseteq BOOLEAN
    <3>1. <<>> \in Seq(Input \cup {First})
      OBVIOUS
    <3>2. {stop', lastError', halted', strayed'} \subseteq BOOLEAN
      BY <1>1
    <3> QED
      BY <1>1, <3>1, <3>2
  <2>4. answer' \in [Input -> {"none", "waiting", "resolved", "rejected"}]
    BY <1>1
  <2>5. host' \in {"cli", "service"} /\ submitted' \cup failed' \cup done' \subseteq Input
    BY <1>1 DEF Inv, TypeOK
  <2> QED
    BY <1>1, <1>5, <2>1, <2>2, <2>3, <2>4, <2>5 DEF TypeOK, Events
<1>7. GoodLog(log)'
  BY <1>1, <1>4 DEF GoodLog
<1>8. Lost'
  <2>1. PICK x : LostOf(log') \subseteq LostOf(log) \cup {x}
    BY <1>4
  <2>2. IsFiniteSet(LostOf(log)) /\ Cardinality(LostOf(log)) <= restarts
    BY DEF Inv, Lost
  <2>3. /\ IsFiniteSet(LostOf(log) \cup {x}) /\ Cardinality(LostOf(log)) \in Nat
        /\ Cardinality(LostOf(log) \cup {x}) <= Cardinality(LostOf(log)) + 1
    BY <2>2, FS_AddElement, FS_CardinalityType
  <2>4. /\ IsFiniteSet(LostOf(log')) /\ Cardinality(LostOf(log')) <= Cardinality(LostOf(log) \cup {x})
    BY <2>1, <2>3, FS_Subset
  <2>5. Cardinality(LostOf(log')) \in Nat /\ Cardinality(LostOf(log) \cup {x}) \in Nat
    BY <2>3, <2>4, FS_CardinalityType
  <2>6. Cardinality(LostOf(log')) <= restarts'
    BY <1>1, <1>2, <2>2, <2>3, <2>4, <2>5
  <2> QED
    BY <2>4, <2>6 DEF Lost, LostOf, In
<1>9. Pumps' /\ Turns'
  BY <1>1, LaneAssumption DEF Pumps, Turns, Idle
<1>10. AnswerIsOwn'
  BY <1>1 DEF AnswerIsOwn
<1>11. DoneIsDurable'
  <2>1. 1..durable \subseteq 1..durable'
    BY <1>2, <1>3
  <2>2. \A i \in done : \E n \in 1..durable : log[n] = Event("message", i)
    BY DEF Inv, DoneIsDurable
  <2>3. \A i \in done : \E n \in 1..durable' : log'[n] = Event("message", i)
    BY <1>5, <2>1, <2>2
  <2> QED
    BY <1>1, <2>3 DEF DoneIsDurable
<1> QED
  BY <1>6, <1>7, <1>8, <1>9, <1>10, <1>11 DEF Inv

LEMMA Stutters == Inv /\ UNCHANGED vars => Inv'
BY DEF vars, Inv, TypeOK, GoodLog, Lost, LostOf, Pumps, Turns, AnswerIsOwn, DoneIsDurable,
       In, Waits, Has

LEMMA LaneSteps == Inv /\ [Next]_vars => Inv'
<1> SUFFICES ASSUME Inv, [Next]_vars PROVE Inv'
  OBVIOUS
<1>1. ASSUME NEW i \in Input,
             Submit(i) \/ Admit(i) \/ RunAdmitted(i) \/ Cancel(i) \/ AbortWaiting(i)
      PROVE  Inv'
  BY <1>1, SubmitStep, AdmitStep, RunAdmittedStep, CancelStep, CallerStep
<1>2. CASE CancelCurrent \/ Halt
  BY <1>2, CallerStep
<1>3. CASE Pump
  BY <1>3, PumpEndsStep, PumpRunsStep DEF Pump
<1>4. CASE StepClaims
  BY <1>4, StepClaimsStep
<1>5. CASE Turn
  BY <1>5, TurnStep
<1>6. CASE Restart
  BY <1>6, RestartStep
<1>7. CASE UNCHANGED vars
  BY <1>7, Stutters
<1> QED
  BY <1>1, <1>2, <1>3, <1>4, <1>5, <1>6, <1>7 DEF Next

(* The invariant holds in every state, whatever the inputs and the hosts.    *)
THEOREM LaneInvariance == Spec => []Inv
BY Initially, LaneSteps, PTL DEF Spec

-----------------------------------------------------------------------------
(* Every variable keeps its type. *)
THEOREM TypeCorrect == Spec => []TypeOK
<1>1. Inv => TypeOK
  BY DEF Inv
<1> QED
  BY <1>1, LaneInvariance, PTL

LEMMA LogIsReadOnce == Inv => ReadOnce
<1> SUFFICES ASSUME Inv, NEW n \in DOMAIN log
             PROVE  LET e == log[n]
                        earlier(kind) == \E m \in 1..n - 1 : log[m] = Event(kind, e.input)
                    IN  CASE e.kind = "admitted" -> ~earlier("admitted")
                          [] e.kind = "promoted" \/ e.kind = "cancelled" ->
                                earlier("admitted") /\ ~earlier("promoted") /\ ~earlier("cancelled")
                          [] e.kind = "message" -> log[n - 1] = Event("promoted", e.input)
  BY DEF ReadOnce
<1>1. Orderly(log, n) /\ log[n] \in Events
  BY DEF Inv, GoodLog
<1>2. log[n].kind \in {"admitted", "promoted", "cancelled", "message"}
  BY <1>1, EventFields
<1> QED
  BY <1>1, <1>2 DEF Orderly, Earlier

(* An input is admitted, taken and read once, in this order, and never both  *)
(* taken and cancelled, over any number of restarts.                         *)
THEOREM InputsAreReadOnce == Spec => []ReadOnce
BY LogIsReadOnce, LaneInvariance, PTL

(* A restart loses one input at most. *)
THEOREM RestartsLoseOneEach == Spec => []OneLostPerRestart
<1>1. Inv => OneLostPerRestart
  BY DEF Inv, Lost, LostOf, OneLostPerRestart, Has, In
<1> QED
  BY <1>1, LaneInvariance, PTL

(* On the CLI's lane no queued input is read before one that came first. *)
THEOREM QueuedKeepTheirOrder == Spec => []NoOvertaking
<1>1. Inv => NoOvertaking
  BY DEF Inv, GoodLog, Overtakes, NoOvertaking, Precedes, Before, Has, In
<1> QED
  BY <1>1, LaneInvariance, PTL

(* The promise of runAdmitted tells of the caller's own input. *)
THEOREM AnswersAreOwn == Spec => []AnswerIsOwn
<1>1. Inv => AnswerIsOwn
  BY DEF Inv
<1> QED
  BY <1>1, LaneInvariance, PTL

(* What was reported to have succeeded is on disk and stays there. *)
THEOREM ReportedIsDurable == Spec => []DoneIsDurable
<1>1. Inv => DoneIsDurable
  BY DEF Inv
<1> QED
  BY <1>1, LaneInvariance, PTL

-----------------------------------------------------------------------------
(* Nobody waits at an idle lane: for every submission that waits, and for    *)
(* the one that runs, the chain has a pump.                                  *)
Unserved == {i \in submitted : Waits(log, i)} \cup ({current} \cap submitted)

Served ==
    /\ \A i \in submitted : In(log, "admitted", i)
    /\ host = "service" => submitted = {}
    /\ ~halted /\ ~strayed =>
          IsFiniteSet(Unserved) /\ Cardinality(Unserved) <= Len(chain)

(* Of an input that was admitted before: it waits no more than it did. *)
LEMMA WaitedBefore ==
  ASSUME NEW l, NEW new, Extends(l, new), NEW i, In(l, "admitted", i), Waits(new, i)
  PROVE  Waits(l, i)
BY ExtendsKeeps DEF Waits

LEMMA FewerUnserved ==
  ASSUME NEW S, IsFiniteSet(S), NEW T, T \subseteq S, NEW m \in Nat, NEW n \in Nat,
         Cardinality(S) <= m, m <= n
  PROVE  IsFiniteSet(T) /\ Cardinality(T) <= n
<1>1. IsFiniteSet(T) /\ Cardinality(T) <= Cardinality(S)
  BY FS_Subset
<1>2. Cardinality(T) \in Nat /\ Cardinality(S) \in Nat
  BY <1>1, FS_CardinalityType
<1> QED
  BY <1>1, <1>2

(* Steps that submit nothing and leave the chain and the turn alone. *)
LEMMA ServedStays ==
  ASSUME Inv, Served, Grows(log, log'), UNCHANGED <<host, submitted, strayed>>,
         halted => halted', Len(chain') \in Nat, Len(chain) <= Len(chain'),
         {current'} \cap submitted \subseteq Unserved
  PROVE  Served'
<1>1. /\ \A i \in submitted : In(log, "admitted", i)
      /\ Extends(log, log') /\ Len(chain) \in Nat
  BY DEF Served, Grows, Inv, TypeOK
<1>2. \A i \in submitted : In(log', "admitted", i) /\ (Waits(log', i) => Waits(log, i))
  BY <1>1, WaitedBefore, ExtendsKeeps
<1>3. {i \in submitted : Waits(log', i)} \cup ({current'} \cap submitted) \subseteq Unserved
  BY <1>2 DEF Unserved
<1>4. ~halted' /\ ~strayed' =>
         /\ IsFiniteSet({i \in submitted : Waits(log', i)} \cup ({current'} \cap submitted))
         /\ Cardinality({i \in submitted : Waits(log', i)} \cup ({current'} \cap submitted))
               <= Len(chain')
  BY <1>1, <1>3, FewerUnserved DEF Served
<1> QED
  BY <1>2, <1>4 DEF Served, Unserved, Waits, In

LEMMA SubmitServes ==
  ASSUME Inv, Served, NEW i \in Input, Submit(i)
  PROVE  Served'
<1> USE DEF Submit
<1>1. Grows(log, log')
  BY AdmissionStep
<1>2. /\ \A j \in submitted : In(log, "admitted", j)
      /\ Extends(log, log') /\ chain \in Seq(Input \cup {First})
  BY <1>1 DEF Served, Grows, Inv, TypeOK
<1>3. \A j \in submitted : In(log', "admitted", j) /\ (Waits(log', j) => Waits(log, j))
  BY <1>2, WaitedBefore, ExtendsKeeps
<1>4. In(log', "admitted", i)
  <2>1. log \in Seq(Events) /\ Event("admitted", i) \in Events
    BY DEF Inv, GoodLog, Event, Events
  <2>2. \A e \in Events : /\ Len(log) + 1 \in DOMAIN Append(log, e)
                          /\ Append(log, e)[Len(log) + 1] = e
    BY <2>1
  <2> QED
    BY <2>1, <2>2 DEF In
<1>5. Len(chain') = Len(chain) + 1 /\ Len(chain) \in Nat
  BY <1>2 DEF Push
<1> DEFINE new == {j \in submitted' : Waits(log', j)} \cup ({current'} \cap submitted')
<1>6. new \subseteq Unserved \cup {i}
  BY <1>3 DEF Unserved
<1>7. ASSUME ~halted, ~strayed PROVE IsFiniteSet(new) /\ Cardinality(new) <= Len(chain')
  <2> HIDE DEF new
  <2>1. IsFiniteSet(Unserved) /\ Cardinality(Unserved) <= Len(chain)
    BY <1>7 DEF Served
  <2>2. /\ IsFiniteSet(Unserved \cup {i}) /\ Cardinality(Unserved) \in Nat
        /\ Cardinality(Unserved \cup {i}) <= Cardinality(Unserved) + 1
    <3>1. Cardinality(Unserved) \in Nat
      BY <2>1, FS_CardinalityType
    <3>2. /\ IsFiniteSet(Unserved \cup {i})
          /\ Cardinality(Unserved \cup {i}) =
                IF i \in Unserved THEN Cardinality(Unserved) ELSE Cardinality(Unserved) + 1
      BY <2>1, FS_AddElement
    <3> QED
      BY <3>1, <3>2
  <2>3. Cardinality(Unserved \cup {i}) \in Nat
    BY <2>2, FS_CardinalityType
  <2>4. Cardinality(Unserved \cup {i}) <= Len(chain') /\ Len(chain') \in Nat
    BY <1>5, <2>1, <2>2, <2>3
  <2> QED
    BY <1>6, <2>2, <2>4, FewerUnserved
<1>8. host = "cli" /\ host' = host
  OBVIOUS
<1>9. \A j \in submitted' : In(log', "admitted", j)
  BY <1>3, <1>4
<1> QED
  BY <1>7, <1>8, <1>9 DEF Served, Unserved, Waits, In

(* A pump that ends leaves nobody: it cancelled all that still waited. *)
LEMMA PumpEndsServes ==
  ASSUME Inv, Served, PumpEnds
  PROVE  Served'
<1>1. Grows(log, log') /\ UNCHANGED <<host, submitted, strayed, halted, current>>
      /\ chain # <<>> /\ current = NoInput /\ chain' = Behind
  BY PumpEndsGrows DEF Inv, PumpEnds
<1>2. /\ \A i \in submitted : In(log, "admitted", i) /\ i \in Input
      /\ Extends(log, log')
  BY <1>1 DEF Served, Grows, Inv, TypeOK
<1>3. \A i \in submitted : In(log', "admitted", i) /\ (Waits(log', i) => Waits(log, i))
  BY <1>1, <1>2, WaitedBefore, ExtendsKeeps
<1>4. ASSUME ~halted, NEW i \in submitted PROVE ~Waits(log', i)
  <2>1. host = "cli" /\ Head(chain) = First
    BY <1>1, <1>4, HeadOfChain DEF Served, Inv, TypeOK
  <2>2. Chosen(Pending) = <<>> /\ log' = log \o Mark("cancelled", Dropped(Pending))
    BY <1>4 DEF PumpEnds
  <2>3. /\ Pending \in Seq(Input) /\ Distinct(Pending)
        /\ \A j : j \in ToSet(Pending) <=> j \in Input /\ Waits(log, j)
    BY PendingFacts DEF Inv
  <2>4. /\ Dropped(Pending) \in Seq(Input) /\ Distinct(Dropped(Pending))
        /\ ToSet(Dropped(Pending)) = ToSet(Pending)
    BY <1>1, <2>1, <2>2, <2>3, DroppedFacts
  <2>5. \A j \in ToSet(Dropped(Pending)) : In(log', "cancelled", j)
    BY <2>2, <2>3, <2>4, CancellationsGrow DEF Inv
  <2> QED
    BY <1>2, <1>3, <2>3, <2>4, <2>5 DEF Waits
<1>5. ASSUME ~halted
      PROVE  {i \in submitted : Waits(log', i)} \cup ({current} \cap submitted) = {}
  <2>1. NoInput \notin submitted
    BY <1>2, LaneAssumption
  <2> QED
    BY <1>1, <1>4, <1>5, <2>1
<1>6. Len(chain') \in Nat
  BY <1>1, HeadOfChain
<1>7. ~halted => /\ IsFiniteSet({i \in submitted : Waits(log', i)} \cup ({current} \cap submitted))
                 /\ Cardinality({i \in submitted : Waits(log', i)} \cup ({current} \cap submitted))
                       <= Len(chain')
  BY <1>5, <1>6, FS_EmptySet
<1> QED
  BY <1>1, <1>3, <1>7 DEF Served, Unserved, Waits, In

(* A turn that fails takes its pump along, and leaves no submission without  *)
(* one unless its input had none.                                            *)
LEMMA TurnSettlesServes ==
  ASSUME Inv, Served, phase.at # "none", NEW ok \in BOOLEAN, TurnSettles(ok)
  PROVE  Served'
<1> DEFINE i == Head(chain)
           new == {j \in submitted : Waits(log, j)}
<1>1. /\ UNCHANGED <<host, log, halted, submitted>> /\ current' = NoInput
      /\ (ok /\ i = First /\ chain' = chain) \/ (~(ok /\ i = First) /\ chain' = Behind)
      /\ strayed' = (strayed \/ (~ok /\ i = First /\ current \notin submitted))
  BY DEF TurnSettles
<1>2. current # NoInput /\ chain # <<>> /\ chain \in Seq(Input \cup {First})
  BY DEF Inv, TypeOK, Pumps
<1>3. NoInput \notin submitted
  BY LaneAssumption DEF Inv, TypeOK
<1>4. new = {j \in submitted : Waits(log, j)} \cup ({NoInput} \cap submitted) /\ new \subseteq Unserved
  BY <1>3 DEF Unserved
<1>5. Len(Behind) = Len(chain) - 1 /\ Len(Behind) \in Nat /\ Len(chain) \in Nat
  BY <1>2 DEF Behind
<1>6. ASSUME ~halted', ~strayed' PROVE IsFiniteSet(new) /\ Cardinality(new) <= Len(chain')
  <2>1. IsFiniteSet(Unserved) /\ Cardinality(Unserved) <= Len(chain)
    BY <1>1, <1>6 DEF Served
  <2>2. CASE ok /\ i = First
    <3>1. chain' = chain
      BY <1>1, <2>2
    <3> QED
      BY <1>4, <1>5, <2>1, <3>1, FewerUnserved
  <2>3. CASE i # First
    <3>1. host = "service"
      BY <1>2, <2>3, HeadOfChain
    <3>2. new = {}
      BY <3>1 DEF Served
    <3>3. chain' = Behind
      BY <1>1, <2>3
    <3> HIDE DEF new
    <3> QED
      BY <1>5, <3>2, <3>3, FS_EmptySet
  <2>4. CASE ~ok /\ i = First
    <3>1. current \in submitted /\ chain' = Behind
      BY <1>1, <1>6, <2>4
    <3>2. current \in Unserved /\ current \notin new
      BY <1>2, <3>1 DEF Unserved, Inv, Turns, Waits
    <3>3. new \subseteq Unserved \ {current}
      BY <1>4, <3>2
    <3>4. /\ IsFiniteSet(Unserved \ {current})
          /\ Cardinality(Unserved \ {current}) = Cardinality(Unserved) - 1
      BY <2>1, <3>2, FS_RemoveElement
    <3>5. Cardinality(Unserved) \in Nat
      BY <2>1, FS_CardinalityType
    <3>6. Cardinality(Unserved \ {current}) <= Len(Behind)
      BY <1>5, <2>1, <3>4, <3>5
    <3> HIDE DEF new
    <3> QED
      BY <1>5, <3>1, <3>3, <3>4, <3>6, FewerUnserved
  <2> QED
    BY <2>2, <2>3, <2>4
<1>7. Unserved' = new
  BY <1>1, <1>4 DEF Unserved, Waits, In
<1> HIDE DEF new
<1>8. /\ \A j \in submitted' : In(log, "admitted", j)
      /\ host' = "service" => submitted' = {}
  BY <1>1 DEF Served
<1> QED
  BY <1>1, <1>6, <1>7, <1>8 DEF Served, In

LEMMA ServedAlways == Inv /\ Served /\ [Next]_vars => Served'
<1> SUFFICES ASSUME Inv, Served, [Next]_vars PROVE Served'
  OBVIOUS
<1>1. Len(chain) \in Nat /\ {current} \cap submitted \subseteq Unserved
  BY DEF Inv, TypeOK, Unserved
<1>2. Grows(log, log)
  BY GrowsNot DEF Inv
<1>3. ASSUME NEW i \in Input, Submit(i) PROVE Served'
  BY <1>3, SubmitServes
<1>4. ASSUME NEW i \in Input, Admit(i) PROVE Served'
  BY <1>1, <1>4, AdmissionStep, ServedStays DEF Admit, memory
<1>5. ASSUME NEW i \in Input, Cancel(i) PROVE Served'
  BY <1>1, <1>5, CancelGrows, ServedStays DEF Cancel, memory
<1>6. ASSUME NEW i \in Input, RunAdmitted(i) PROVE Served'
  <2>1. chain \in Seq(Input \cup {First}) /\ chain' = Append(chain, i)
    BY <1>6 DEF RunAdmitted, Ask, Push, Inv, TypeOK
  <2>2. Len(chain') \in Nat /\ Len(chain) <= Len(chain')
    BY <2>1
  <2> QED
    BY <1>1, <1>2, <1>6, <2>2, ServedStays DEF RunAdmitted, Ask
<1>7. CASE CancelCurrent \/ Halt \/ \E i \in Input : AbortWaiting(i)
  <2>1. /\ UNCHANGED <<host, log, chain, current, submitted, strayed>>
        /\ halted => halted'
    BY <1>7 DEF CancelCurrent, Halt, AbortWaiting
  <2> QED
    BY <1>1, <1>2, <2>1, ServedStays
<1>8. CASE PumpEnds
  BY <1>8, PumpEndsServes
<1>9. CASE PumpRuns
  <2>1. Grows(log, log') /\ Waits(log, current')
    BY <1>9, PumpRunsGrows DEF Inv, TypeOK
  <2>2. {current'} \cap submitted \subseteq Unserved
    BY <2>1 DEF Unserved
  <2> QED
    BY <1>1, <1>9, <2>1, <2>2, ServedStays DEF PumpRuns
<1>10. CASE StepClaims
  BY <1>1, <1>10, StepClaimsGrows, ServedStays DEF StepClaims, memory, Inv
<1>11. CASE TurnCloses
  BY <1>1, <1>2, <1>11, ServedStays DEF TurnCloses
<1>12. CASE TurnSaved \/ TurnNotSaved \/ StopHookThrows
  <2>1. phase.at # "none" /\ phase.ok \in BOOLEAN
    BY <1>12 DEF TurnSaved, TurnNotSaved, StopHookThrows, Inv, TypeOK
  <2> QED
    BY <1>12, <2>1, TurnSettlesServes DEF TurnSaved, TurnNotSaved, StopHookThrows
<1>13. CASE Restart
  <2>1. submitted' = {} /\ chain' = <<>>
    BY <1>13 DEF Restart
  <2>2. Unserved' = {}
    BY <2>1 DEF Unserved
  <2>3. Len(chain') = 0
    BY <2>1
  <2> QED
    BY <2>1, <2>2, <2>3, FS_EmptySet DEF Served
<1>14. CASE UNCHANGED vars
  BY <1>14 DEF vars, Served, Unserved, Waits, In
<1> QED
  BY <1>3, <1>4, <1>5, <1>6, <1>7, <1>8, <1>9, <1>10, <1>11, <1>12, <1>13, <1>14
     DEF Next, Pump, Turn

(* An idle lane has no submission waiting. *)
THEOREM IdleLanesAreServed == Spec => []IdleLaneIsServed
<1>1. Init => Served
  <2> SUFFICES ASSUME Init PROVE Served
    OBVIOUS
  <2>1. submitted = {} /\ chain = <<>> /\ Len(<<>>) = 0
    BY DEF Init
  <2>2. Unserved = {}
    BY <2>1 DEF Unserved
  <2> QED
    BY <2>1, <2>2, FS_EmptySet DEF Served
<1>2. Inv /\ Served => IdleLaneIsServed
  <2> SUFFICES ASSUME Inv, Served, chain = <<>>, ~halted, ~strayed, NEW i \in submitted
               PROVE  ~IsPending(i)
    BY DEF IdleLaneIsServed
  <2>1. IsFiniteSet(Unserved) /\ Cardinality(Unserved) <= 0
    BY DEF Served
  <2>2. Cardinality(Unserved) \in Nat
    BY <2>1, FS_CardinalityType
  <2>3. Unserved = {}
    BY <2>1, <2>2, FS_EmptySet
  <2>4. i \in Input
    BY DEF Inv, TypeOK
  <2> QED
    BY <2>3, <2>4, PendingFacts DEF Unserved, Inv
<1> QED
  BY <1>1, <1>2, ServedAlways, LaneInvariance, PTL DEF Spec

-----------------------------------------------------------------------------
(***************************************************************************)
(* The queue.  SessionQueue drives the lane with the service's submissions *)
(* and the gateway's calls.  It saves the log at any time, and asks the    *)
(* lane for one input at a time, so that each of its steps is one of the   *)
(* lane, or saves, or leaves the lane alone.  What is known of the lane is *)
(* known of it, and the rows, the calls and what the callers were told are *)
(* related to the log by the rest of QueueInv.                             *)
(***************************************************************************)
(* What is in the log is saved, any more of it than was.                     *)
Saves ==
    /\ durable' \in durable..Len(log)
    /\ UNCHANGED <<host, log, chain, current, phase, signals, aborted, stop, lastError, halted,
                   answer, restarts, submitted, failed, done, strayed>>

LEMMA SavesStep ==
  ASSUME Inv, Saves
  PROVE  Inv'
<1> USE DEF Saves
<1>1. Grows(log, log')
  BY GrowsNot DEF Inv
<1>2. GoodLog(log)' /\ Lost'
  BY <1>1, LogGrows
<1>3. durable \in Nat /\ Len(log) \in Nat
  BY DEF Inv, TypeOK
<1>4. durable' \in 0..Len(log') /\ durable <= durable'
  BY <1>3
<1>5. TypeOK'
  BY <1>4 DEF Inv, TypeOK
<1>6. Pumps' /\ Turns'
  BY DEF Inv, Pumps, Turns, Waits, In
<1>7. AnswerIsOwn'
  BY <1>1, AnswersStay DEF AnswerIsOwn
<1>8. DoneIsDurable'
  <2>1. \A n \in 1..durable : n \in 1..durable'
    BY <1>3, <1>4
  <2> QED
    BY <2>1 DEF Inv, DoneIsDurable
<1> QED
  BY <1>2, <1>5, <1>6, <1>7, <1>8 DEF Inv

-----------------------------------------------------------------------------
(* The rows, synced with the inbox of the state that a step leads to.        *)
RowStates == {"none", "wait", "queued", "running", "cancelled"}

LEMMA PendingIs ==
  GoodLog(log) => \A i : i \in ToSet(Pending) <=> i \in Input /\ Waits(log, i)
BY PendingFacts

LEMMA PendingNext ==
  (GoodLog(log) => \A i : i \in ToSet(Pending) <=> i \in Input /\ Waits(log, i))'
BY PendingIs, PTL

LEMMA SyncedFacts ==
  ASSUME GoodLog(log)', NEW rows \in [Input -> RowStates], NEW synced, synced = Synced(rows)
  PROVE  /\ synced \in [Input -> RowStates]
         /\ \A i \in Input :
               /\ rows[i] \in {"none", "cancelled"} \/ ~assembled' => synced[i] = rows[i]
               /\ assembled' /\ rows[i] \notin {"none", "cancelled"} /\ i = current'
                     => synced[i] = "running"
               /\ assembled' /\ rows[i] \notin {"none", "cancelled"} /\ i # current' /\ Waits(log', i)
                     => synced[i] = "queued"
               /\ synced[i] = "queued" => Waits(log', i) \/ (rows[i] = "queued" /\ ~assembled')
               /\ synced[i] = "wait" => rows[i] = "wait"
<1>1. \A i : i \in ToSet(Pending)' <=> i \in Input /\ Waits(log', i)
  BY PendingNext DEF Waits, In
<1>2. synced = [i \in Input |->
                  IF rows[i] \in {"none", "cancelled"} \/ ~assembled' THEN rows[i]
                  ELSE IF i = current' THEN "running"
                  ELSE IF Waits(log', i) THEN "queued"
                  ELSE IF rows[i] \in {"wait", "running"} THEN rows[i]
                  ELSE "none"]
  BY <1>1 DEF Synced
<1> QED
  BY <1>2 DEF RowStates

-----------------------------------------------------------------------------
(* The invariant.                                                            *)
OnDisk(kind, i) == \E n \in 1..durable : log[n] = Event(kind, i)

(* The lane serves the first submission in line, which waits for its answer, *)
(* and its row says whether it waits or runs.                                *)
Serving ==
    chain # <<>> =>
        /\ at = "lane" /\ assembled
        /\ line # <<>> /\ chain = <<Head(line)>> /\ answer[Head(line)] = "waiting"
        /\ IF current = NoInput THEN Waits(log, Head(line)) => row[Head(line)] = "queued"
                                ELSE row[Head(line)] = "running"

(* What a row calls waiting was admitted, and no turn has taken it.          *)
RowsTell ==
    \A i \in Input : row[i] \in {"wait", "queued"} => In(log, "admitted", i) /\ ~In(log, "promoted", i)

(* What the call behind the gate has done so far is in the log.              *)
CallFits ==
    /\ op.step \in {"flush", "inbox"} => op.input \in Input
    /\ op.step = "inbox" => op.kind = "cancel"
    /\ op.kind \in {"admit", "retry"} /\ op.step = "flush" => In(log, "admitted", op.input)
    /\ op.kind = "cancel" /\ op.step = "flush" /\ op.ok =>
          In(log, "cancelled", op.input) \/ op.input \in blind

(* What a caller was told is on disk.                                        *)
Promised ==
    /\ \A i \in accepted : OnDisk("admitted", i)
    /\ \A i \in told \ blind : OnDisk("cancelled", i)

Calls == [kind : {"none", "admit", "retry", "resume", "cancel"}, input : Input \cup {NoInput},
          step : {"none", "assembly", "flush", "inbox"}, ok : BOOLEAN]

QueueType == QueueTypeOK /\ op \in Calls

QueueInv ==
    /\ Inv /\ host = "service"
    /\ QueueType /\ Serving /\ RowsTell /\ CallFits /\ Promised

(* What a step that is no restart does to the log. *)
Continues ==
    /\ Grows(log, log') /\ UNCHANGED <<host, restarts>>
    /\ durable \in Nat /\ durable' \in Nat /\ durable <= durable'

LEMMA LaneContinues ==
  ASSUME Inv, [Next \/ Saves]_vars, restarts' = restarts
  PROVE  Continues
<1>1. durable \in 0..Len(log) /\ Len(log) \in Nat
  BY DEF Inv, TypeOK
<1>2. Grows(log, log)
  BY GrowsNot DEF Inv
<1>3. ASSUME NEW i \in Input, Submit(i) \/ Admit(i) PROVE Continues
  BY <1>1, <1>3, AdmissionStep DEF Submit, Admit, Continues
<1>4. ASSUME NEW i \in Input, Cancel(i) PROVE Continues
  BY <1>1, <1>4, CancelGrows DEF Cancel, Continues
<1>5. ASSUME NEW i \in Input, RunAdmitted(i) \/ AbortWaiting(i) PROVE Continues
  BY <1>1, <1>2, <1>5 DEF RunAdmitted, Ask, AbortWaiting, Continues
<1>6. CASE CancelCurrent \/ Halt
  BY <1>1, <1>2, <1>6 DEF CancelCurrent, Halt, Continues
<1>7. CASE PumpEnds
  BY <1>1, <1>7, PumpEndsGrows DEF PumpEnds, Continues, Inv
<1>8. CASE PumpRuns
  <2>1. Grows(log, log')
    BY <1>8, PumpRunsGrows DEF Inv, TypeOK
  <2>2. UNCHANGED <<host, durable, restarts>>
    BY <1>8 DEF PumpRuns
  <2> QED
    BY <1>1, <2>1, <2>2 DEF Continues
<1>9. CASE StepClaims
  BY <1>1, <1>9, StepClaimsGrows DEF StepClaims, Continues, Inv
<1>10. CASE TurnCloses \/ StopHookThrows \/ TurnNotSaved
  <2>1. UNCHANGED <<host, log, durable, restarts>>
    BY <1>10 DEF TurnCloses, StopHookThrows, TurnNotSaved, TurnSettles
  <2> QED
    BY <1>1, <1>2, <2>1 DEF Continues
<1>11. CASE TurnSaved
  <2>1. phase.target \in Nat
    BY DEF Inv, TypeOK
  <2>2. durable' \in Nat /\ durable <= durable'
    BY <1>1, <1>11, <2>1 DEF TurnSaved
  <2> QED
    BY <1>1, <1>2, <1>11, <2>2 DEF TurnSaved, TurnSettles, Continues
<1>12. CASE Saves
  BY <1>1, <1>2, <1>12 DEF Saves, Continues
<1>13. CASE UNCHANGED vars
  BY <1>1, <1>2, <1>13 DEF vars, Continues
<1>14. ~Restart
  BY DEF Restart, Inv, TypeOK
<1> QED
  BY <1>3, <1>4, <1>5, <1>6, <1>7, <1>8, <1>9, <1>10, <1>11, <1>12, <1>13, <1>14
     DEF Next, Pump, Turn

LEMMA SavedFacts ==
  ASSUME Inv, NEW kind, NEW i, In(log, kind, i), SavedUpTo(Event(kind, i))
  PROVE  durable' \in durable..Len(log) /\ \E n \in 1..durable' : log[n] = Event(kind, i)
<1> DEFINE n == CHOOSE m \in DOMAIN log : log[m] = Event(kind, i)
<1>1. durable' = IF n > durable THEN n ELSE durable
  BY DEF SavedUpTo
<1>2. n \in DOMAIN log /\ log[n] = Event(kind, i)
  BY DEF In
<1>3. durable \in 0..Len(log) /\ DOMAIN log = 1..Len(log) /\ Len(log) \in Nat
  BY DEF Inv, TypeOK, GoodLog
<1> HIDE DEF n
<1>4. n \in 1..durable'
  BY <1>1, <1>2, <1>3
<1> QED
  BY <1>1, <1>2, <1>3, <1>4

LEMMA FirstInLine ==
  ASSUME QueueInv
  PROVE  /\ line \in Seq(Input)
         /\ line # <<>> => Head(line) \in Input /\ Tail(line) \in Seq(Input)
         /\ chain # <<>> /\ current # NoInput => current = Head(line)
         /\ chain = <<>> => current = NoInput
<1>1. line \in Seq(Input)
  BY DEF QueueInv, QueueType, QueueTypeOK
<1>2. ASSUME chain # <<>>, current # NoInput PROVE current = Head(line)
  <2>1. PICK i \in Input : chain = <<i>> /\ current = i
    BY <1>2 DEF QueueInv, Inv, Pumps
  <2>2. chain = <<Head(line)>>
    BY <1>2 DEF QueueInv, Serving
  <2> QED
    BY <2>1, <2>2
<1> QED
  BY <1>1, <1>2 DEF QueueInv, Inv, Pumps

(* The lane is asked for the first in line when it has nothing to do. *)
LEMMA AskedWhenIdle ==
  ASSUME QueueInv, Ready("build"), Ask(Foremost)
  PROVE  RunAdmitted(Head(line)) /\ Head(line) \in Input
<1>1. chain = <<>> /\ line # <<>>
  BY DEF Ready, QueueInv, Serving
<1>2. Ask(Head(line))
  BY DEF Foremost
<1> QED
  BY <1>1, <1>2, FirstInLine DEF RunAdmitted

(* Every step of the queue is one of the lane, or saves, or leaves it alone. *)
LEMMA QueueStepsLane ==
  ASSUME QueueInv, [QueueNext]_queueVars
  PROVE  [Next \/ Saves]_vars
<1> USE DEF vars, vars
<1>1. CASE StartTurn
  BY <1>1 DEF StartTurn, Settles
<1>2. CASE AskLane
  <2>1. CASE Unrun
    BY <1>2, <2>1 DEF AskLane, Settles
  <2>2. CASE ~Unrun
    <3>1. RunAdmitted(Head(line)) /\ Head(line) \in Input
      BY <1>2, <2>2, AskedWhenIdle DEF AskLane
    <3> QED
      BY <3>1 DEF Next
  <2> QED
    BY <2>1, <2>2
<1>3. CASE LaneAnswers
  BY <1>3 DEF LaneAnswers, Settles
<1>4. CASE Assembles
  BY <1>4 DEF Assembles, Build, BuildFails
<1>5. CASE LaneStep
  <2>1. Pump \/ Turn \/ StepClaims
    BY <1>5 DEF LaneStep, Pump, Pump
  <2> QED
    BY <2>1 DEF Next
<1>6. CASE AdmitInput
  <2>1. PICK i \in Input : Admit(i)
    BY <1>6 DEF AdmitInput
  <2>2. Admit(i)
    BY <2>1
  <2> QED
    BY <2>2 DEF Next
<1>7. CASE Acknowledges
  <2>1. In(log, "admitted", op.input) /\ Inv
    BY <1>7 DEF Acknowledges, QueueInv, CallFits
  <2>2. durable' \in durable..Len(log)
    BY <1>7, <2>1, SavedFacts DEF Acknowledges
  <2> QED
    BY <1>7, <2>2 DEF Acknowledges, OnlySaves, Saves
<1>8. CASE CancelInbox
  <2>1. op.input \in Input
    BY <1>8 DEF CancelInbox, QueueInv, CallFits
  <2>2. Cancel(op.input) \/ UNCHANGED vars
    BY <1>8 DEF CancelInbox
  <2>3. Cancel(op.input) \/ UNCHANGED vars
    BY <2>2
  <2> QED
    BY <2>1, <2>3 DEF Next
<1>9. CASE CancelAnswers
  <2>1. CASE Has("cancelled", op.input)
    <3>1. In(log, "cancelled", op.input) /\ Inv
      BY <2>1 DEF QueueInv, In, Has
    <3>2. durable' \in durable..Len(log)
      BY <1>9, <2>1, <3>1, SavedFacts DEF CancelAnswers
    <3> QED
      BY <1>9, <2>1, <3>2 DEF CancelAnswers, OnlySaves, Saves
  <2>2. CASE ~Has("cancelled", op.input)
    BY <1>9, <2>2 DEF CancelAnswers
  <2> QED
    BY <2>1, <2>2
<1>10. ASSUME NEW i \in Input, CancelQueued(i) PROVE [Next \/ Saves]_vars
  <2>1. Cancel(i) \/ UNCHANGED vars
    BY <1>10 DEF CancelQueued
  <2>2. Cancel(i) \/ UNCHANGED vars
    BY <2>1
  <2> QED
    BY <2>2 DEF Next
<1>11. CASE CancelRunning
  <2>1. CancelCurrent \/ UNCHANGED vars
    BY <1>11 DEF CancelRunning
  <2> QED
    BY <2>1 DEF Next
<1>12. CASE QueueRestart
  BY <1>12 DEF QueueRestart, Next
<1>13. CASE Resumes \/ FlushFails
  BY <1>13 DEF Resumes, FlushFails
<1>14. CASE BeginAdmit \/ BeginResume \/ \E i \in Input : BeginRetry(i)
  BY <1>14 DEF BeginAdmit, BeginResume, BeginRetry, Begins
<1>15. CASE UNCHANGED queueVars
  BY <1>15 DEF queueVars
<1> QED
  BY <1>1, <1>2, <1>3, <1>4, <1>5, <1>6, <1>7, <1>8, <1>9, <1>10, <1>11, <1>12, <1>13, <1>14, <1>15
     DEF QueueNext, Paces, Proceeds

LEMMA LaneInvNext ==
  ASSUME QueueInv, [QueueNext]_queueVars
  PROVE  Inv'
<1>1. Inv
  BY DEF QueueInv
<1>2. [Next \/ Saves]_vars
  BY QueueStepsLane
<1> QED
  BY <1>1, <1>2, LaneSteps, SavesStep

LEMMA OnDiskStays ==
  ASSUME Inv, Continues, NEW kind, NEW i, OnDisk(kind, i)
  PROVE  \E n \in 1..durable' : log'[n] = Event(kind, i)
<1>1. PICK n \in 1..durable : log[n] = Event(kind, i)
  BY DEF OnDisk
<1>2. n \in 1..durable' /\ n \in 1..Len(log)
  BY DEF Continues, Inv, TypeOK
<1>3. log'[n] = log[n]
  BY <1>2, LogGrows DEF Continues
<1> QED
  BY <1>1, <1>2, <1>3

LEMMA PromisesStay ==
  ASSUME QueueInv, Continues, accepted' = accepted, told' \ blind' \subseteq told \ blind
  PROVE  Promised'
<1>1. Inv
  BY DEF QueueInv
<1>2. \A i \in accepted : \E n \in 1..durable' : log'[n] = Event("admitted", i)
  BY <1>1, OnDiskStays DEF QueueInv, Promised
<1>3. \A i \in told \ blind : \E n \in 1..durable' : log'[n] = Event("cancelled", i)
  BY <1>1, OnDiskStays DEF QueueInv, Promised
<1> QED
  BY <1>2, <1>3 DEF Promised, OnDisk

LEMMA InStays ==
  ASSUME Continues
  PROVE  \A kind, i : In(log, kind, i) => In(log', kind, i)
BY ExtendsKeeps DEF Continues, Grows

LEMMA CallStays ==
  ASSUME QueueInv, Continues, op' = op, blind \subseteq blind'
  PROVE  CallFits'
<1>1. \A kind, i : In(log, kind, i) => In(log', kind, i)
  BY InStays
<1> QED
  BY <1>1 DEF QueueInv, CallFits, In

LEMMA NoCallFits ==
  ASSUME op' = NoCall
  PROVE  CallFits' /\ op' \in Calls
BY DEF NoCall, Call, CallFits, Calls

(* The input that the lane was asked for was admitted, and once withdrawn it  *)
(* stays so.                                                                 *)
LEMMA WaitedFirst ==
  ASSUME QueueInv, Continues, chain # <<>>, current = NoInput, Waits(log', Head(line))
  PROVE  Waits(log, Head(line))
<1>1. ~In(log, "cancelled", Head(line))
  BY InStays DEF Waits
<1>2. PICK i \in Input : chain = <<i>> /\ (Waits(log, i) \/ In(log, "cancelled", i))
  BY DEF QueueInv, Inv, Pumps
<1>3. i = Head(line)
  BY <1>2 DEF QueueInv, Serving
<1> QED
  BY <1>1, <1>2, <1>3

(* Steps that leave the lane to its input. *)
LEMMA ServingNext ==
  ASSUME QueueInv, Continues, UNCHANGED <<chain, current, answer, at>>,
         chain # <<>> /\ assembled => assembled' /\ line' # <<>> /\ Head(line') = Head(line),
         chain # <<>> /\ current # NoInput => row'[Head(line)] = "running",
         chain # <<>> /\ current = NoInput /\ Waits(log, Head(line)) /\ Waits(log', Head(line))
             => row'[Head(line)] = "queued"
  PROVE  Serving'
<1> SUFFICES ASSUME chain # <<>> PROVE Serving'
  BY DEF Serving
<1>1. /\ at = "lane" /\ assembled /\ chain = <<Head(line)>> /\ answer[Head(line)] = "waiting"
  BY DEF QueueInv, Serving
<1>2. current = NoInput /\ Waits(log', Head(line)) => row'[Head(line)] = "queued"
  BY WaitedFirst
<1> QED
  BY <1>1, <1>2 DEF Serving, Waits, In

LEMMA ServingKept ==
  ASSUME QueueInv, Continues, UNCHANGED <<chain, current, answer, at, line, row>>,
         assembled => assembled'
  PROVE  Serving'
<1>1. chain # <<>> /\ current # NoInput => row'[Head(line)] = "running"
  BY DEF QueueInv, Serving
<1>2. chain # <<>> /\ current = NoInput /\ Waits(log, Head(line)) => row'[Head(line)] = "queued"
  BY DEF QueueInv, Serving
<1>3. chain # <<>> /\ assembled => assembled' /\ line' # <<>> /\ Head(line') = Head(line)
  BY DEF QueueInv, Serving
<1> QED
  BY <1>1, <1>2, <1>3, ServingNext

(* The rows are synced, that of the lane's input as it was.                  *)
LEMMA ServingSynced ==
  ASSUME QueueInv, Continues, UNCHANGED <<chain, current, answer, at, assembled>>,
         chain # <<>> => line' # <<>> /\ Head(line') = Head(line),
         NEW rows \in [Input -> RowStates], row' = Synced(rows),
         chain # <<>> /\ (current # NoInput \/ Waits(log', Head(line)))
             => rows[Head(line)] = row[Head(line)]
  PROVE  Serving'
<1>1. GoodLog(log)'
  BY LogGrows DEF Continues, QueueInv
<1>2. chain # <<>> => assembled' /\ Head(line) \in Input
  BY FirstInLine DEF QueueInv, Serving
<1>3. chain # <<>> /\ current # NoInput => row'[Head(line)] = "running"
  <2> SUFFICES ASSUME chain # <<>>, current # NoInput PROVE row'[Head(line)] = "running"
    OBVIOUS
  <2>1. current' = Head(line) /\ rows[Head(line)] = "running"
    BY FirstInLine DEF QueueInv, Serving
  <2> QED
    BY <1>1, <1>2, <2>1, SyncedFacts
<1>4. ASSUME chain # <<>>, current = NoInput, Waits(log, Head(line)), Waits(log', Head(line))
      PROVE  row'[Head(line)] = "queued"
  <2>1. current' # Head(line) /\ rows[Head(line)] = "queued"
    BY <1>2, <1>4, LaneAssumption DEF QueueInv, Serving
  <2> QED
    BY <1>1, <1>2, <1>4, <2>1, SyncedFacts
<1> QED
  BY <1>2, <1>3, <1>4, ServingNext

LEMMA RowsTellSynced ==
  ASSUME GoodLog(log)', NEW rows \in [Input -> RowStates], row' = Synced(rows),
         \A i \in Input : rows[i] = "wait" \/ (rows[i] = "queued" /\ ~assembled')
             => In(log', "admitted", i) /\ ~In(log', "promoted", i)
  PROVE  RowsTell' /\ row' \in [Input -> RowStates]
<1>1. /\ row' \in [Input -> RowStates]
      /\ \A i \in Input :
            /\ row'[i] = "queued" => Waits(log', i) \/ (rows[i] = "queued" /\ ~assembled')
            /\ row'[i] = "wait" => rows[i] = "wait"
  BY SyncedFacts
<1>2. \A i \in Input : row'[i] \in {"wait", "queued"}
          => In(log', "admitted", i) /\ ~In(log', "promoted", i)
  BY <1>1 DEF Waits
<1> QED
  BY <1>1, <1>2 DEF RowsTell, In

(* Nothing is promoted by a step that changes the log by one other event.    *)
LEMMA RowsTellStays ==
  ASSUME QueueInv, Continues, \A i : In(log', "promoted", i) => In(log, "promoted", i)
  PROVE  \A i \in Input : row[i] \in {"wait", "queued"}
             => In(log', "admitted", i) /\ ~In(log', "promoted", i)
BY InStays DEF QueueInv, RowsTell

LEMMA NotPromoted ==
  ASSUME Inv, NEW kind \in {"admitted", "cancelled"}, NEW i \in Input,
         log' = log \/ log' = Append(log, Event(kind, i))
  PROVE  \A j : In(log', "promoted", j) => In(log, "promoted", j)
<1>1. log \in Seq(Events) /\ Event(kind, i) \in Events
  BY DEF Inv, GoodLog, Event, Events
<1>2. \A j : Event(kind, i) # Event("promoted", j)
  BY DEF Event
<1>3. \A e \in Events : \A n \in DOMAIN Append(log, e) :
          (n \in DOMAIN log /\ Append(log, e)[n] = log[n]) \/ Append(log, e)[n] = e
  BY <1>1
<1> QED
  BY <1>1, <1>2, <1>3 DEF In

LEMMA KeepsRestarts ==
  ASSUME QueueInv, [QueueNext]_queueVars, ~QueueRestart
  PROVE  restarts' = restarts
<1> USE DEF vars
<1>1. CASE Paces
  <2>1. CASE AskLane /\ ~Unrun
    BY <2>1, AskedWhenIdle DEF AskLane, RunAdmitted, Ask
  <2> QED
    BY <1>1, <2>1 DEF Paces, StartTurn, AskLane, LaneAnswers, Settles
<1>2. CASE LaneStep
  <2>1. Pump \/ Turn \/ StepClaims
    BY <1>2 DEF LaneStep, Pump, Pump
  <2>2. CASE Pump
    BY <2>2 DEF Pump, PumpEnds, PumpRuns
  <2>3. CASE Turn \/ StepClaims
    BY <2>3 DEF Turn, TurnCloses, TurnSaved, TurnNotSaved, StopHookThrows, TurnSettles, StepClaims
  <2> QED
    BY <2>1, <2>2, <2>3
<1>3. CASE Proceeds
  BY <1>3 DEF Proceeds, AdmitInput, Acknowledges, Resumes, CancelInbox,
     CancelAnswers, FlushFails, OnlySaves, Admit, Cancel
<1>4. CASE CancelRunning \/ \E i \in Input : CancelQueued(i)
  BY <1>4 DEF CancelRunning, CancelQueued, CancelCurrent, Cancel
<1>5. CASE BeginAdmit \/ BeginResume \/ \E i \in Input : BeginRetry(i)
  BY <1>5 DEF BeginAdmit, BeginResume, BeginRetry, Begins
<1>6. CASE Assembles
  BY <1>6 DEF Assembles, Build, BuildFails
<1>7. CASE UNCHANGED queueVars
  BY <1>7 DEF queueVars
<1> QED
  BY <1>1, <1>2, <1>3, <1>4, <1>5, <1>6, <1>7 DEF QueueNext

-----------------------------------------------------------------------------
(* The steps of the queue, one by one. *)
LEMMA QuietStep ==
  ASSUME QueueInv, Inv', Continues,
         UNCHANGED <<log, chain, current, answer, line, row, dropped, accepted, told, blind, released>>,
         at' \in {"start", "build", "lane"}, assembled' \in BOOLEAN, assembled => assembled',
         chain # <<>> => at' = at, CallFits', op' \in Calls
  PROVE  QueueInv'
<1>1. Serving'
  <2>1. CASE at' = at
    BY <2>1, ServingKept
  <2>2. CASE chain = <<>>
    BY <2>2 DEF Serving
  <2> QED
    BY <2>1, <2>2
<1>2. RowsTell' /\ Promised'
  BY PromisesStay DEF QueueInv, RowsTell, In
<1>3. QueueType'
  BY DEF QueueInv, QueueType, QueueTypeOK, Calls
<1> QED
  BY <1>1, <1>2, <1>3 DEF QueueInv, Continues

LEMMA SettlesStep ==
  ASSUME QueueInv, Inv', Continues, Settles, line # <<>>, chain = <<>>, released' \subseteq Input
  PROVE  QueueInv'
<1> USE DEF Settles, vars, Foremost
<1>1. row \in [Input -> RowStates] /\ line \in Seq(Input)
  BY DEF QueueInv, QueueType, QueueTypeOK, RowStates
<1>2. PICK rows \in [Input -> RowStates] : rows = [row EXCEPT ![Head(line)] = "none"]
  BY <1>1 DEF RowStates
<1>3. row' = Synced(rows)
  BY <1>2
<1>4. \A i \in Input : rows[i] = row[i] \/ rows[i] = "none"
  BY <1>1, <1>2
<1>5. GoodLog(log)'
  BY DEF Inv
<1>6. RowsTell' /\ row' \in [Input -> RowStates]
  <2>1. \A i \in Input : rows[i] = "wait" \/ (rows[i] = "queued" /\ ~assembled')
            => In(log', "admitted", i) /\ ~In(log', "promoted", i)
    BY <1>4 DEF QueueInv, RowsTell
  <2> QED
    BY <1>3, <1>5, <2>1, RowsTellSynced
<1>7. Serving' /\ CallFits' /\ Promised'
  BY CallStays, PromisesStay DEF Serving
<1>8. QueueType'
  <2>1. Tail(line) \in Seq(Input)
    BY FirstInLine
  <2> QED
    BY <1>6, <2>1 DEF QueueInv, QueueType, QueueTypeOK, Calls, RowStates
<1> QED
  BY <1>6, <1>7, <1>8 DEF QueueInv, Continues

LEMMA StartTurnStep ==
  ASSUME QueueInv, Inv', Continues, StartTurn
  PROVE  QueueInv'
<1>1. line # <<>> /\ chain = <<>> /\ Head(line) \in Input
  BY FirstInLine DEF StartTurn, Ready, QueueInv, Serving
<1>2. CASE Settles /\ released' = released \cup {Foremost}
  <2>1. released' \subseteq Input
    BY <1>1, <1>2 DEF Foremost, QueueInv, QueueType, QueueTypeOK
  <2> QED
    BY <1>1, <1>2, <2>1, SettlesStep
<1>3. CASE ~(Foremost \in dropped)
  <2>1. /\ at' = "build"
        /\ UNCHANGED <<vars, assembled, line, row, dropped, op, ghosts>>
    BY <1>3 DEF StartTurn
  <2>2. CallFits' /\ op' \in Calls /\ assembled' \in BOOLEAN
    BY <2>1, CallStays DEF ghosts, QueueInv, QueueType, QueueTypeOK
  <2> QED
    BY <1>1, <2>1, <2>2, QuietStep DEF vars, ghosts
<1> QED
  BY <1>2, <1>3 DEF StartTurn

LEMMA BuildStep ==
  ASSUME QueueInv, Inv', Continues, Build
  PROVE  QueueInv'
<1>1. CallFits' /\ op' \in Calls /\ at' \in {"start", "build", "lane"}
  BY CallStays DEF Build, ghosts, QueueInv, QueueType, QueueTypeOK
<1> QED
  BY <1>1, QuietStep DEF Build, vars, ghosts

LEMMA BuildFailsStep ==
  ASSUME QueueInv, Inv', Continues, BuildFails
  PROVE  QueueInv'
<1> USE DEF BuildFails, vars, Foremost
<1>1. chain = <<>>
  BY DEF QueueInv, Serving
<1>2. CallFits' /\ op' \in Calls
  BY CallStays, NoCallFits DEF QueueInv, QueueType
<1>3. row \in [Input -> RowStates] /\ line \in Seq(Input)
  BY DEF QueueInv, QueueType, QueueTypeOK, RowStates
<1>4. CASE Ready("build")
  <2>1. line # <<>> /\ Head(line) \in Input /\ Tail(line) \in Seq(Input)
    BY <1>4, FirstInLine DEF Ready
  <2>2. row' = [row EXCEPT ![Head(line)] = "none"]
    BY <1>4
  <2>3. row' \in [Input -> RowStates] /\ \A i \in Input : row'[i] = row[i] \/ row'[i] = "none"
    BY <1>3, <2>2 DEF RowStates
  <2>4. RowsTell'
    BY <2>3 DEF QueueInv, RowsTell, In
  <2>5. Serving' /\ Promised'
    BY <1>1, PromisesStay DEF Serving
  <2>6. QueueType'
    <3>1. /\ line' \in Seq(Input) /\ at' = "start" /\ UNCHANGED <<assembled, accepted, told, blind>>
          /\ dropped' \subseteq dropped /\ released' = released \cup {Head(line)}
      BY <1>4, <2>1
    <3>2. op'.input \in Input \cup {NoInput}
      BY <1>2 DEF Calls
    <3> QED
      BY <1>2, <2>1, <2>3, <3>1, <3>2 DEF QueueInv, QueueType, QueueTypeOK, RowStates
  <2> QED
    BY <1>2, <2>4, <2>5, <2>6 DEF QueueInv, Continues
<1>5. CASE ~Ready("build")
  BY <1>1, <1>2, <1>5, QuietStep DEF QueueInv, QueueType, QueueTypeOK
<1> QED
  BY <1>4, <1>5

LEMMA AskLaneStep ==
  ASSUME QueueInv, Inv', Continues, AskLane
  PROVE  QueueInv'
<1>1. line # <<>> /\ chain = <<>> /\ Head(line) \in Input /\ assembled
  BY FirstInLine DEF AskLane, Ready, QueueInv, Serving
<1>2. CASE Unrun
  <2>1. Settles /\ released' = released \cup ({Foremost} \cap dropped)
    BY <1>2 DEF AskLane
  <2>2. released' \subseteq Input
    BY <1>1, <2>1 DEF Foremost, QueueInv, QueueType, QueueTypeOK
  <2> QED
    BY <1>1, <2>1, <2>2, SettlesStep
<1>3. CASE ~Unrun
  <2>1. /\ at' = "lane" /\ row' = [row EXCEPT ![Head(line)] = "queued"]
        /\ UNCHANGED <<assembled, line, dropped, op, ghosts>>
    BY <1>3 DEF AskLane, Foremost
  <2>2. Ask(Head(line))
    BY <1>3 DEF AskLane, Foremost
  <2>3. /\ chain' = Append(chain, Head(line)) /\ UNCHANGED <<host, log, durable, current>>
        /\ answer' = [answer EXCEPT ![Head(line)] = "waiting"] /\ IsPending(Head(line))
    BY <2>2 DEF Ask, Push
  <2>4. row \in [Input -> RowStates] /\ answer \in [Input -> {"none", "waiting", "resolved", "rejected"}]
    BY DEF QueueInv, QueueType, QueueTypeOK, RowStates, Inv, TypeOK
  <2>5. /\ row' \in [Input -> RowStates] /\ row'[Head(line)] = "queued"
        /\ \A i \in Input : i # Head(line) => row'[i] = row[i]
        /\ answer'[Head(line)] = "waiting"
    BY <1>1, <2>1, <2>3, <2>4 DEF RowStates
  <2>6. Waits(log, Head(line))
    BY <1>1, <2>3, PendingFacts DEF QueueInv, Inv
  <2>7. current = NoInput /\ chain' = <<Head(line)>>
    BY <1>1, <2>3 DEF QueueInv, Inv, Pumps
  <2>8. Serving'
    BY <1>1, <2>1, <2>3, <2>5, <2>7 DEF Serving
  <2>9. RowsTell'
    BY <1>1, <2>3, <2>5, <2>6 DEF QueueInv, RowsTell, Waits, In
  <2>10. CallFits' /\ Promised'
    BY <2>1, CallStays, PromisesStay DEF ghosts
  <2>11. QueueType'
    BY <2>1, <2>5 DEF QueueInv, QueueType, QueueTypeOK, ghosts, RowStates
  <2> QED
    BY <2>3, <2>8, <2>9, <2>10, <2>11 DEF QueueInv
<1> QED
  BY <1>2, <1>3

LEMMA LaneAnswersStep ==
  ASSUME QueueInv, Inv', Continues, LaneAnswers
  PROVE  QueueInv'
<1>1. line # <<>> /\ chain = <<>>
  BY DEF LaneAnswers, Ready, Foremost, QueueInv, Serving
<1>2. released' \subseteq Input
  BY DEF LaneAnswers, QueueInv, QueueType, QueueTypeOK
<1> QED
  BY <1>1, <1>2, SettlesStep DEF LaneAnswers

(* A step of the lane.  The rows of what it takes lose their state, that of  *)
(* the input it runs says so.                                                *)
LEMMA NoticedFacts ==
  ASSUME QueueInv
  PROVE  /\ Noticed \in [Input -> RowStates]
         /\ \A i \in Input : /\ row[i] # "wait" => Noticed[i] = row[i]
                             /\ Noticed[i] = "wait" => row[i] = "wait" /\ ~Waits(log, i)
<1>1. row \in [Input -> RowStates]
  BY DEF QueueInv, QueueType, QueueTypeOK, RowStates
<1>2. \A i \in Input : IsPending(i) <=> Waits(log, i)
  BY PendingFacts DEF QueueInv, Inv
<1> QED
  BY <1>1, <1>2 DEF Noticed, RowStates

LEMMA LaneRowsStep ==
  ASSUME QueueInv, Inv', Continues, assembled' = assembled, assembled,
         row' = IF log' # log THEN Synced(Noticed) ELSE row
  PROVE  RowsTell' /\ row' \in [Input -> RowStates]
<1>1. CASE log' = log
  BY <1>1 DEF QueueInv, RowsTell, In, QueueType, QueueTypeOK, RowStates
<1>2. CASE log' # log
  <2>1. PICK rows \in [Input -> RowStates] : rows = Noticed
    BY NoticedFacts
  <2>2. GoodLog(log)'
    BY DEF Inv
  <2>3. ASSUME NEW i \in Input, rows[i] = "wait"
        PROVE  In(log', "admitted", i) /\ ~In(log', "promoted", i)
    <3>1. row[i] = "wait" /\ ~Waits(log, i)
      BY <2>1, <2>3, NoticedFacts
    <3>2. In(log, "admitted", i) /\ In(log, "cancelled", i)
      BY <3>1 DEF QueueInv, RowsTell, Waits
    <3>3. In(log', "admitted", i) /\ In(log', "cancelled", i)
      BY <3>2, InStays
    <3>4. GoodLog(log')
      BY DEF Continues, Grows
    <3> QED
      BY <3>3, <3>4, CancelledIsNotTaken
  <2>4. row' = Synced(rows)
    BY <1>2, <2>1
  <2> QED
    BY <2>2, <2>3, <2>4, RowsTellSynced
<1> QED
  BY <1>1, <1>2

LEMMA LaneServing ==
  ASSUME QueueInv, Inv', Continues, Pump \/ Turn \/ StepClaims, assembled,
         UNCHANGED <<assembled, line, at>>,
         row' = IF log' # log THEN Synced(Noticed) ELSE row
  PROVE  Serving'
<1>1. PICK rows \in [Input -> RowStates] : rows = Noticed
  BY NoticedFacts
<1>2. GoodLog(log)'
  BY DEF Inv
<1>3. host = "service" /\ Inv
  BY DEF QueueInv
<1>4. CASE PumpEnds
  <2>1. chain # <<>> /\ chain' = Behind
    BY <1>4 DEF PumpEnds
  <2>2. chain' = <<>>
    BY <1>3, <2>1, HeadOfChain
  <2> QED
    BY <2>2 DEF Serving
<1>5. CASE PumpRuns
  <2>1. UNCHANGED <<chain, answer>> /\ chain # <<>> /\ current = NoInput
    BY <1>5 DEF PumpRuns
  <2>2. /\ chain = <<current'>> /\ Waits(log, current') /\ current' \in Input
        /\ In(log', "promoted", current')
    BY <1>3, <1>5, PumpRunsGrows DEF Inv, TypeOK
  <2>3. /\ line # <<>> /\ chain = <<Head(line)>> /\ at = "lane" /\ answer[Head(line)] = "waiting"
        /\ Waits(log, Head(line)) => row[Head(line)] = "queued"
    BY <2>1 DEF QueueInv, Serving
  <2>4. current' = Head(line)
    BY <2>2, <2>3
  <2>5. log' # log
    BY <2>2 DEF Waits
  <2>6. row[current'] = "queued" /\ rows[current'] = "queued"
    BY <1>1, <2>2, <2>3, <2>4, NoticedFacts
  <2>7. row' = Synced(rows)
    BY <1>1, <2>5
  <2>8. row'[current'] = "running"
    BY <1>2, <2>2, <2>6, <2>7, SyncedFacts
  <2>9. current' # NoInput
    BY <2>2, LaneAssumption
  <2> QED
    BY <2>1, <2>3, <2>4, <2>8, <2>9 DEF Serving
<1>6. CASE StepClaims \/ TurnCloses
  <2>1. UNCHANGED <<chain, answer, current>> /\ current # NoInput
    BY <1>3, <1>6 DEF StepClaims, TurnCloses, memory, Inv, TypeOK
  <2>2. ASSUME chain # <<>> PROVE row'[Head(line)] = "running"
    <3>1. row[Head(line)] = "running" /\ current = Head(line) /\ Head(line) \in Input
      BY <2>1, <2>2, FirstInLine DEF QueueInv, Serving
    <3>2. rows[Head(line)] = "running"
      BY <1>1, <3>1, NoticedFacts
    <3>3. CASE log' = log
      BY <3>1, <3>3
    <3>4. CASE log' # log
      <4>1. row' = Synced(rows)
        BY <1>1, <3>4
      <4> QED
        BY <1>2, <2>1, <3>1, <3>2, <4>1, SyncedFacts
    <3> QED
      BY <3>3, <3>4
  <2>3. chain # <<>> => line # <<>>
    BY DEF QueueInv, Serving
  <2> QED
    BY <2>1, <2>2, <2>3, ServingNext
<1>7. CASE TurnSaved \/ TurnNotSaved \/ StopHookThrows
  <2>1. PICK ok : TurnSettles(ok) /\ phase.at # "none"
    BY <1>7 DEF TurnSaved, TurnNotSaved, StopHookThrows
  <2>2. chain # <<>>
    BY <1>3, <2>1 DEF Inv, Pumps, TypeOK
  <2>3. Head(chain) # First /\ Behind = <<>>
    BY <1>3, <2>2, HeadOfChain
  <2>4. chain' = <<>>
    BY <2>1, <2>3 DEF TurnSettles
  <2> QED
    BY <2>4 DEF Serving
<1> QED
  BY <1>4, <1>5, <1>6, <1>7 DEF Pump, Turn

LEMMA LaneStepStep ==
  ASSUME QueueInv, Inv', Continues, LaneStep
  PROVE  QueueInv'
<1>1. /\ UNCHANGED <<assembled, line, at, dropped, op, ghosts>> /\ assembled
      /\ row' = IF log' # log THEN Synced(Noticed) ELSE row
  BY DEF LaneStep
<1>2. Pump \/ Turn \/ StepClaims
  BY DEF LaneStep, Pump, Pump
<1>3. Serving'
  BY <1>1, <1>2, LaneServing
<1>4. RowsTell' /\ row' \in [Input -> RowStates]
  BY <1>1, LaneRowsStep
<1>5. CallFits' /\ Promised'
  BY <1>1, CallStays, PromisesStay DEF ghosts
<1>6. QueueType'
  BY <1>1, <1>4 DEF QueueInv, QueueType, QueueTypeOK, ghosts, RowStates
<1> QED
  BY <1>3, <1>4, <1>5, <1>6 DEF QueueInv, Continues

(* The submissions in line and those that come behind them. *)
LEMMA SubmitsStep ==
  ASSUME QueueInv, Inv', Continues, NEW inputs \in Seq(Input), \A i \in ToSet(inputs) : Waits(log, i),
         Submits(inputs), UNCHANGED <<log, chain, current, answer, at, assembled>>
  PROVE  Serving' /\ RowsTell' /\ row' \in [Input -> RowStates] /\ line' \in Seq(Input)
         /\ released' \subseteq Input
<1> DEFINE new == Among(inputs, Input \ ToSet(line))
<1>1. /\ new \in Seq(Input)
      /\ \A i : i \in ToSet(new) <=> i \in ToSet(inputs) /\ i \in Input \ ToSet(line)
  BY AmongQueue
<1>2. /\ line' = line \o new
      /\ row' = Synced([i \in Input |-> IF i \in ToSet(new) THEN "wait" ELSE row[i]])
      /\ released' = released \ ToSet(new)
  BY DEF Submits
<1> HIDE DEF new
<1>3. row \in [Input -> RowStates] /\ line \in Seq(Input)
  BY DEF QueueInv, QueueType, QueueTypeOK, RowStates
<1>4. PICK rows \in [Input -> RowStates] :
         rows = [i \in Input |-> IF i \in ToSet(new) THEN "wait" ELSE row[i]]
  BY <1>3 DEF RowStates
<1>5. row' = Synced(rows)
  BY <1>2, <1>4
<1>6. GoodLog(log)'
  BY DEF Inv
<1>7. RowsTell' /\ row' \in [Input -> RowStates]
  <2>1. \A i \in Input : rows[i] = "wait" \/ (rows[i] = "queued" /\ ~assembled')
            => In(log', "admitted", i) /\ ~In(log', "promoted", i)
    BY <1>1, <1>4 DEF QueueInv, RowsTell, Waits
  <2> QED
    BY <1>5, <1>6, <2>1, RowsTellSynced
<1>8. Serving'
  <2>1. ASSUME chain # <<>>
        PROVE  line' # <<>> /\ Head(line') = Head(line) /\ rows[Head(line)] = row[Head(line)]
    <3>1. line # <<>> /\ Head(line) \in Input
      BY <2>1, FirstInLine DEF QueueInv, Serving
    <3>2. Head(line) \in ToSet(line)
      BY <1>3, <3>1 DEF ToSet
    <3>3. Head(line) \notin ToSet(new)
      BY <1>1, <3>2
    <3> QED
      BY <1>1, <1>2, <1>3, <1>4, <3>1, <3>3
  <2> QED
    BY <1>5, <2>1, ServingSynced
<1>9. line' \in Seq(Input) /\ released' \subseteq Input
  BY <1>1, <1>2, <1>3 DEF QueueInv, QueueType, QueueTypeOK
<1> QED
  BY <1>7, <1>8, <1>9

LEMMA ResumesStep ==
  ASSUME QueueInv, Inv', Continues, Resumes
  PROVE  QueueInv'
<1>1. /\ Submits(Pending) /\ op' = NoCall
      /\ UNCHANGED <<log, chain, current, answer, at, assembled, dropped, accepted, told, blind>>
  BY DEF Resumes, Ends, vars
<1>2. Pending \in Seq(Input) /\ \A i \in ToSet(Pending) : Waits(log, i)
  BY PendingFacts DEF QueueInv, Inv
<1>3. PICK inputs \in Seq(Input) : inputs = Pending /\ \A i \in ToSet(inputs) : Waits(log, i)
  BY <1>2
<1>4. Submits(inputs)
  BY <1>1, <1>3
<1>5. /\ Serving' /\ RowsTell' /\ row' \in [Input -> RowStates] /\ line' \in Seq(Input)
      /\ released' \subseteq Input
  BY <1>1, <1>3, <1>4, SubmitsStep
<1>6. CallFits' /\ op' \in Calls /\ Promised'
  BY <1>1, NoCallFits, PromisesStay
<1>7. QueueType'
  BY <1>1, <1>5, <1>6 DEF QueueInv, QueueType, QueueTypeOK, Calls, RowStates
<1> QED
  BY <1>5, <1>6, <1>7 DEF QueueInv, Continues

LEMMA AcknowledgesStep ==
  ASSUME QueueInv, Inv', Continues, Acknowledges
  PROVE  QueueInv'
<1>1. /\ op.kind \in {"admit", "retry"} /\ op.step = "flush" /\ op' = NoCall
      /\ accepted' = accepted \cup {op.input}
      /\ UNCHANGED <<log, chain, current, answer, at, assembled, dropped, told, blind>>
  BY DEF Acknowledges, Ends, OnlySaves
<1>2. op.input \in Input /\ In(log, "admitted", op.input) /\ Inv
  BY <1>1 DEF QueueInv, CallFits
<1>3. \E n \in 1..durable' : log[n] = Event("admitted", op.input)
  BY <1>2, SavedFacts DEF Acknowledges
<1>4. Promised'
  <2>1. \A i \in accepted : \E n \in 1..durable' : log'[n] = Event("admitted", i)
    BY <1>2, OnDiskStays DEF QueueInv, Promised
  <2>2. \A i \in told \ blind : \E n \in 1..durable' : log'[n] = Event("cancelled", i)
    BY <1>2, OnDiskStays DEF QueueInv, Promised
  <2> QED
    BY <1>1, <1>3, <2>1, <2>2 DEF Promised, OnDisk
<1>5. CallFits' /\ op' \in Calls
  BY <1>1, NoCallFits
<1>6. /\ Serving' /\ RowsTell' /\ row' \in [Input -> RowStates] /\ line' \in Seq(Input)
      /\ released' \subseteq Input
  <2>1. CASE op.input \in Steer
    <3>1. UNCHANGED <<line, row, released>>
      BY <2>1 DEF Acknowledges
    <3>2. Serving'
      BY <1>1, <3>1, ServingKept
    <3> QED
      BY <1>1, <3>1, <3>2 DEF QueueInv, RowsTell, In, QueueType, QueueTypeOK, RowStates
  <2>2. CASE op.input \notin Steer
    <3> DEFINE S == IF Running THEN Input \ Steer ELSE Input
    <3>1. Submits(Among(Pending, S))
      BY <2>2 DEF Acknowledges, SchedulesPending
    <3> HIDE DEF S
    <3>2. Pending \in Seq(Input) /\ \A i \in ToSet(Pending) : Waits(log, i)
      BY PendingFacts DEF QueueInv, Inv
    <3>3. /\ Among(Pending, S) \in Seq(Input)
          /\ \A i \in ToSet(Among(Pending, S)) : Waits(log, i)
      BY <3>2, AmongQueue
    <3>4. PICK inputs \in Seq(Input) : /\ inputs = Among(Pending, S)
                                       /\ \A i \in ToSet(inputs) : Waits(log, i)
      BY <3>3
    <3>5. Submits(inputs)
      BY <3>1, <3>4
    <3> QED
      BY <1>1, <3>4, <3>5, SubmitsStep
  <2> QED
    BY <2>1, <2>2
<1>7. QueueType'
  BY <1>1, <1>2, <1>5, <1>6 DEF QueueInv, QueueType, QueueTypeOK, Calls, RowStates
<1> QED
  BY <1>4, <1>5, <1>6, <1>7 DEF QueueInv, Continues

(* Steps that change the log by one event and sync the rows. *)
LEMMA SyncsStep ==
  ASSUME QueueInv, Inv', Continues,
         UNCHANGED <<chain, current, answer, at, assembled, line, accepted>>,
         told' \ blind' \subseteq told \ blind,
         told' \cup blind' \cup released' \cup dropped' \subseteq Input,
         \A i : In(log', "promoted", i) => In(log, "promoted", i),
         NEW rows \in [Input -> RowStates], row' = Synced(rows),
         \A i \in Input : rows[i] = row[i] \/ rows[i] = "cancelled",
         chain # <<>> /\ (current # NoInput \/ Waits(log', Head(line)))
             => rows[Head(line)] = row[Head(line)],
         CallFits', op' \in Calls
  PROVE  QueueInv'
<1>1. Serving'
  <2>1. chain # <<>> => line' # <<>> /\ Head(line') = Head(line)
    BY DEF QueueInv, Serving
  <2> QED
    BY <2>1, ServingSynced
<1>2. GoodLog(log)'
  BY DEF Inv
<1>3. \A i \in Input : rows[i] = "wait" \/ (rows[i] = "queued" /\ ~assembled')
         => In(log', "admitted", i) /\ ~In(log', "promoted", i)
  BY RowsTellStays
<1>4. RowsTell' /\ row' \in [Input -> RowStates]
  BY <1>2, <1>3, RowsTellSynced
<1>5. Promised'
  BY PromisesStay
<1>6. QueueType'
  BY <1>4 DEF QueueInv, QueueType, QueueTypeOK, Calls, RowStates
<1> QED
  BY <1>1, <1>4, <1>5, <1>6 DEF QueueInv, Continues

LEMMA AdmitInputStep ==
  ASSUME QueueInv, Inv', Continues, AdmitInput
  PROVE  QueueInv'
<1>1. PICK i \in Input : /\ Admit(i) /\ op' = Call("admit", i, "flush")
                         /\ row' = Synced(row)
  BY DEF AdmitInput
<1>2. Admit(i)
  BY <1>1
<1>3. UNCHANGED <<assembled, line, at, dropped, accepted, told, blind, released>>
  BY DEF AdmitInput, ghosts
<1>4. log' = Append(log, Event("admitted", i)) /\ UNCHANGED <<chain, current, answer>>
  BY <1>2 DEF Admit, memory
<1>5. \A j : In(log', "promoted", j) => In(log, "promoted", j)
  BY <1>4, NotPromoted DEF QueueInv
<1>6. In(log', "admitted", i)
  <2>1. log \in Seq(Events) /\ Event("admitted", i) \in Events
    BY DEF QueueInv, Inv, GoodLog, Event, Events
  <2>2. \A e \in Events : /\ Len(log) + 1 \in DOMAIN Append(log, e)
                          /\ Append(log, e)[Len(log) + 1] = e
    BY <2>1
  <2> QED
    BY <1>4, <2>1, <2>2 DEF In
<1>7. CallFits' /\ op' \in Calls
  BY <1>1, <1>6 DEF Call, Calls, CallFits, In
<1>8. row \in [Input -> RowStates] /\ told \cup blind \cup released \cup dropped \subseteq Input
  BY DEF QueueInv, QueueType, QueueTypeOK, RowStates
<1> QED
  BY <1>1, <1>3, <1>4, <1>5, <1>7, <1>8, SyncsStep

LEMMA CancelTakesBack ==
  ASSUME QueueInv, NEW i \in Input, Cancel(i)
  PROVE  /\ UNCHANGED <<chain, current, answer>>
         /\ \A j : In(log', "promoted", j) => In(log, "promoted", j)
         /\ In(log', "cancelled", i)
<1>1. log' = Append(log, Event("cancelled", i)) /\ UNCHANGED <<chain, current, answer>>
  BY DEF Cancel, memory
<1>2. \A j : In(log', "promoted", j) => In(log, "promoted", j)
  BY <1>1, NotPromoted DEF QueueInv
<1>3. log \in Seq(Events) /\ Event("cancelled", i) \in Events
  BY DEF QueueInv, Inv, GoodLog, Event, Events
<1>4. \A e \in Events : Len(log) + 1 \in DOMAIN Append(log, e) /\ Append(log, e)[Len(log) + 1] = e
  BY <1>3
<1>5. In(log', "cancelled", i)
  BY <1>1, <1>3, <1>4 DEF In
<1> QED
  BY <1>1, <1>2, <1>5

(* A submission whose row waits is withdrawn: its input is cancelled, unless *)
(* it is already, or no lane is there to cancel it.                          *)
LEMMA CancelQueuedStep ==
  ASSUME QueueInv, Inv', Continues, NEW i \in Input, CancelQueued(i)
  PROVE  QueueInv'
<1>1. UNCHANGED <<assembled, line, at, accepted, told, released>>
  BY DEF CancelQueued
<1>2. /\ row \in [Input -> RowStates]
      /\ dropped \cup accepted \cup told \cup blind \cup released \subseteq Input
      /\ at \in {"start", "build", "lane"} /\ assembled \in BOOLEAN
  BY DEF QueueInv, QueueType, QueueTypeOK, RowStates
<1>3. CASE i # current /\ row[i] \in {"wait", "queued"}
  <2>1. /\ dropped' = dropped \cup {i}
        /\ row' = Synced([row EXCEPT ![i] = "cancelled"])
        /\ blind' = IF assembled THEN blind ELSE blind \cup {i}
        /\ op' = [Call("cancel", i, "flush") EXCEPT !.ok = TRUE]
        /\ IF assembled /\ IsPending(i) THEN Cancel(i)
           ELSE UNCHANGED vars
    BY <1>3 DEF CancelQueued
  <2>2. IsPending(i) <=> Waits(log, i)
    BY PendingFacts DEF QueueInv, Inv
  <2>3. In(log, "admitted", i) /\ ~In(log, "promoted", i)
    BY <1>3 DEF QueueInv, RowsTell
  <2>4. /\ UNCHANGED <<chain, current, answer>>
        /\ \A j : In(log', "promoted", j) => In(log, "promoted", j)
        /\ assembled => In(log', "cancelled", i)
    <3>1. CASE assembled /\ IsPending(i)
      <4>1. Cancel(i)
        BY <2>1, <3>1
      <4> QED
        BY <4>1, CancelTakesBack
    <3>2. CASE ~(assembled /\ IsPending(i))
      <4>1. UNCHANGED <<log, chain, current, answer>>
        BY <2>1, <3>2 DEF vars
      <4>2. assembled => In(log, "cancelled", i)
        BY <2>2, <2>3, <3>2 DEF Waits
      <4> QED
        BY <4>1, <4>2
    <3> QED
      BY <3>1, <3>2
  <2>5. PICK rows \in [Input -> RowStates] : rows = [row EXCEPT ![i] = "cancelled"]
    BY <1>2 DEF RowStates
  <2>6. row' = Synced(rows)
    BY <2>1, <2>5
  <2>7. \A j \in Input : rows[j] = row[j] \/ rows[j] = "cancelled"
    BY <1>2, <2>5
  <2>8. chain # <<>> /\ (current # NoInput \/ Waits(log', Head(line)))
            => rows[Head(line)] = row[Head(line)]
    <3> SUFFICES ASSUME chain # <<>>, current # NoInput \/ Waits(log', Head(line))
                 PROVE  Head(line) # i
      BY <1>2, <2>5, FirstInLine DEF QueueInv, Serving
    <3>1. assembled /\ (current # NoInput => current = Head(line))
      BY FirstInLine DEF QueueInv, Serving
    <3>2. ~Waits(log', i)
      BY <2>4, <3>1 DEF Waits
    <3> QED
      BY <1>3, <3>1, <3>2
  <2>9. op'.kind = "cancel" /\ op'.input = i /\ op'.step = "flush" /\ op' \in Calls
    BY <2>1 DEF Call, Calls
  <2>10. CallFits'
    <3>1. In(log', "cancelled", i) \/ i \in blind'
      BY <2>1, <2>4
    <3> QED
      BY <2>9, <3>1 DEF CallFits, In
  <2>11. /\ told' \ blind' \subseteq told \ blind
         /\ told' \cup blind' \cup released' \cup dropped' \subseteq Input
    BY <1>1, <1>2, <2>1
  <2> QED
    BY <1>1, <2>4, <2>6, <2>7, <2>8, <2>9, <2>10, <2>11, SyncsStep
<1>4. CASE ~(i # current /\ row[i] \in {"wait", "queued"})
  <2>1. op' = Call("cancel", i, "inbox") /\ UNCHANGED <<vars, row, dropped, blind>>
    BY <1>4 DEF CancelQueued
  <2>2. CallFits' /\ op' \in Calls
    BY <2>1 DEF Call, Calls, CallFits
  <2> QED
    BY <1>1, <1>2, <2>1, <2>2, QuietStep DEF vars
<1> QED
  BY <1>3, <1>4

LEMMA CancelInboxStep ==
  ASSUME QueueInv, Inv', Continues, CancelInbox
  PROVE  QueueInv'
<1>1. /\ UNCHANGED <<assembled, line, at, dropped, accepted, told, blind, released>>
      /\ op.step = "inbox" /\ row' = Synced(row)
      /\ op' = [op EXCEPT !.step = "flush", !.ok = IsPending(op.input)]
      /\ IF IsPending(op.input) THEN Cancel(op.input)
         ELSE UNCHANGED vars
  BY DEF CancelInbox, ghosts
<1>2. op.input \in Input /\ op.kind = "cancel" /\ op \in Calls
  BY <1>1 DEF QueueInv, CallFits, QueueType
<1>3. row \in [Input -> RowStates] /\ told \cup blind \cup released \cup dropped \subseteq Input
  BY DEF QueueInv, QueueType, QueueTypeOK, RowStates
<1>4. /\ UNCHANGED <<chain, current, answer>>
      /\ \A j : In(log', "promoted", j) => In(log, "promoted", j)
      /\ IsPending(op.input) => In(log', "cancelled", op.input)
  <2>1. CASE IsPending(op.input)
    <3>1. Cancel(op.input)
      BY <1>1, <2>1
    <3> QED
      BY <1>2, <3>1, CancelTakesBack
  <2>2. CASE ~IsPending(op.input)
    BY <1>1, <2>2 DEF vars
  <2> QED
    BY <2>1, <2>2
<1>5. op'.kind = "cancel" /\ op'.input = op.input /\ op'.step = "flush"
      /\ (op'.ok => IsPending(op.input))
  BY <1>1, <1>2 DEF Calls
<1>6. op' \in Calls
  <2>1. PICK b \in BOOLEAN : b <=> IsPending(op.input)
    OBVIOUS
  <2>2. b = IsPending(op.input)
    <3>1. IsPending(op.input) \in BOOLEAN
      BY DEF IsPending
    <3> QED
      BY <2>1, <3>1
  <2> QED
    BY <1>1, <1>2, <2>2 DEF Calls
<1>7. CallFits'
  BY <1>2, <1>4, <1>5 DEF CallFits, In
<1> QED
  BY <1>1, <1>3, <1>4, <1>6, <1>7, SyncsStep

LEMMA CancelAnswersStep ==
  ASSUME QueueInv, Inv', Continues, CancelAnswers
  PROVE  QueueInv'
<1>1. /\ op.kind = "cancel" /\ op.step = "flush" /\ op' = NoCall
      /\ told' = IF op.ok THEN told \cup {op.input} ELSE told
      /\ UNCHANGED <<assembled, line, at, row, dropped, accepted, blind, released>>
      /\ UNCHANGED <<log, chain, current, answer>>
  BY DEF CancelAnswers, Ends, service, OnlySaves, vars
<1>2. op.input \in Input /\ Inv /\ (op.ok => In(log, "cancelled", op.input) \/ op.input \in blind)
  BY <1>1 DEF QueueInv, CallFits
<1>3. In(log, "cancelled", op.input) => \E n \in 1..durable' : log[n] = Event("cancelled", op.input)
  <2>1. Has("cancelled", op.input) <=> In(log, "cancelled", op.input)
    BY DEF Has, In
  <2> QED
    BY <1>2, <2>1, SavedFacts DEF CancelAnswers
<1>4. Promised'
  <2>1. \A i \in accepted : \E n \in 1..durable' : log'[n] = Event("admitted", i)
    BY <1>2, OnDiskStays DEF QueueInv, Promised
  <2>2. \A i \in told \ blind : \E n \in 1..durable' : log'[n] = Event("cancelled", i)
    BY <1>2, OnDiskStays DEF QueueInv, Promised
  <2> QED
    BY <1>1, <1>2, <1>3, <2>1, <2>2 DEF Promised, OnDisk
<1>5. CallFits' /\ op' \in Calls
  BY <1>1, NoCallFits
<1>6. Serving'
  BY <1>1, ServingKept
<1>7. RowsTell' /\ QueueType'
  BY <1>1, <1>2, <1>5 DEF QueueInv, RowsTell, In, QueueType, QueueTypeOK, Calls
<1> QED
  BY <1>4, <1>5, <1>6, <1>7 DEF QueueInv, Continues

LEMMA CancelRunningStep ==
  ASSUME QueueInv, Inv', Continues, CancelRunning
  PROVE  QueueInv'
<1>1. UNCHANGED <<assembled, line, at, op, accepted, told, blind>>
  BY DEF CancelRunning
<1>2. /\ row \in [Input -> RowStates] /\ dropped \cup told \cup blind \cup released \subseteq Input
      /\ at \in {"start", "build", "lane"} /\ assembled \in BOOLEAN /\ line \in Seq(Input)
      /\ op \in Calls
  BY DEF QueueInv, QueueType, QueueTypeOK, RowStates
<1>3. CallFits'
  BY <1>1, CallStays
<1>4. CASE current # NoInput
  <2>1. CancelCurrent /\ UNCHANGED <<row, dropped, released>>
    BY <1>4 DEF CancelRunning
  <2>2. UNCHANGED <<log, chain, current, answer>>
    BY <2>1 DEF CancelCurrent
  <2> QED
    BY <1>1, <1>2, <1>3, <2>1, <2>2, QuietStep
<1>5. CASE current = NoInput
  <2> DEFINE S == {i \in Input : row[i] = "wait" /\ i \notin dropped}
             waiting == Among(line, S)
             first == Head(waiting)
  <2>1. /\ waiting # <<>> /\ UNCHANGED <<vars, released>>
        /\ dropped' = dropped \cup {first}
        /\ row' = Synced([row EXCEPT ![first] = "cancelled"])
    BY <1>5 DEF CancelRunning
  <2>2. first \in Input /\ row[first] = "wait"
    <3>1. waiting \in Seq(Input) /\ \A i : i \in ToSet(waiting) => i \in S
      BY <1>2, AmongQueue
    <3>2. first \in ToSet(waiting)
      <4> HIDE DEF waiting
      <4> QED
        BY <2>1, <3>1 DEF ToSet
    <3> QED
      BY <3>1, <3>2
  <2> HIDE DEF waiting, first, S
  <2>3. PICK rows \in [Input -> RowStates] : rows = [row EXCEPT ![first] = "cancelled"]
    BY <1>2 DEF RowStates
  <2>4. row' = Synced(rows)
    BY <2>1, <2>3
  <2>5. \A j \in Input : rows[j] = row[j] \/ rows[j] = "cancelled"
    BY <1>2, <2>3
  <2>6. UNCHANGED <<log, chain, current, answer>>
    BY <2>1 DEF vars
  <2>7. chain # <<>> /\ (current # NoInput \/ Waits(log', Head(line)))
            => rows[Head(line)] = row[Head(line)]
    <3> SUFFICES ASSUME chain # <<>>, Waits(log, Head(line))
                 PROVE  rows[Head(line)] = row[Head(line)]
      BY <1>5, <2>6
    <3>1. row[Head(line)] = "queued" /\ Head(line) \in Input
      BY <1>5, FirstInLine DEF QueueInv, Serving
    <3> QED
      BY <1>2, <2>2, <2>3, <3>1
  <2>8. /\ told' \ blind' \subseteq told \ blind
        /\ told' \cup blind' \cup released' \cup dropped' \subseteq Input
    BY <1>1, <1>2, <2>1, <2>2
  <2> QED
    BY <1>1, <1>2, <1>3, <2>4, <2>5, <2>6, <2>7, <2>8, SyncsStep
<1> QED
  BY <1>4, <1>5

LEMMA CallsStep ==
  ASSUME QueueInv, Inv', Continues,
         \/ BeginAdmit \/ BeginResume \/ FlushFails
         \/ \E i \in Input : BeginRetry(i)
  PROVE  QueueInv'
<1>1. UNCHANGED <<vars, service, ghosts>>
  BY DEF BeginAdmit, BeginResume, FlushFails, BeginRetry, Begins
<1>2. CallFits' /\ op' \in Calls
  <2>1. CASE FlushFails
    BY <2>1, NoCallFits DEF FlushFails, Ends
  <2>2. CASE BeginAdmit \/ BeginResume
    <3>1. PICK kind \in {"admit", "resume"} : op' = Call(kind, NoInput, "assembly")
      BY <2>2 DEF BeginAdmit, BeginResume, Begins
    <3> QED
      BY <3>1 DEF Call, CallFits, Calls
  <2>3. ASSUME NEW i \in Input, BeginRetry(i) PROVE CallFits' /\ op' \in Calls
    <3>1. In(log, "admitted", i)
      BY <2>3 DEF BeginRetry, Has, In
    <3>2. op' = Call("retry", i, "flush") /\ log' = log
      BY <1>1, <2>3 DEF BeginRetry, Begins, vars
    <3> QED
      BY <3>1, <3>2 DEF Call, CallFits, Calls, In
  <2> QED
    BY <2>1, <2>2, <2>3
<1>3. at \in {"start", "build", "lane"} /\ assembled \in BOOLEAN
  BY DEF QueueInv, QueueType, QueueTypeOK
<1> QED
  BY <1>1, <1>2, <1>3, QuietStep DEF vars, service, ghosts

(* What was promised is on disk, and a restart keeps that.                   *)
LEMMA QueueRestartStep ==
  ASSUME QueueInv, Inv', QueueRestart
  PROVE  QueueInv'
<1>1. /\ assembled' = FALSE /\ line' = <<>> /\ at' = "start" /\ row' = [i \in Input |-> "none"]
      /\ dropped' = {} /\ op' = NoCall /\ released' = Input
      /\ UNCHANGED <<accepted, told, blind>>
  BY DEF QueueRestart
<1>2. Restart
  BY DEF QueueRestart
<1>3. /\ durable' \in durable..Len(log) /\ log' = SubSeq(log, 1, durable') /\ chain' = <<>>
      /\ host' = host
  BY <1>2 DEF Restart, Kept
<1>4. durable \in 0..Len(log) /\ Len(log) \in Nat /\ log \in Seq(Events)
  <2>1. TypeOK /\ GoodLog(log)
    BY DEF QueueInv, Inv
  <2> QED
    BY <2>1 DEF TypeOK, GoodLog
<1>5. \A n \in 1..durable : n \in 1..durable' /\ log'[n] = log[n]
  <2>1. PICK k \in 0..Len(log) : k = durable' /\ durable <= k
    BY <1>3, <1>4
  <2>2. \A n \in 1..k : SubSeq(log, 1, k)[n] = log[n]
    BY <1>4
  <2>3. log' = SubSeq(log, 1, k)
    BY <1>3, <2>1
  <2>4. \A n \in 1..durable : n \in 1..k
    BY <1>4, <2>1
  <2> QED
    BY <2>1, <2>2, <2>3, <2>4
<1>6. Promised'
  BY <1>1, <1>5 DEF QueueInv, Promised, OnDisk
<1>7. Serving' /\ RowsTell'
  BY <1>1, <1>3 DEF Serving, RowsTell
<1>8. CallFits' /\ op' \in Calls
  BY <1>1, NoCallFits
<1>9. QueueType'
  <2>1. accepted \cup told \cup blind \subseteq Input
    BY DEF QueueInv, QueueType, QueueTypeOK
  <2>2. op'.input \in Input \cup {NoInput}
    BY <1>8 DEF Calls
  <2>3. /\ row' \in [Input -> {"none", "wait", "queued", "running", "cancelled"}]
        /\ assembled' \in BOOLEAN /\ at' \in {"start", "build", "lane"}
    BY <1>1
  <2>4. line' \in Seq(Input)
    BY <1>1
  <2> QED
    BY <1>1, <1>8, <2>1, <2>2, <2>3, <2>4 DEF QueueType, QueueTypeOK
<1> QED
  BY <1>3, <1>6, <1>7, <1>8, <1>9 DEF QueueInv

LEMMA QueueInitially == QueueInit => QueueInv
<1> SUFFICES ASSUME QueueInit PROVE QueueInv
  OBVIOUS
<1>1. Inv
  BY Initially DEF QueueInit
<1>2. /\ host = "service" /\ assembled = FALSE /\ line = <<>> /\ at = "start"
      /\ row = [i \in Input |-> "none"] /\ dropped = {} /\ op = NoCall
      /\ accepted = {} /\ told = {} /\ blind = {} /\ released = {}
  BY DEF QueueInit
<1>3. chain = <<>>
  BY DEF QueueInit, Init
<1>4. op \in Calls /\ CallFits
  BY <1>2 DEF NoCall, Call, Calls, CallFits
<1>5. QueueType
  <2>1. op.input \in Input \cup {NoInput}
    BY <1>4 DEF Calls
  <2>2. /\ row \in [Input -> {"none", "wait", "queued", "running", "cancelled"}]
        /\ assembled \in BOOLEAN /\ at \in {"start", "build", "lane"}
    BY <1>2
  <2>3. line \in Seq(Input)
    BY <1>2
  <2> QED
    BY <1>2, <1>4, <2>1, <2>2, <2>3 DEF QueueType, QueueTypeOK
<1> QED
  BY <1>1, <1>2, <1>3, <1>4, <1>5 DEF QueueInv, Serving, RowsTell, Promised

LEMMA QueueSteps ==
  QueueInv /\ [QueueNext]_queueVars => QueueInv'
<1> SUFFICES ASSUME QueueInv, [QueueNext]_queueVars PROVE QueueInv'
  OBVIOUS
<1>1. Inv'
  BY LaneInvNext
<1>2. CASE QueueRestart
  BY <1>1, <1>2, QueueRestartStep
<1>3. CASE ~QueueRestart
  <2>1. restarts' = restarts
    BY <1>3, KeepsRestarts
  <2>2. Inv /\ [Next \/ Saves]_vars
    BY QueueStepsLane DEF QueueInv
  <2>3. Continues
    BY <2>1, <2>2, LaneContinues
  <2>4. CASE Paces
    BY <1>1, <2>3, <2>4, StartTurnStep, AskLaneStep, LaneAnswersStep DEF Paces
  <2>5. CASE Assembles
    BY <1>1, <2>3, <2>5, BuildStep, BuildFailsStep DEF Assembles
  <2>6. CASE LaneStep
    BY <1>1, <2>3, <2>6, LaneStepStep
  <2>7. CASE Proceeds
    BY <1>1, <2>3, <2>7, AdmitInputStep, AcknowledgesStep, ResumesStep, CancelInboxStep,
       CancelAnswersStep, CallsStep DEF Proceeds
  <2>8. CASE \/ BeginAdmit \/ BeginResume
             \/ \E i \in Input : BeginRetry(i)
    BY <1>1, <2>3, <2>8, CallsStep
  <2>9. CASE \E i \in Input : CancelQueued(i)
    BY <1>1, <2>3, <2>9, CancelQueuedStep
  <2>10. CASE CancelRunning
    BY <1>1, <2>3, <2>10, CancelRunningStep
  <2>11. CASE UNCHANGED queueVars
    <3>1. /\ UNCHANGED <<log, chain, current, answer, line, row, dropped, accepted, told, blind, released>>
          /\ UNCHANGED <<at, assembled, op>>
      BY <2>11 DEF queueVars, vars, service, ghosts
    <3>2. /\ CallFits' /\ op' \in Calls /\ at' \in {"start", "build", "lane"}
          /\ assembled' \in BOOLEAN
      BY <2>3, <3>1, CallStays DEF QueueInv, QueueType, QueueTypeOK
    <3> QED
      BY <1>1, <2>3, <3>1, <3>2, QuietStep
  <2> QED
    BY <1>3, <2>4, <2>5, <2>6, <2>7, <2>8, <2>9, <2>10, <2>11 DEF QueueNext
<1> QED
  BY <1>2, <1>3

-----------------------------------------------------------------------------
(* The invariant of the lane and of those who drive it, for any number of    *)
(* inputs and restarts.                                                      *)
THEOREM QueueInvariance ==
  QueueSpec => []QueueInv
<1>1. QueueInv /\ [QueueNext]_queueVars => QueueInv'
  BY QueueSteps
<1> QED
  BY <1>1, QueueInitially, PTL DEF QueueSpec

(* The queue keeps to what ExecutorLane takes for granted: every step it lets *)
(* the lane take is one of the lane's own, an input is asked for when the    *)
(* lane is idle and not before, and beside that it only saves                *)
(* (service.ts:848, prev.then).                                              *)
THEOREM QueueDrivesLane ==
  QueueSpec => Init /\ [][Next \/ Saves]_vars
<1>1. QueueInv /\ [QueueNext]_queueVars => [Next \/ Saves]_vars
  BY QueueStepsLane
<1>2. QueueSpec => []QueueInv
  BY QueueInvariance
<1>3. QueueInit => Init
  BY DEF QueueInit
<1> QED
  BY <1>1, <1>2, <1>3, PTL DEF QueueSpec

(* However many submissions are in line, the lane has one pump at most. *)
THEOREM LaneIsServedOne ==
  QueueSpec => []LaneServesOne
<1>1. QueueInv => LaneServesOne
  <2> SUFFICES ASSUME QueueInv PROVE Len(chain) <= 1
    BY DEF LaneServesOne
  <2>1. chain = <<>> \/ \E i \in Input : chain = <<i>>
    BY DEF QueueInv, Inv, Pumps
  <2>2. Len(<<>>) <= 1 /\ \A i \in Input : Len(<<i>>) <= 1
    OBVIOUS
  <2> QED
    BY <2>1, <2>2
<1>2. QueueSpec => []QueueInv
  BY QueueInvariance
<1> QED
  BY <1>1, <1>2, PTL

(* The row of the running input says that it runs, for as long as it does. *)
THEOREM RunningIsAlwaysShown ==
  QueueSpec => []RunningIsShown
<1>1. QueueInv => RunningIsShown
  BY FirstInLine DEF RunningIsShown, QueueInv, Serving
<1>2. QueueSpec => []QueueInv
  BY QueueInvariance
<1> QED
  BY <1>1, <1>2, PTL

LEMMA OnDiskIsThere ==
  ASSUME Inv, NEW kind, NEW i, OnDisk(kind, i)
  PROVE  In(log, kind, i)
<1>1. durable \in 0..Len(log) /\ DOMAIN log = 1..Len(log) /\ Len(log) \in Nat
  BY DEF Inv, TypeOK, GoodLog
<1> QED
  BY <1>1 DEF OnDisk, In

(* What a caller was told is cancelled never reaches the model, now or after  *)
(* a restart, unless it was cancelled while the session had no lane.         *)
THEOREM CancelledStays ==
  QueueSpec => []CancelledStaysCancelled
<1>1. QueueInv => CancelledStaysCancelled
  <2> SUFFICES ASSUME QueueInv, NEW i \in told \ blind PROVE ~Has("promoted", i)
    BY DEF CancelledStaysCancelled
  <2>1. Inv /\ OnDisk("cancelled", i)
    BY DEF QueueInv, Promised
  <2>2. GoodLog(log) /\ In(log, "cancelled", i)
    BY <2>1, OnDiskIsThere DEF Inv
  <2>3. ~In(log, "promoted", i)
    BY <2>2, CancelledIsNotTaken
  <2> QED
    BY <2>3 DEF Has, In
<1>2. QueueSpec => []QueueInv
  BY QueueInvariance
<1> QED
  BY <1>1, <1>2, PTL

(* What a caller was told is accepted stays admitted over every restart. *)
THEOREM AcceptedStays ==
  QueueSpec => []AcceptedIsKept
<1>1. QueueInv => AcceptedIsKept
  <2> SUFFICES ASSUME QueueInv, NEW i \in accepted PROVE Has("admitted", i)
    BY DEF AcceptedIsKept
  <2>1. Inv /\ OnDisk("admitted", i)
    BY DEF QueueInv, Promised
  <2>2. In(log, "admitted", i)
    BY <2>1, OnDiskIsThere
  <2> QED
    BY <2>2 DEF Has, In
<1>2. QueueSpec => []QueueInv
  BY QueueInvariance
<1> QED
  BY <1>1, <1>2, PTL

(* What the lane promises holds for the inputs of the queue: they are read   *)
(* once, a restart loses one at most, an answer is the caller's own, and what *)
(* was reported to have succeeded is on disk.                                *)
THEOREM QueuedInputsAreReadOnce ==
  QueueSpec => [](ReadOnce /\ OneLostPerRestart /\ AnswerIsOwn /\ DoneIsDurable)
<1>1. QueueInv => ReadOnce /\ OneLostPerRestart /\ AnswerIsOwn /\ DoneIsDurable
  BY LogIsReadOnce DEF QueueInv, Inv, Lost, LostOf, OneLostPerRestart, Has, In
<1>2. QueueSpec => []QueueInv
  BY QueueInvariance
<1> QED
  BY <1>1, <1>2, PTL

=============================================================================
