---------------------------- MODULE JsonlStoreProofs ----------------------------
(***************************************************************************)
(* Proofs about JsonlStore, for logs, batches and crashes of any number,   *)
(* and whatever the Faults are: until one of them happens, what an append  *)
(* acknowledged can be read, every seq is in its place, and an append      *)
(* always starts behind a finished line.                                   *)
(*                                                                         *)
(* Until then (Healthy) the file is the first events of a positional log,  *)
(* each a line of its own, with at most one torn line behind them (Holds); *)
(* before and between appends it is exactly what was acknowledged, which   *)
(* is what an append measures and cuts back to.                            *)
(***************************************************************************)
EXTENDS JsonlStore, TLAPS

Pieces == [event : Events, whole : BOOLEAN]
Lines  == Seq(Pieces)
Begin(events, n) == [i \in 1 .. n |-> events[i]]
Positional(events) == \A i \in DOMAIN events : events[i].seq = i

(* What a crash may leave: the last event may be a closer without a seq.    *)
Closer == [seq |-> NoSeq, kind |-> "turn/end"]
NearlyPositional(events) ==
    \A i \in DOMAIN events :
        events[i].seq = i \/ (i = Len(events) /\ events[i] = Closer)

(* The lines are the first n events, and at most one torn line.             *)
Holds(text, events, n) ==
    /\ text \in Seq(Lines)
    /\ n \in 0 .. Len(events)
    /\ Len(text) \in {n, n + 1}
    /\ \A i \in 1 .. n : text[i] = Whole(events[i])
    /\ Len(text) = n + 1 => ~ValidLine(text[n + 1])

(* ... and nothing is torn. *)
IsExactly(text, events, n) == Holds(text, events, n) /\ Len(text) = n

(* ... and the last newline is there. *)
Clean(file, events, n) ==
    file = [lines |-> file.lines, closedLine |-> TRUE] /\ IsExactly(file.lines, events, n)

(* A batch is what the log has next. *)
Copies(more, events, k) ==
    /\ more \in Seq(Events) /\ k + Len(more) <= Len(events)
    /\ \A i \in 1 .. Len(more) : more[i] = events[k + i]

(* What a write behind whole lines leaves, however far it got: more of the  *)
(* same events; a last line that is whole and unfinished lacks its newline. *)
Leaves(after, events, k) ==
    /\ \E m \in Nat :
          /\ k <= m /\ Holds(after.lines, events, m)
          /\ Len(after.lines) = m => after.closedLine = TRUE \/ Unterminated(after)
    /\ after.lines = <<>> => after.closedLine = TRUE

Appending == {"opened", "sized", "written", "failed"}
Measured  == {"sized", "written", "failed"}

LogFits ==
    /\ log \in Seq(Events) /\ Positional(log) /\ kept \in Nat
    /\ phase \in {"idle", "down", "repaired"} \cup Appending

BatchFits ==
    phase \in Appending => Copies(batch, log, kept) /\ batch # <<>>

BaseFits ==
    phase \in Measured => Clean(base, log, kept)

FileFits ==
    /\ phase \in {"idle", "opened", "sized"} => Clean(File, log, kept)
    /\ phase = "written" => Clean(File, log, kept + Len(batch))
    /\ phase = "failed" => Leaves(File, log, kept)

(* What a crash leaves is what a log no longer known began with.            *)
DiskFits ==
    phase = "down" =>
        \E events \in Seq(Events) :
            NearlyPositional(events) /\ Leaves(File, events, kept) /\ ~Unterminated(File)

(* A repair leaves whole lines only. *)
RepairFits ==
    phase = "repaired" =>
        \E events \in Seq(Events), n \in Nat :
            NearlyPositional(events) /\ n = Len(events) /\ kept <= n /\ Clean(File, events, n)

Healthy == LogFits /\ BatchFits /\ BaseFits /\ FileFits /\ DiskFits /\ RepairFits

IInv == faulty \/ Healthy

-----------------------------------------------------------------------------
(* Reading. *)

(* What a reader makes of such lines are those n events.                    *)
LEMMA CommittedIs ==
    ASSUME NEW file, NEW events \in Seq(Events), NEW n, Holds(file.lines, events, n)
    PROVE  /\ Committed(file) = Begin(events, n)
           /\ HasTornTail(file) <=> Len(file.lines) = n + 1
<1> DEFINE text == file.lines
           valid == {k \in 0 .. Len(text) : \A i \in 1 .. k : ValidLine(text[i])}
<1>1. /\ n \in Nat /\ n <= Len(events) /\ text \in Seq(Lines) /\ Len(text) \in Nat
      /\ Len(text) = n \/ Len(text) = n + 1
  BY DEF Holds
<1>2. \A i \in 1 .. n : ValidLine(text[i]) /\ text[i][1].event = events[i]
  <2> TAKE i \in 1 .. n
  <2>1. text[i] = <<[event |-> events[i], whole |-> TRUE]>>
    BY DEF Holds, Whole
  <2> QED
    BY <2>1 DEF ValidLine
<1>3. n \in valid
  BY <1>1, <1>2
<1>4. \A k \in valid : k <= n
  <2> TAKE k \in valid
  <2>1. /\ k \in Nat /\ k <= Len(text)
        /\ \A i \in 1 .. k : ValidLine(text[i])
    BY <1>1
  <2>2. Len(text) = n + 1 => ~ValidLine(text[n + 1])
    BY DEF Holds
  <2> HIDE DEF text
  <2> QED
    BY <2>1, <2>2, <1>1
<1>5. (CHOOSE k \in valid : \A j \in valid : j <= k) = n
  <2> DEFINE top == CHOOSE k \in valid : \A j \in valid : j <= k
  <2>1. top \in valid /\ \A j \in valid : j <= top
    BY <1>3, <1>4
  <2>2. \A k \in valid : k \in Nat
    BY <1>1
  <2> HIDE DEF valid, top, text
  <2>3. top \in Nat /\ n <= top /\ top <= n
    BY <2>1, <2>2, <1>3, <1>4
  <2> QED
    BY <2>3, <1>1 DEF top
<1>6. Committed(file) = [i \in 1 .. n |-> text[i][1].event]
  BY <1>5 DEF Committed
<1>7. HasTornTail(file) <=> Len(text) = n + 1
  <2>1. CASE Len(text) = n + 1
    BY <2>1, <1>1 DEF HasTornTail, Last, Holds
  <2>2. CASE Len(text) = n
    BY <2>2, <1>1, <1>2 DEF HasTornTail, Last
  <2> QED
    BY <2>1, <2>2, <1>1
<1> QED
  BY <1>2, <1>6, <1>7 DEF Begin

LEMMA BeginIs ==
    ASSUME NEW events \in Seq(Events), NEW n \in 0 .. Len(events)
    PROVE  /\ Begin(events, n) \in Seq(Events) /\ Len(Begin(events, n)) = n
           /\ \A i \in 1 .. n : Begin(events, n)[i] = events[i]
           /\ Begin(events, n) = SubSeq(events, 1, n)
           /\ Positional(events) => Positional(Begin(events, n))
           /\ NearlyPositional(events) => NearlyPositional(Begin(events, n))
<1>1. Begin(events, n) \in Seq(Events) /\ Len(Begin(events, n)) = n
  BY DEF Begin
<1>2. \A i \in 1 .. n : Begin(events, n)[i] = events[i]
  BY DEF Begin
<1>3. Begin(events, n) = SubSeq(events, 1, n)
  BY DEF Begin
<1>4. Positional(events) => Positional(Begin(events, n))
  BY <1>1, <1>2 DEF Positional
<1>5. ASSUME NearlyPositional(events) PROVE NearlyPositional(Begin(events, n))
  <2> DEFINE first == Begin(events, n)
  <2>1. ASSUME NEW i \in 1 .. n, events[i].seq # i PROVE i = n /\ events[i] = Closer
    BY <1>5, <2>1 DEF NearlyPositional
  <2>2. DOMAIN first = 1 .. n /\ Len(first) = n /\ \A i \in 1 .. n : first[i] = events[i]
    BY <1>1, <1>2
  <2> HIDE DEF first
  <2>3. NearlyPositional(first)
    BY <2>1, <2>2 DEF NearlyPositional
  <2> QED
    BY <2>3 DEF first
<1> QED
  BY <1>1, <1>2, <1>3, <1>4, <1>5

(* A longer log still begins so.                                            *)
LEMMA HoldsOfMore ==
    ASSUME NEW text, NEW events \in Seq(Events), NEW more \in Seq(Events), NEW n,
           Len(events) <= Len(more), \A i \in 1 .. Len(events) : more[i] = events[i],
           Holds(text, events, n)
    PROVE  Holds(text, more, n)
<1>1. n \in 0 .. Len(events) /\ n \in 0 .. Len(more)
  BY DEF Holds
<1>2. \A i \in 1 .. n : Whole(events[i]) = Whole(more[i])
  BY <1>1
<1> QED
  BY <1>1, <1>2 DEF Holds

LEMMA WholeIs ==
    ASSUME NEW e \in Events
    PROVE  /\ Whole(e) \in Lines /\ ValidLine(Whole(e))
           /\ Part(e) \in Lines /\ ~ValidLine(Part(e))
<1>1. [event |-> e, whole |-> TRUE] \in Pieces /\ [event |-> e, whole |-> FALSE] \in Pieces
  BY DEF Pieces
<1> QED
  BY <1>1 DEF Whole, Part, ValidLine, Lines

-----------------------------------------------------------------------------
(* Writing. *)

LEMMA FullLines ==
    ASSUME NEW events \in Seq(Events), NEW n \in 0 .. Len(events)
    PROVE  LET full == [i \in 1 .. n |-> Whole(events[i])]
           IN  /\ full \in Seq(Lines) /\ Len(full) = n
               /\ \A i \in 1 .. n : full[i] = Whole(events[i])
<1>1. \A i \in 1 .. n : events[i] \in Events
  OBVIOUS
<1>2. \A i \in 1 .. n : Whole(events[i]) \in Lines
  BY <1>1, WholeIs
<1> QED
  BY <1>2

(* The lines of a write behind those of the file; kept a name of its own,   *)
(* so that the facts about it are used and not its definition.              *)
Behind(text, full, tail) == text \o (full \o tail)

LEMMA Joined ==
    ASSUME NEW T, NEW text \in Seq(T), NEW full \in Seq(T), NEW tail \in Seq(T)
    PROVE  /\ Behind(text, full, tail) \in Seq(T)
           /\ Len(Behind(text, full, tail)) = Len(text) + Len(full) + Len(tail)
           /\ \A i \in 1 .. Len(text) : Behind(text, full, tail)[i] = text[i]
           /\ \A i \in 1 .. Len(full) : Behind(text, full, tail)[Len(text) + i] = full[i]
           /\ \A i \in 1 .. Len(tail) :
                 Behind(text, full, tail)[Len(text) + Len(full) + i] = tail[i]
BY DEF Behind

GoesOn(full, events, k) ==
    /\ full \in Seq(Lines) /\ k + Len(full) <= Len(events)
    /\ \A i \in 1 .. Len(full) : full[i] = Whole(events[k + i])

Torn(tail) == tail \in Seq(Lines) /\ Len(tail) = 1 /\ ~ValidLine(tail[1])

Unfinished(tail, events, k) ==
    tail \in Seq(Lines) /\ Len(tail) = 1 /\ k < Len(events) /\ tail[1] = Whole(events[k + 1])

LEMMA MoreLines ==
    ASSUME NEW events \in Seq(Events), NEW text, NEW k \in Nat, IsExactly(text, events, k),
           NEW full, GoesOn(full, events, k), NEW tail \in Seq(Lines),
           NEW m \in Nat, m = k + Len(full)
    PROVE  /\ tail = <<>> => IsExactly(Behind(text, full, tail), events, m)
           /\ Torn(tail) => /\ Holds(Behind(text, full, tail), events, m)
                            /\ Len(Behind(text, full, tail)) # m
           /\ Unfinished(tail, events, m) => IsExactly(Behind(text, full, tail), events, m + 1)
<1> DEFINE text2 == Behind(text, full, tail)
<1>1. /\ text \in Seq(Lines) /\ Len(text) = k
      /\ \A i \in 1 .. k : text[i] = Whole(events[i])
      /\ full \in Seq(Lines) /\ m <= Len(events)
      /\ \A i \in 1 .. Len(full) : full[i] = Whole(events[k + i])
  BY DEF IsExactly, Holds, GoesOn
<1>2. /\ text2 \in Seq(Lines) /\ Len(text2) = Len(text) + Len(full) + Len(tail)
      /\ \A i \in 1 .. Len(text) : text2[i] = text[i]
      /\ \A i \in 1 .. Len(full) : text2[Len(text) + i] = full[i]
      /\ \A i \in 1 .. Len(tail) : text2[Len(text) + Len(full) + i] = tail[i]
  <2>1. text \in Seq(Lines) /\ full \in Seq(Lines)
    BY <1>1
  <2>2. text2 \in Seq(Lines) /\ Len(text2) = Len(text) + Len(full) + Len(tail)
    BY <2>1, Joined
  <2>3. \A i \in 1 .. Len(text) : text2[i] = text[i]
    BY <2>1, Joined
  <2>4. \A i \in 1 .. Len(full) : text2[Len(text) + i] = full[i]
    BY <2>1, Joined
  <2>5. \A i \in 1 .. Len(tail) : text2[Len(text) + Len(full) + i] = tail[i]
    BY <2>1, Joined
  <2> QED
    BY <2>2, <2>3, <2>4, <2>5
<1> HIDE DEF text2
<1>3. ASSUME NEW i \in 1 .. m PROVE text2[i] = Whole(events[i])
  <2>1. CASE i <= k
    BY <2>1, <1>1, <1>2
  <2>2. CASE i > k
    <3>1. i - k \in 1 .. Len(full) /\ k + (i - k) = i
      BY <2>2, <1>1
    <3>2. text2[k + (i - k)] = full[i - k] /\ full[i - k] = Whole(events[k + (i - k)])
      BY <3>1, <1>1, <1>2
    <3> QED
      BY <3>1, <3>2
  <2> QED
    BY <2>1, <2>2
<1>4. /\ Len(text2) \in Nat /\ Len(text2) = m + Len(tail) /\ m \in 0 .. Len(events)
      /\ Len(tail) = 1 => text2[m + 1] = tail[1]
  BY <1>1, <1>2
<1>5. ASSUME tail = <<>> PROVE IsExactly(text2, events, m)
  <2>1. Len(text2) = m
    BY <1>4, <1>5
  <2> QED
    BY <2>1, <1>2, <1>3, <1>4 DEF IsExactly, Holds
<1>6. ASSUME Torn(tail) PROVE Holds(text2, events, m) /\ Len(text2) # m
  <2>1. Len(text2) = m + 1 /\ ~ValidLine(text2[m + 1])
    BY <1>4, <1>6 DEF Torn
  <2> QED
    BY <2>1, <1>2, <1>3, <1>4 DEF Holds
<1>7. ASSUME Unfinished(tail, events, m) PROVE IsExactly(text2, events, m + 1)
  <2>1. /\ Len(text2) = m + 1 /\ text2[m + 1] = Whole(events[m + 1])
        /\ m + 1 \in 0 .. Len(events)
    BY <1>4, <1>7 DEF Unfinished
  <2>2. \A i \in 1 .. m + 1 : text2[i] = Whole(events[i])
    BY <2>1, <1>3
  <2> QED
    BY <2>1, <2>2, <1>2 DEF IsExactly, Holds
<1> QED
  BY <1>5, <1>6, <1>7 DEF text2

LEMMA LastIsWhole ==
    ASSUME NEW events \in Seq(Events), NEW text, NEW m \in Nat, IsExactly(text, events, m + 1)
    PROVE  text # <<>> /\ ValidLine(Last(text))
<1>1. /\ text \in Seq(Lines) /\ Len(text) = m + 1 /\ m + 1 <= Len(events)
      /\ \A i \in 1 .. m + 1 : text[i] = Whole(events[i])
  BY DEF IsExactly, Holds
<1>2. text[m + 1] = Whole(events[m + 1]) /\ events[m + 1] \in Events
  BY <1>1
<1>3. ValidLine(text[m + 1])
  BY <1>2, WholeIs
<1> QED
  BY <1>1, <1>3 DEF Last

LEMMA WriteIs ==
    ASSUME NEW events \in Seq(Events), NEW more, NEW k \in Nat, Copies(more, events, k),
           NEW file, Clean(file, events, k),
           NEW n \in Nat, n <= Len(more), NEW rest \in {"nothing", "part", "unterminated"},
           rest # "nothing" => n < Len(more), NEW m \in Nat, m = k + n
    PROVE  /\ Leaves(WriteUpTo(file, more, n, rest), events, k)
           /\ rest = "nothing" => Clean(WriteUpTo(file, more, n, rest), events, m)
<1> DEFINE full == [i \in 1 .. n |-> Whole(more[i])]
           tail == CASE rest = "nothing"      -> <<>>
                     [] rest = "part"         -> <<Part(more[n + 1])>>
                     [] rest = "unterminated" -> <<Whole(more[n + 1])>>
           text == file.lines
           after == WriteUpTo(file, more, n, rest)
<1>1. /\ more \in Seq(Events) /\ Len(more) \in Nat
      /\ k + Len(more) <= Len(events)
      /\ \A i \in 1 .. Len(more) : more[i] = events[k + i]
  BY DEF Copies
<1>2. GoesOn(full, events, k) /\ Len(full) = n
  <2>1. full \in Seq(Lines) /\ Len(full) = n /\ \A i \in 1 .. n : full[i] = Whole(more[i])
    BY <1>1, FullLines
  <2>2. \A i \in 1 .. n : full[i] = Whole(events[k + i])
    BY <2>1, <1>1
  <2> QED
    BY <2>1, <2>2, <1>1 DEF GoesOn
<1>3. rest # "nothing" => /\ more[n + 1] \in Events /\ more[n + 1] = events[m + 1]
                          /\ m < Len(events)
  <2> SUFFICES ASSUME rest # "nothing"
               PROVE  /\ more[n + 1] \in Events /\ more[n + 1] = events[m + 1]
                      /\ m < Len(events)
    OBVIOUS
  <2>1. n + 1 \in 1 .. Len(more) /\ k + (n + 1) = m + 1 /\ m < Len(events)
    BY <1>1
  <2> QED
    BY <2>1, <1>1
<1>4. /\ after.lines = Behind(text, full, tail)
      /\ full \o tail = <<>> \/ rest = "nothing" => after.closedLine = TRUE
      /\ full \o tail # <<>> /\ rest # "nothing" => after.closedLine = FALSE
      /\ after = [lines |-> after.lines, closedLine |-> after.closedLine]
  <2>1. file.closedLine = TRUE
    BY DEF Clean
  <2> DEFINE to   == Glue(file, full \o tail)
             shut == IF full \o tail = <<>> THEN file.closedLine ELSE rest = "nothing"
  <2>2. to = Behind(text, full, tail)
    BY <2>1 DEF Glue, Behind
  <2>3. after = [lines |-> to, closedLine |-> shut]
    BY DEF WriteUpTo
  <2> HIDE DEF to, after
  <2>4. after.lines = to /\ after.closedLine = shut
    BY <2>3
  <2>5. full \o tail = <<>> \/ rest = "nothing" => shut = TRUE
    BY <2>1
  <2>6. full \o tail # <<>> /\ rest # "nothing" => shut = FALSE
    OBVIOUS
  <2> HIDE DEF shut
  <2> QED
    BY <2>2, <2>3, <2>4, <2>5, <2>6
<1>t. IsExactly(text, events, k)
  BY DEF Clean
<1> HIDE DEF full, text, after
<1>5. CASE rest = "nothing"
  <2>1. tail = <<>> /\ tail \in Seq(Lines)
    BY <1>5
  <2> HIDE DEF tail
  <2>2. IsExactly(after.lines, events, m)
    BY <2>1, <1>1, <1>2, <1>4, <1>t, MoreLines
  <2>3. after.closedLine = TRUE /\ Clean(after, events, m)
    BY <2>2, <1>4, <1>5 DEF Clean
  <2>4. Leaves(after, events, k)
    BY <2>2, <2>3, <1>1 DEF IsExactly, Leaves
  <2> QED
    BY <2>3, <2>4 DEF after
<1>6. CASE rest = "part"
  <2>1. tail = <<Part(more[n + 1])>>
    BY <1>6
  <2>2. Torn(tail) /\ tail \in Seq(Lines)
    BY <2>1, <1>3, <1>6, WholeIs DEF Torn
  <2> HIDE DEF tail
  <2>3. Holds(after.lines, events, m) /\ Len(after.lines) # m
    BY <2>2, <1>1, <1>2, <1>4, <1>t, MoreLines
  <2>4. after.lines # <<>>
    BY <2>3, <1>1 DEF Holds
  <2>5. m \in Nat /\ k <= m
    OBVIOUS
  <2>6. Leaves(after, events, k)
    BY <2>3, <2>4, <2>5 DEF Leaves
  <2> QED
    BY <2>6, <1>6 DEF after
<1>7. CASE rest = "unterminated"
  <2>1. tail = <<Whole(more[n + 1])>>
    BY <1>7
  <2>2. Unfinished(tail, events, m) /\ tail \in Seq(Lines) /\ Len(tail) = 1
    BY <2>1, <1>3, <1>7, WholeIs DEF Unfinished
  <2> HIDE DEF tail
  <2>3. IsExactly(after.lines, events, m + 1)
    BY <2>2, <1>1, <1>2, <1>4, <1>t, MoreLines
  <2>4. after.closedLine = FALSE
    <3>1. Len(full \o tail) = Len(full) + Len(tail)
      <4>1. full \in Seq(Lines) /\ tail \in Seq(Lines)
        BY <2>2, <1>2 DEF GoesOn
      <4> QED
        BY <4>1
    <3>2. full \o tail # <<>>
      BY <3>1, <2>2, <1>2
    <3> QED
      BY <3>2, <1>4, <1>7
  <2>5. after.lines # <<>> /\ ValidLine(Last(after.lines))
    BY <2>3, LastIsWhole
  <2>6. Unterminated(after)
    BY <2>4, <2>5 DEF Unterminated
  <2>7. m + 1 \in Nat /\ k <= m + 1
    BY <1>1
  <2>8. Leaves(after, events, k)
    BY <2>3, <2>5, <2>6, <2>7 DEF IsExactly, Leaves
  <2> QED
    BY <2>8, <1>7 DEF after
<1> QED
  BY <1>5, <1>6, <1>7 DEF after

LEMMA CleanLeaves ==
    ASSUME NEW events \in Seq(Events), NEW k \in Nat, NEW n \in Nat, k <= n, NEW file,
           Clean(file, events, n)
    PROVE  Leaves(file, events, k) /\ ~Unterminated(file)
<1>1. file.closedLine = TRUE
  BY DEF Clean
<1> QED
  BY <1>1 DEF Leaves, IsExactly, Clean, Unterminated

LEMMA IncompleteLeaves ==
    ASSUME NEW events \in Seq(Events), NEW more, NEW k \in Nat, Copies(more, events, k),
           NEW file, Clean(file, events, k), NEW after \in IncompleteWrites(file, more)
    PROVE  Leaves(after, events, k)
<1>1. Len(more) \in Nat
  BY DEF Copies
<1>2. PICK n \in 0 .. Len(more) - 1, rest \in {"nothing", "part", "unterminated"} :
         after = WriteUpTo(file, more, n, rest)
  BY DEF IncompleteWrites
<1>3. n \in Nat /\ n <= Len(more) /\ n < Len(more)
  BY <1>1, <1>2
<1> DEFINE m == k + n
<1>4. m \in Nat /\ m = k + n
  BY <1>3
<1> HIDE DEF m
<1>5. Leaves(WriteUpTo(file, more, n, rest), events, k)
  BY <1>2, <1>3, <1>4, WriteIs
<1> QED
  BY <1>2, <1>5

(* The whole batch, written behind what was kept. *)
LEMMA BatchWritten ==
    ASSUME NEW events \in Seq(Events), NEW more, NEW k \in Nat, Copies(more, events, k),
           NEW file, Clean(file, events, k), NEW m \in Nat, m = k + Len(more)
    PROVE  Clean(WriteUpTo(file, more, Len(more), "nothing"), events, m)
<1>1. Len(more) \in Nat /\ Len(more) <= Len(more)
  BY DEF Copies
<1> QED
  BY <1>1, WriteIs

-----------------------------------------------------------------------------
(* A log that grows in memory disturbs nothing said of its beginning. *)
LEMMA LogGrows ==
    ASSUME NEW events \in Seq(Events), NEW e \in Events, NEW more, more = Append(events, e)
    PROVE  /\ more \in Seq(Events)
           /\ Positional(events) /\ e.seq = Len(events) + 1 => Positional(more)
           /\ \A file, n : Clean(file, events, n) => Clean(file, more, n)
           /\ \A some, k : Copies(some, events, k) /\ k \in Nat => Copies(some, more, k)
           /\ \A file, k : Leaves(file, events, k) => Leaves(file, more, k)
<1>1. /\ more \in Seq(Events) /\ Len(events) <= Len(more)
      /\ \A i \in 1 .. Len(events) : more[i] = events[i]
  OBVIOUS
<1>2. ASSUME Positional(events), e.seq = Len(events) + 1 PROVE Positional(more)
  BY <1>2 DEF Positional
<1>3. ASSUME NEW text, NEW n, Holds(text, events, n) PROVE Holds(text, more, n)
  BY <1>1, <1>3, HoldsOfMore
<1>4. ASSUME NEW file, NEW n, Clean(file, events, n) PROVE Clean(file, more, n)
  BY <1>3, <1>4 DEF IsExactly, Clean
<1>5. ASSUME NEW some, NEW k \in Nat, Copies(some, events, k) PROVE Copies(some, more, k)
  BY <1>1, <1>5 DEF Copies
<1>6. ASSUME NEW file, NEW k, Leaves(file, events, k) PROVE Leaves(file, more, k)
  BY <1>3, <1>6 DEF Leaves
<1> QED
  BY <1>1, <1>2, <1>3, <1>4, <1>5, <1>6

LEMMA InitHealthy ==
    Init => IInv
<1> SUFFICES ASSUME Init PROVE Healthy
  BY DEF IInv
<1>1. LogFits
  BY DEF Init, LogFits, Positional
<1>2. BatchFits /\ BaseFits /\ DiskFits
  BY DEF Init, BatchFits, BaseFits, DiskFits, RepairFits, Appending, Measured
<1>r. RepairFits
  BY DEF Init, RepairFits
<1>3. IsExactly(<<>>, <<>>, 0)
  BY DEF IsExactly, Holds
<1>4. FileFits
  BY <1>3 DEF Init, FileFits, Clean, File
<1> QED
  BY <1>1, <1>2, <1>r, <1>4 DEF Healthy

LEMMA ProduceKeeps ==
    ASSUME Healthy, Produce
    PROVE  Healthy'
<1> DEFINE e == [seq  |-> Len(log) + 1,
                 kind |-> IF InTurn(log) THEN "turn/end" ELSE "turn/start"]
<1>1. log \in Seq(Events) /\ Positional(log) /\ kept \in Nat
  BY DEF Healthy, LogFits
<1>2. e \in Events /\ e.seq = Len(log) + 1
  BY <1>1 DEF Events
<1>3. log' = Append(log, e)
  BY DEF Produce
<1> HIDE DEF e
<1>4. /\ log' \in Seq(Events) /\ Positional(log)'
      /\ \A file, n : Clean(file, log, n) => Clean(file, log', n)
      /\ \A some, k : Copies(some, log, k) /\ k \in Nat => Copies(some, log', k)
      /\ \A file, k : Leaves(file, log, k) => Leaves(file, log', k)
  BY <1>1, <1>2, <1>3, LogGrows DEF Positional
<1>5. UNCHANGED <<lines, closedLine, kept, phase, batch, base>> /\ Running /\ File' = File
  BY DEF Produce, File
<1>6. LogFits'
  BY <1>4, <1>5 DEF Healthy, LogFits, Appending
<1>7. BatchFits' /\ BaseFits'
  BY <1>1, <1>4, <1>5 DEF Healthy, BatchFits, BaseFits, Appending, Measured
<1>8. FileFits' /\ DiskFits' /\ RepairFits'
  BY <1>4, <1>5 DEF Healthy, FileFits, DiskFits, RepairFits, Running
<1> QED
  BY <1>6, <1>7, <1>8 DEF Healthy

LEMMA FileBecomes ==
    ASSUME NEW file, SetFile(file), NEW events
    PROVE  /\ \A n : Clean(file, events, n) => Clean(File', events, n)
           /\ \A k : Leaves(file, events, k) => Leaves(File', events, k)
           /\ Unterminated(File') <=> Unterminated(file)
<1>1. File'.lines = file.lines /\ File'.closedLine = file.closedLine
  BY DEF SetFile, File
<1>2. ASSUME NEW n, Clean(file, events, n) PROVE Clean(File', events, n)
  <2>1. file.closedLine = TRUE
    BY <1>2 DEF Clean
  <2>2. File' = [lines |-> File'.lines, closedLine |-> TRUE]
    BY <2>1, <1>1 DEF File
  <2> QED
    BY <2>2, <1>1, <1>2 DEF Clean
<1>3. Unterminated(File') <=> Unterminated(file)
  BY <1>1 DEF Unterminated
<1>4. ASSUME NEW k, Leaves(file, events, k) PROVE Leaves(File', events, k)
  BY <1>1, <1>3, <1>4 DEF Leaves
<1> QED
  BY <1>2, <1>3, <1>4

LEMMA OpensKeeps ==
    ASSUME Healthy, AppendOpens
    PROVE  Healthy'
<1>1. /\ log \in Seq(Events) /\ kept \in Nat /\ phase = "idle" /\ phase' = "opened"
      /\ UNCHANGED <<lines, closedLine, log, kept>> /\ Clean(File, log, kept) /\ File' = File
  BY DEF Healthy, LogFits, FileFits, AppendOpens, File
<1>2. PICK n \in 1 .. MaxBatch : kept + n <= Len(log) /\ batch' = SubSeq(log, kept + 1, kept + n)
  BY DEF AppendOpens
<1>3. Copies(batch', log, kept) /\ batch' # <<>>
  <2>1. n \in Nat /\ n >= 1
    BY <1>2, JsonlAssumption
  <2>2. /\ batch' \in Seq(Events) /\ Len(batch') = n
        /\ \A i \in 1 .. n : batch'[i] = log[kept + i]
    BY <2>1, <1>1, <1>2
  <2>3. Len(batch') = n /\ kept + Len(batch') <= Len(log)
    BY <2>2, <1>2
  <2>4. batch' # <<>>
    BY <2>1, <2>3
  <2> HIDE DEF Copies
  <2>5. Copies(batch', log, kept)
    BY <2>2, <2>3 DEF Copies
  <2> QED
    BY <2>4, <2>5
<1> QED
  BY <1>1, <1>3 DEF Healthy, LogFits, BatchFits, BaseFits, FileFits, DiskFits, RepairFits, Appending, Measured

LEMMA StatsKeeps ==
    ASSUME Healthy, AppendStats, ~faulty'
    PROVE  Healthy'
<1>1. /\ phase = "opened" /\ phase' = "sized" /\ base' = File /\ File' = File
      /\ UNCHANGED <<lines, closedLine, log, kept, batch>>
  BY DEF AppendStats, File
<1>2. Clean(File, log, kept) /\ Copies(batch, log, kept) /\ batch # <<>>
  BY <1>1 DEF Healthy, FileFits, BatchFits, Appending
<1> QED
  BY <1>1, <1>2 DEF Healthy, LogFits, BatchFits, BaseFits, FileFits, DiskFits, RepairFits, Appending, Measured

LEMMA WritesKeeps ==
    ASSUME Healthy, AppendWrites, ~faulty'
    PROVE  Healthy'
<1>1. /\ phase = "sized" /\ UNCHANGED <<log, kept, batch, base>>
      /\ log \in Seq(Events) /\ kept \in Nat
      /\ Clean(File, log, kept) /\ Copies(batch, log, kept) /\ batch # <<>>
      /\ Clean(base, log, kept)
  BY DEF AppendWrites, Healthy, LogFits, FileFits, BatchFits, BaseFits, Appending, Measured
<1>2. CASE phase' = "written"
  <2> DEFINE after == WriteUpTo(File, batch, Len(batch), "nothing")
             m     == kept + Len(batch)
  <2>1. SetFile(after)
    BY <1>2 DEF AppendWrites
  <2>2. m \in Nat /\ m = kept + Len(batch)
    BY <1>1 DEF Copies
  <2> HIDE DEF m
  <2>3. Clean(after, log, m)
    BY <2>2, <1>1, BatchWritten
  <2> HIDE DEF after
  <2>4. Clean(File', log, m)
    BY <2>1, <2>3, FileBecomes
  <2>5. FileFits'
    BY <2>2, <2>4, <1>1, <1>2 DEF FileFits
  <2> QED
    BY <2>5, <1>1, <1>2
    DEF Healthy, LogFits, BatchFits, BaseFits, DiskFits, RepairFits, Appending, Measured
<1>3. CASE phase' = "failed"
  <2>1. PICK after \in IncompleteWrites(File, batch) : SetFile(after)
    BY <1>3 DEF AppendWrites
  <2>2. Leaves(after, log, kept)
    BY <2>1, <1>1, IncompleteLeaves
  <2>3. Leaves(File', log, kept)
    BY <2>1, <2>2, FileBecomes
  <2>4. FileFits'
    BY <2>3, <1>1, <1>3 DEF FileFits
  <2> QED
    BY <2>4, <1>1, <1>3
    DEF Healthy, LogFits, BatchFits, BaseFits, DiskFits, RepairFits, Appending, Measured
<1> QED
  BY <1>2, <1>3 DEF AppendWrites

LEMMA SyncsKeeps ==
    ASSUME Healthy, AppendSyncs
    PROVE  Healthy'
<1>1. /\ phase = "written" /\ UNCHANGED <<lines, closedLine, log, base>> /\ File' = File
      /\ log \in Seq(Events) /\ kept \in Nat /\ Len(batch) \in Nat
      /\ Clean(File, log, kept + Len(batch)) /\ Copies(batch, log, kept) /\ batch # <<>>
      /\ Clean(base, log, kept)
  BY DEF AppendSyncs, Healthy, LogFits, FileFits, BatchFits, BaseFits, Appending, Measured, File, Copies
<1>2. CASE phase' = "idle"
  <2>1. kept' = kept + Len(batch)
    BY <1>2 DEF AppendSyncs
  <2>2. FileFits' /\ kept' \in Nat
    BY <2>1, <1>1, <1>2 DEF FileFits
  <2> QED
    BY <2>2, <1>1, <1>2
    DEF Healthy, LogFits, BatchFits, BaseFits, DiskFits, RepairFits, Appending, Measured
<1>3. CASE phase' = "failed"
  <2>1. kept' = kept /\ batch' = batch
    BY <1>3 DEF AppendSyncs
  <2> DEFINE m == kept + Len(batch)
  <2>2. m \in Nat /\ kept <= m /\ Clean(File, log, m)
    BY <1>1
  <2> HIDE DEF m
  <2>3. Leaves(File, log, kept)
    BY <2>2, <1>1, CleanLeaves
  <2>4. FileFits'
    BY <2>1, <2>3, <1>1, <1>3 DEF FileFits
  <2> QED
    BY <2>1, <2>4, <1>1, <1>3
    DEF Healthy, LogFits, BatchFits, BaseFits, DiskFits, RepairFits, Appending, Measured
<1> QED
  BY <1>2, <1>3 DEF AppendSyncs

LEMMA RollsBackKeeps ==
    ASSUME Healthy, AppendRollsBack, ~faulty'
    PROVE  Healthy'
<1>1. /\ phase = "failed" /\ phase' = "idle" /\ SetFile(base) /\ UNCHANGED <<log, kept>>
      /\ Clean(base, log, kept)
  BY DEF AppendRollsBack, CutBack, Healthy, LogFits, BaseFits, Appending, Measured
<1>2. Clean(File', log, kept)
  BY <1>1, FileBecomes
<1>3. FileFits'
  BY <1>1, <1>2 DEF FileFits
<1> QED
  BY <1>1, <1>3 DEF Healthy, LogFits, BatchFits, BaseFits, DiskFits, RepairFits, Appending, Measured

(* Wherever a process dies that had a log, what it had kept is in front.    *)
LEMMA CrashLeaves ==
    ASSUME Healthy, Crash, phase # "repaired"
    PROVE  Leaves(File', log, kept)
<1>0. /\ phase # "down" /\ log \in Seq(Events) /\ kept \in Nat
  BY DEF Crash, Healthy, LogFits
<1>1. CASE UNCHANGED <<lines, closedLine>>
  <2>1. File' = File
    BY <1>1 DEF File
  <2>2. CASE phase = "failed"
    BY <2>1, <2>2 DEF Healthy, FileFits
  <2>3. CASE phase = "written"
    <3> DEFINE m == kept + Len(batch)
    <3>1. m \in Nat /\ kept <= m /\ Clean(File, log, m)
      BY <2>3, <1>0 DEF Healthy, FileFits, BatchFits, Appending, Copies
    <3> HIDE DEF m
    <3> QED
      BY <3>1, <2>1, <1>0, CleanLeaves
  <2>4. CASE phase \in {"idle", "opened", "sized"}
    <3>1. Clean(File, log, kept) /\ kept <= kept
      BY <2>4, <1>0 DEF Healthy, FileFits
    <3> QED
      BY <3>1, <2>1, <1>0, CleanLeaves
  <2> QED
    BY <2>2, <2>3, <2>4, <1>0 DEF Healthy, LogFits, Appending
<1>2. CASE /\ phase \in Measured
           /\ \E file \in IncompleteWrites(base, batch) \cup {base} : SetFile(file)
  <2>1. PICK file \in IncompleteWrites(base, batch) \cup {base} : SetFile(file)
    BY <1>2
  <2>2. Clean(base, log, kept) /\ Copies(batch, log, kept) /\ kept <= kept
    BY <1>2, <1>0 DEF Healthy, BaseFits, BatchFits, Appending, Measured
  <2>3. Leaves(file, log, kept)
    BY <2>1, <2>2, <1>0, IncompleteLeaves, CleanLeaves
  <2> QED
    BY <2>1, <2>3, FileBecomes
<1> QED
  BY <1>1, <1>2 DEF Crash, Measured

(* One that dies in its recovery leaves what the repair left. *)
LEMMA CrashKeeps ==
    ASSUME Healthy, Crash, ~faulty'
    PROVE  Healthy'
<1>1. /\ phase' = "down" /\ log' = <<>> /\ batch' = <<>> /\ kept' = kept
      /\ log \in Seq(Events) /\ Positional(log) /\ kept \in Nat
      /\ ~Unterminated(File')
  BY DEF Crash, Healthy, LogFits
<1>2. \E events \in Seq(Events) : NearlyPositional(events) /\ Leaves(File', events, kept)
  <2>1. CASE phase = "repaired"
    <3>1. PICK events \in Seq(Events), n \in Nat :
             NearlyPositional(events) /\ kept <= n /\ Clean(File, events, n)
      BY <2>1 DEF Healthy, RepairFits
    <3>2. Leaves(File, events, kept)
      BY <3>1, <1>1, CleanLeaves
    <3>3. File' = File
      BY <2>1 DEF Crash, File
    <3> QED
      BY <3>1, <3>2, <3>3
  <2>2. CASE phase # "repaired"
    <3>1. NearlyPositional(log)
      BY <1>1 DEF Positional, NearlyPositional
    <3> QED
      BY <2>2, <3>1, <1>1, CrashLeaves
  <2> QED
    BY <2>1, <2>2
<1>3. LogFits'
  BY <1>1 DEF LogFits, Positional
<1>4. DiskFits'
  BY <1>1, <1>2 DEF DiskFits
<1> QED
  BY <1>1, <1>3, <1>4
  DEF Healthy, BatchFits, BaseFits, FileFits, RepairFits, Appending, Measured

(* What a repair makes of what it can read. *)
LEMMA ClosedIs ==
    ASSUME NEW events \in Seq(Events), NearlyPositional(events),
           NEW repaired, repaired = events \o MissingClosers(events)
    PROVE  /\ repaired \in Seq(Events) /\ NearlyPositional(repaired)
           /\ Len(repaired) \in Nat /\ Len(events) <= Len(repaired)
           /\ MissingClosers(events) = <<>> => repaired = events
<1>1. CASE ~InTurn(events)
  BY <1>1 DEF MissingClosers
<1>2. CASE InTurn(events)
  <2>1. Closer \in Events /\ ~Opens(Closer)
    BY DEF Closer, Events, NoSeq, Opens
  <2>2. MissingClosers(events) = <<Closer>>
    BY <1>2 DEF MissingClosers, Closer
  <2>3. /\ repaired \in Seq(Events) /\ Len(repaired) = Len(events) + 1
        /\ \A i \in 1 .. Len(events) : repaired[i] = events[i]
        /\ repaired[Len(events) + 1] = Closer
    BY <2>1, <2>2
  <2>4. Opens(events[Len(events)])
    BY <1>2 DEF InTurn, Last
  <2>5. \A i \in 1 .. Len(events) : events[i].seq = i
    BY <2>1, <2>4 DEF NearlyPositional
  <2>6. NearlyPositional(repaired)
    <3> SUFFICES ASSUME NEW i \in DOMAIN repaired
                 PROVE  repaired[i].seq = i \/ (i = Len(repaired) /\ repaired[i] = Closer)
      BY DEF NearlyPositional
    <3>1. CASE i = Len(events) + 1
      BY <3>1, <2>3
    <3>2. CASE i \in 1 .. Len(events)
      BY <3>2, <2>3, <2>5
    <3> QED
      BY <3>1, <3>2, <2>3
  <2> QED
    BY <2>2, <2>3, <2>6
<1> QED
  BY <1>1, <1>2

(* What a load makes of it. *)
LEMMA CanonicalIs ==
    ASSUME NEW events \in Seq(Events), NearlyPositional(events),
           NEW canonical, canonical = Canonical(events)
    PROVE  /\ canonical \in Seq(Events) /\ Positional(canonical)
           /\ Len(canonical) = Len(events) /\ Len(canonical) \in Nat
<1>1. DOMAIN events = 1 .. Len(events) /\ Len(events) \in Nat
  OBVIOUS
<1>2. ASSUME NEW i \in 1 .. Len(events), NEW e,
             e = IF events[i].seq = NoSeq THEN [events[i] EXCEPT !.seq = i] ELSE events[i]
      PROVE  e \in Events /\ e.seq = i
  <2>1. events[i] \in Events /\ (events[i].seq = i \/ events[i] = Closer)
    BY DEF NearlyPositional
  <2>2. CASE events[i].seq = NoSeq
    <3>1. e = [events[i] EXCEPT !.seq = i]
      BY <1>2, <2>2
    <3> QED
      BY <3>1, <2>1 DEF Events
  <2>3. CASE events[i].seq # NoSeq
    BY <1>2, <2>1, <2>3 DEF Closer
  <2> QED
    BY <2>2, <2>3
<1>3. canonical = [i \in 1 .. Len(events) |->
         IF events[i].seq = NoSeq THEN [events[i] EXCEPT !.seq = i] ELSE events[i]]
  BY <1>1 DEF Canonical
<1>4. \A i \in 1 .. Len(events) : canonical[i] \in Events /\ canonical[i].seq = i
  BY <1>2, <1>3
<1>5. DOMAIN canonical = 1 .. Len(events)
  BY <1>3
<1>6. canonical \in Seq(Events) /\ Len(canonical) = Len(events)
  BY <1>1, <1>3, <1>4
<1> QED
  BY <1>1, <1>4, <1>5, <1>6 DEF Positional

LEMMA FileOfIs ==
    ASSUME NEW events \in Seq(Events), NEW n \in Nat, n = Len(events)
    PROVE  Clean(FileOf(events), events, n)
<1> DEFINE text == [i \in 1 .. n |-> Whole(events[i])]
<1>1. FileOf(events) = [lines |-> text, closedLine |-> TRUE]
  <2>1. DOMAIN events = 1 .. n
    OBVIOUS
  <2>2. [i \in DOMAIN events |-> Whole(events[i])] = text
    BY <2>1
  <2> QED
    BY <2>2 DEF FileOf
<1>2. n \in 0 .. Len(events)
  OBVIOUS
<1>3. text \in Seq(Lines) /\ Len(text) = n /\ \A i \in 1 .. n : text[i] = Whole(events[i])
  BY <1>2, FullLines
<1> HIDE DEF text
<1>4. IsExactly(text, events, n)
  BY <1>2, <1>3 DEF IsExactly, Holds
<1> QED
  BY <1>1, <1>4 DEF Clean

LEMMA RepairKeeps ==
    ASSUME Healthy, Repair
    PROVE  Healthy'
<1>1. /\ phase = "down" /\ phase' = "repaired" /\ UNCHANGED <<log, kept>>
      /\ File.lines = lines /\ File.closedLine = closedLine
  BY DEF Repair, File
<1>2. PICK events \in Seq(Events) :
         NearlyPositional(events) /\ Leaves(File, events, kept) /\ ~Unterminated(File)
  BY <1>1 DEF Healthy, DiskFits
<1>3. PICK n \in Nat :
         kept <= n /\ Holds(lines, events, n) /\ (Len(lines) = n => closedLine = TRUE)
  BY <1>1, <1>2 DEF Leaves
<1> DEFINE read     == Committed(File)
           repaired == read \o MissingClosers(read)
           m        == Len(repaired)
<1>4. read = Begin(events, n) /\ (HasTornTail(File) <=> Len(lines) = n + 1)
  BY <1>1, <1>2, <1>3, CommittedIs
<1>5. /\ read \in Seq(Events) /\ NearlyPositional(read) /\ Len(read) = n
      /\ \A i \in 1 .. n : read[i] = events[i]
  <2>1. n \in 0 .. Len(events)
    BY <1>3 DEF Holds
  <2> QED
    BY <2>1, <1>2, <1>4, BeginIs
<1>6. SetFile(IF NeedsRewrite(File) THEN FileOf(repaired) ELSE File)
  BY DEF Repair
<1>7. NeedsRewrite(File) <=> HasTornTail(File) \/ MissingClosers(read) # <<>>
  BY DEF NeedsRewrite
<1> HIDE DEF read
<1>8. /\ repaired \in Seq(Events) /\ NearlyPositional(repaired) /\ m \in Nat /\ n <= m
      /\ MissingClosers(read) = <<>> => repaired = read
  BY <1>5, ClosedIs
<1> HIDE DEF repaired
<1>9. m = Len(repaired)
  OBVIOUS
<1> HIDE DEF m
<1>10. Clean(File', repaired, m)
  <2>1. CASE NeedsRewrite(File)
    <3>1. Clean(FileOf(repaired), repaired, m)
      BY <1>8, <1>9, FileOfIs
    <3> QED
      BY <2>1, <3>1, <1>6, FileBecomes
  <2>2. CASE ~NeedsRewrite(File)
    <3>1. repaired = read /\ m = n /\ Len(lines) # n + 1
      BY <2>2, <1>4, <1>5, <1>7, <1>8, <1>9
    <3>2. Len(lines) = n /\ closedLine = TRUE
      BY <3>1, <1>3 DEF Holds
    <3>3. Holds(lines, read, n)
      <4>1. \A i \in 1 .. n : Whole(read[i]) = Whole(events[i])
        BY <1>5
      <4>2. n \in 0 .. Len(read)
        BY <1>5
      <4> QED
        BY <4>1, <4>2, <3>2, <1>3 DEF Holds
    <3>4. Clean(File, read, n)
      BY <3>2, <3>3 DEF File, Clean, IsExactly
    <3> QED
      BY <2>2, <3>1, <3>4, <1>6, FileBecomes
  <2> QED
    BY <2>1, <2>2
<1>11. RepairFits'
  <2>1. kept' <= m
    BY <1>1, <1>3, <1>8 DEF Healthy, LogFits
  <2> QED
    BY <2>1, <1>8, <1>9, <1>10 DEF RepairFits
<1> QED
  BY <1>1, <1>11 DEF Healthy, LogFits, BatchFits, BaseFits, FileFits, DiskFits, Appending, Measured

LEMMA LoadKeeps ==
    ASSUME Healthy, LoadOwned
    PROVE  Healthy'
<1>1. phase = "repaired" /\ phase' = "idle" /\ File.lines = lines
  BY DEF LoadOwned, File
<1>2. PICK events \in Seq(Events), n \in Nat :
         NearlyPositional(events) /\ n = Len(events) /\ Clean(File, events, n)
  BY <1>1 DEF Healthy, RepairFits
<1>3. Committed(File) = events
  <2>1. Holds(File.lines, events, n) /\ n \in 0 .. Len(events)
    BY <1>2 DEF Clean, IsExactly, Holds
  <2>2. Committed(File) = Begin(events, n)
    BY <2>1, <1>2, CommittedIs
  <2>3. Begin(events, n) = SubSeq(events, 1, n)
    BY <2>1, BeginIs
  <2> QED
    BY <2>2, <2>3, <1>2
<1> DEFINE canonical == Canonical(events)
<1>4. /\ SetFile(IF canonical = events THEN File ELSE FileOf(canonical))
      /\ log' = canonical /\ kept' = Len(canonical)
  BY <1>3 DEF LoadOwned
<1>5. /\ canonical \in Seq(Events) /\ Positional(canonical)
      /\ Len(canonical) = n /\ Len(canonical) \in Nat
  BY <1>2, CanonicalIs
<1> HIDE DEF canonical
<1>6. Clean(File', canonical, n)
  <2>1. CASE canonical = events
    BY <2>1, <1>2, <1>4, FileBecomes
  <2>2. CASE canonical # events
    <3>1. Clean(FileOf(canonical), canonical, n)
      BY <1>5, FileOfIs
    <3> QED
      BY <2>2, <3>1, <1>4, FileBecomes
  <2> QED
    BY <2>1, <2>2
<1>7. LogFits'
  BY <1>1, <1>4, <1>5 DEF LogFits
<1>8. FileFits'
  BY <1>1, <1>4, <1>5, <1>6 DEF FileFits
<1> QED
  BY <1>1, <1>7, <1>8
  DEF Healthy, BatchFits, BaseFits, DiskFits, RepairFits, Appending, Measured

LEMMA LoadFailsKeeps ==
    ASSUME Healthy, LoadFails
    PROVE  Healthy'
<1>1. /\ phase = "repaired" /\ phase' = "down" /\ File' = File
      /\ UNCHANGED <<log, kept>> /\ kept \in Nat
  BY DEF LoadFails, File, Healthy, LogFits
<1>2. PICK events \in Seq(Events), n \in Nat :
         NearlyPositional(events) /\ kept <= n /\ Clean(File, events, n)
  BY <1>1 DEF Healthy, RepairFits
<1>3. Leaves(File, events, kept) /\ ~Unterminated(File)
  BY <1>1, <1>2, CleanLeaves
<1>4. DiskFits'
  BY <1>1, <1>2, <1>3 DEF DiskFits, Unterminated
<1> QED
  BY <1>1, <1>4
  DEF Healthy, LogFits, BatchFits, BaseFits, FileFits, RepairFits, Appending, Measured

-----------------------------------------------------------------------------
(* A fault once it has happened has happened. *)
LEMMA FaultsStay ==
    ASSUME [Next]_vars, faulty
    PROVE  faulty'
BY DEF Next, vars, Produce, AppendOpens, AppendStats, AppendWrites, AppendSyncs,
       AppendRollsBack, Crash, Repair, LoadOwned, LoadFails

LEMMA StepKeeps ==
    IInv /\ [Next]_vars => IInv'
<1> SUFFICES ASSUME IInv, [Next]_vars, ~faulty' PROVE Healthy'
  BY DEF IInv
<1>1. Healthy
  BY FaultsStay DEF IInv
<1>2. CASE Produce
  BY <1>1, <1>2, ProduceKeeps
<1>3. CASE AppendOpens
  BY <1>1, <1>3, OpensKeeps
<1>4. CASE AppendStats
  BY <1>1, <1>4, StatsKeeps
<1>5. CASE AppendWrites
  BY <1>1, <1>5, WritesKeeps
<1>6. CASE AppendSyncs
  BY <1>1, <1>6, SyncsKeeps
<1>7. CASE AppendRollsBack
  BY <1>1, <1>7, RollsBackKeeps
<1>8. CASE Crash
  BY <1>1, <1>8, CrashKeeps
<1>9. CASE Repair
  BY <1>1, <1>9, RepairKeeps
<1>10. CASE LoadOwned
  BY <1>1, <1>10, LoadKeeps
<1>11. CASE LoadFails
  BY <1>1, <1>11, LoadFailsKeeps
<1>12. CASE UNCHANGED vars
  <2>1. UNCHANGED <<lines, closedLine, log, kept, phase, batch, base>> /\ File' = File
    BY <1>12 DEF vars, File
  <2> QED
    BY <1>1, <2>1 DEF Healthy, LogFits, BatchFits, BaseFits, FileFits, DiskFits, RepairFits, Appending, Measured
<1> QED
  BY <1>2, <1>3, <1>4, <1>5, <1>6, <1>7, <1>8, <1>9, <1>10, <1>11, <1>12 DEF Next

(* Until a fault happens the file and what append() knows of it fit the log *)
(* (index.ts:111-136, with the repair of 158-181 after a crash).            *)
THEOREM StoreInvariance ==
    Spec => []IInv
BY InitHealthy, StepKeeps, PTL DEF Spec

-----------------------------------------------------------------------------
(* What the file begins with, in any phase. *)
LEMMA AlwaysLeaves ==
    ASSUME Healthy
    PROVE  \E events \in Seq(Events) :
              /\ NearlyPositional(events) /\ Leaves(File, events, kept)
              /\ Running => events = log /\ Positional(events)
<1>1. log \in Seq(Events) /\ Positional(log) /\ kept \in Nat
  BY DEF Healthy, LogFits
<1>d. NearlyPositional(log)
  BY <1>1 DEF Positional, NearlyPositional
<1>2. CASE phase = "down"
  BY <1>2 DEF Healthy, DiskFits, Running
<1>6. CASE phase = "repaired"
  <2>1. PICK events \in Seq(Events), n \in Nat :
           NearlyPositional(events) /\ kept <= n /\ Clean(File, events, n)
    BY <1>6 DEF Healthy, RepairFits
  <2>2. Leaves(File, events, kept)
    BY <2>1, <1>1, CleanLeaves
  <2> QED
    BY <2>1, <2>2, <1>6 DEF Running
<1>3. CASE phase = "failed"
  BY <1>1, <1>d, <1>3 DEF Healthy, FileFits
<1>4. CASE phase = "written"
  <2> DEFINE m == kept + Len(batch)
  <2>1. m \in Nat /\ kept <= m /\ Clean(File, log, m)
    BY <1>1, <1>4 DEF Healthy, FileFits, BatchFits, Appending, Copies
  <2> HIDE DEF m
  <2> QED
    BY <2>1, <1>1, <1>d, CleanLeaves
<1>5. CASE phase \in {"idle", "opened", "sized"}
  <2>1. Clean(File, log, kept) /\ kept <= kept
    BY <1>1, <1>5 DEF Healthy, FileFits
  <2> QED
    BY <2>1, <1>1, <1>d, CleanLeaves
<1> QED
  BY <1>2, <1>3, <1>4, <1>5, <1>6 DEF Healthy, LogFits, Appending

(* A reader finds the beginning of that. *)
LEMMA ReadersFind ==
    ASSUME NEW events \in Seq(Events), Leaves(File, events, kept)
    PROVE  \E n \in 0 .. Len(events) : kept <= n /\ Committed(File) = Begin(events, n)
<1>1. PICK n \in Nat : kept <= n /\ Holds(File.lines, events, n)
  BY DEF Leaves
<1>2. n \in 0 .. Len(events)
  BY <1>1 DEF Holds
<1> QED
  BY <1>1, <1>2, CommittedIs

LEMMA KeptIsRead ==
    ASSUME Healthy
    PROVE  AcknowledgedIsReadable
<1>1. PICK events \in Seq(Events) :
         /\ Leaves(File, events, kept)
         /\ Running => events = log
  BY AlwaysLeaves
<1>2. PICK n \in 0 .. Len(events) : kept <= n /\ Committed(File) = Begin(events, n)
  BY <1>1, ReadersFind
<1>3. kept \in Nat
  BY DEF Healthy, LogFits
<1>4. Len(Committed(File)) = n /\ Committed(File) = SubSeq(events, 1, n)
  BY <1>2, BeginIs
<1>5. IsPrefix(SubSeq(events, 1, kept), SubSeq(events, 1, n))
  BY <1>2, <1>3 DEF IsPrefix
<1> QED
  BY <1>1, <1>2, <1>3, <1>4, <1>5 DEF AcknowledgedIsReadable

(* Appends are durable when they resolve (write-behind.ts:16-17): until one *)
(* of the Faults, what was acknowledged can be read, whatever append fails  *)
(* and wherever the process dies.                                           *)
THEOREM AcknowledgedIsDurable ==
    Spec => []AcknowledgedStaysReadable
<1>1. IInv => AcknowledgedStaysReadable
  BY KeptIsRead DEF IInv, AcknowledgedStaysReadable
<1> QED
  BY <1>1, StoreInvariance, PTL

(* A clean retry never duplicates seqs (index.ts:129-130).                  *)
THEOREM NoSeqRepeats ==
    Spec => []SeqsArePositional
<1> DEFINE read == Committed(File)
<1>1. ASSUME Healthy
      PROVE  Positional(read) \/ (~Running /\ NearlyPositional(read))
  <2>1. PICK events \in Seq(Events) :
           /\ NearlyPositional(events) /\ Leaves(File, events, kept)
           /\ Running => Positional(events)
    BY <1>1, AlwaysLeaves
  <2>2. PICK n \in 0 .. Len(events) : read = Begin(events, n)
    BY <2>1, ReadersFind
  <2> QED
    BY <2>1, <2>2, BeginIs
<1>2. IInv => SeqsArePositional
  <2> SUFFICES ASSUME IInv, ~faulty,
                      NEW i \in DOMAIN read
               PROVE  \/ read[i].seq = i
                      \/ ~Running /\ i = Len(read) /\ read[i] = [seq |-> NoSeq, kind |-> "turn/end"]
    BY DEF SeqsArePositional
  <2> HIDE DEF read
  <2> QED
    BY <1>1 DEF IInv, Positional, NearlyPositional, Closer
<1> QED
  BY <1>2, StoreInvariance, PTL

(* append() writes at the size it measured and never looks at what is there *)
(* (index.ts:124-126): when it starts, every line is finished and readable. *)
THEOREM TailsAreClean ==
    Spec => []AppendsToCleanTail
<1>1. ASSUME Healthy, phase = "idle" PROVE closedLine /\ Len(Committed(File)) = Len(lines)
  <2>1. Clean(File, log, kept) /\ log \in Seq(Events)
    BY <1>1 DEF Healthy, LogFits, FileFits
  <2>2. /\ File.lines = lines /\ File.closedLine = closedLine /\ closedLine = TRUE
        /\ Holds(File.lines, log, kept) /\ Len(lines) = kept /\ kept \in 0 .. Len(log)
    <3>1. File.lines = lines /\ File.closedLine = closedLine
      BY DEF File
    <3>2. File.closedLine = TRUE /\ IsExactly(File.lines, log, kept)
      BY <2>1 DEF Clean
    <3> QED
      BY <3>1, <3>2 DEF IsExactly, Holds
  <2>3. Committed(File) = Begin(log, kept)
    BY <2>1, <2>2, CommittedIs
  <2>4. Len(Committed(File)) = kept
    BY <2>1, <2>2, <2>3, BeginIs
  <2> QED
    BY <2>2, <2>4
<1>2. IInv => AppendsToCleanTail
  BY <1>1 DEF IInv, AppendsToCleanTail
<1> QED
  BY <1>2, StoreInvariance, PTL
=============================================================================
