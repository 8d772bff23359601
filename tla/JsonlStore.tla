------------------------------ MODULE JsonlStore ------------------------------
(***************************************************************************)
(* One session's JSONL file: the backend's append with its rollback, what  *)
(* a reader makes of the bytes, and the recovery a restarted process runs  *)
(* before it writes again.                                                 *)
(*                                                                         *)
(* A file is a sequence of lines and a line is a sequence of pieces, each  *)
(* the whole or a part of one serialized event: a line with one whole      *)
(* piece is valid JSON, anything else is not.  The last line may lack its  *)
(* newline; the next append then continues that line.                      *)
(*                                                                         *)
(* Of an event only its seq and whether it opens or closes a turn matter.  *)
(* The coordinator runs one backend operation of a session at a time.      *)
(***************************************************************************)
EXTENDS Naturals, Sequences, SequencesExt

CONSTANTS
    MaxSeq,     \* bound: how many events a log may hold
    MaxBatch,   \* bound: how many events one append carries
    MaxCrashes, \* bound: how often the process dies
    Faults      \* which rare faults of the file system happen, at most one in a run

ASSUME JsonlAssumption ==
    /\ MaxSeq \in Nat
    /\ MaxBatch \in Nat \ {0}
    /\ MaxCrashes \in Nat
    /\ Faults \subseteq {"stat", "truncate", "short", "unterminated"}

VARIABLES
    lines,      \* the file after its header line
    closedLine, \* the file ends with a newline
    log,        \* the running process's events, all of them (session.events)
    kept,       \* ghost: how many of them an append or a load has vouched for
    phase,      \* where append() is
    batch,      \* the events append() was given
    base,       \* the file at append's fstat: what committedBytes cuts back to
    crashes,
    faulty      \* ghost: one of Faults has happened

vars == <<lines, closedLine, log, kept, phase, batch, base, crashes, faulty>>

Running   == phase \notin {"down", "repaired"}
NoSeq     == 0
Opens(e)  == e.kind = "turn/start"
NoFile    == [lines |-> <<>>, closedLine |-> TRUE]
File      == [lines |-> lines, closedLine |-> closedLine]

-----------------------------------------------------------------------------
(* Reading. *)
Whole(e)    == <<[event |-> e, whole |-> TRUE]>>
Part(e)     == <<[event |-> e, whole |-> FALSE]>>
ValidLine(l) == Len(l) = 1 /\ l[1].whole

(* parseEventLines: the events up to the first line that is not valid JSON. *)
Committed(file) ==
    LET valid == {n \in 0 .. Len(file.lines) : \A i \in 1 .. n : ValidLine(file.lines[i])}
        n     == CHOOSE k \in valid : \A j \in valid : j <= k
    IN  [i \in 1 .. n |-> file.lines[i][1].event]

(* hasTornTail looks at the last line only. *)
HasTornTail(file) == file.lines # <<>> /\ ~ValidLine(Last(file.lines))

InTurn(events) == events # <<>> /\ Opens(Last(events))

(* missingClosers: a log that stops inside a turn gets its turn/end, which   *)
(* has no seq yet.                                                           *)
MissingClosers(events) ==
    IF InTurn(events) THEN <<[seq |-> NoSeq, kind |-> "turn/end"]>> ELSE <<>>

(* loadOwned gives an event without a seq the one of its place. *)
Canonical(events) ==
    [i \in DOMAIN events |->
        IF events[i].seq = NoSeq THEN [events[i] EXCEPT !.seq = i] ELSE events[i]]

FileOf(events) == [lines |-> [i \in DOMAIN events |-> Whole(events[i])], closedLine |-> TRUE]

-----------------------------------------------------------------------------
(* Writing.  WriteUpTo is the file after the first n lines of the batch and  *)
(* a rest of the next one: nothing of it, a part, or all but its newline.    *)
Glue(file, newLines) ==
    IF file.closedLine \/ file.lines = <<>> \/ newLines = <<>>
    THEN file.lines \o newLines
    ELSE Front(file.lines) \o <<Last(file.lines) \o Head(newLines)>> \o Tail(newLines)

WriteUpTo(file, events, n, rest) ==
    LET full == [i \in 1 .. n |-> Whole(events[i])]
        tail == CASE rest = "nothing"      -> <<>>
                  [] rest = "part"         -> <<Part(events[n + 1])>>
                  [] rest = "unterminated" -> <<Whole(events[n + 1])>>
    IN  [lines      |-> Glue(file, full \o tail),
         closedLine |-> IF full \o tail = <<>> THEN file.closedLine ELSE rest = "nothing"]

(* How a write that did not complete may leave the file.                     *)
IncompleteWrites(file, events) ==
    {WriteUpTo(file, events, n, rest) : n \in 0 .. Len(events) - 1,
                                        rest \in {"nothing", "part", "unterminated"}}

(* The last line is a whole event that lacks its newline. *)
Unterminated(file) ==
    ~file.closedLine /\ file.lines # <<>> /\ ValidLine(Last(file.lines))

SetFile(file) == lines' = file.lines /\ closedLine' = file.closedLine

Init ==
    /\ lines = <<>>
    /\ closedLine = TRUE
    /\ log = <<>>
    /\ kept = 0
    /\ phase = "idle"
    /\ batch = <<>>
    /\ base = NoFile
    /\ crashes = 0
    /\ faulty = FALSE

(* The session appends an event in memory; a turn start and its end alternate. *)
Produce ==
    /\ Running
    /\ Len(log) < MaxSeq
    /\ log' = Append(log, [seq  |-> Len(log) + 1,
                           kind |-> IF InTurn(log) THEN "turn/end" ELSE "turn/start"])
    /\ UNCHANGED <<lines, closedLine, kept, phase, batch, base, crashes, faulty>>

(* The write-behind hands over the next events, or the same ones again after *)
(* a failure.  open() may fail before anything is touched: nothing happens.  *)
AppendOpens ==
    /\ phase = "idle"
    /\ \E n \in 1 .. MaxBatch :
          /\ kept + n <= Len(log)
          /\ batch' = SubSeq(log, kept + 1, kept + n)
    /\ phase' = "opened"
    /\ base' = NoFile           \* let committedBytes = 0: not even the header
    /\ UNCHANGED <<lines, closedLine, log, kept, crashes, faulty>>

AppendStats ==
    /\ phase = "opened"
    /\ \/ /\ base' = File
          /\ phase' = "sized"
          /\ UNCHANGED faulty
       \/ /\ "stat" \in Faults /\ ~faulty
          /\ phase' = "unsized"
          /\ faulty' = TRUE
          /\ UNCHANGED base
    /\ UNCHANGED <<lines, closedLine, log, kept, batch, crashes>>

AppendWrites ==
    /\ phase = "sized"
    /\ \/ /\ SetFile(WriteUpTo(File, batch, Len(batch), "nothing"))
          /\ phase' = "written"
          /\ UNCHANGED faulty
       \/ /\ \E file \in IncompleteWrites(File, batch) : SetFile(file)
          /\ phase' = "failed"
          /\ UNCHANGED faulty
       \/ /\ "short" \in Faults /\ ~faulty  \* the returned bytesWritten is not looked at
          /\ \E file \in IncompleteWrites(File, batch) : SetFile(file)
          /\ phase' = "written"
          /\ faulty' = TRUE
    /\ UNCHANGED <<log, kept, batch, base, crashes>>

AppendSyncs ==
    /\ phase = "written"
    /\ \/ /\ phase' = "idle"
          /\ kept' = kept + Len(batch)
          /\ batch' = <<>>
       \/ /\ phase' = "failed"
          /\ UNCHANGED <<kept, batch>>
    /\ UNCHANGED <<lines, closedLine, log, base, crashes, faulty>>

(* mutant: a failed append leaves what it wrote *)
CutBackNothing(file) == File

(* truncate(committedBytes) *)
CutBack(file) == file

AppendRollsBack ==
    /\ phase \in {"failed", "unsized"}
    /\ \/ SetFile(CutBack(base)) /\ UNCHANGED faulty
       \/ "truncate" \in Faults /\ ~faulty /\ faulty' = TRUE /\ UNCHANGED <<lines, closedLine>>
    /\ phase' = "idle"
    /\ batch' = <<>>
    /\ UNCHANGED <<log, kept, base, crashes>>

-----------------------------------------------------------------------------
(* The process dies.  What was written but not synced may be cut anywhere;   *)
(* to cut it exactly before a newline is one of the faults.                  *)
Crash ==
    /\ phase # "down"
    /\ crashes < MaxCrashes
    /\ crashes' = crashes + 1
    /\ phase' = "down"
    /\ log' = <<>>
    /\ batch' = <<>>
    /\ \/ phase \in {"sized", "written", "failed"}
          /\ \E file \in IncompleteWrites(base, batch) \cup {base} : SetFile(file)
       \/ UNCHANGED <<lines, closedLine>>
    /\ Unterminated(File)' => "unterminated" \in Faults /\ ~faulty
    /\ faulty' = (faulty \/ Unterminated(File)')
    /\ UNCHANGED <<kept, base>>

NeedsRewrite(file) == HasTornTail(file) \/ MissingClosers(Committed(file)) # <<>>

(* repair(): the committed prefix, closed, is rewritten by an atomic rename  *)
(* when anything had to change.                                              *)
Repair ==
    /\ phase = "down"
    /\ LET events == Committed(File)
       IN  SetFile(IF NeedsRewrite(File) THEN FileOf(events \o MissingClosers(events)) ELSE File)
    /\ phase' = "repaired"
    /\ UNCHANGED <<log, kept, batch, base, crashes, faulty>>

(* loadOwned(), behind its repair(): a second rename numbers the closer, and *)
(* the log becomes the process's.                                            *)
LoadOwned ==
    /\ phase = "repaired"
    /\ LET events    == Committed(File)
           canonical == Canonical(events)
       IN  /\ \A i \in DOMAIN canonical : canonical[i].seq = i
           /\ SetFile(IF canonical = events THEN File ELSE FileOf(canonical))
           /\ log' = canonical
           /\ kept' = Len(canonical)
    /\ phase' = "idle"
    /\ UNCHANGED <<batch, base, crashes, faulty>>

(* It throws on a seq out of place, or when the second rename fails; the     *)
(* next attempt begins with repair() again.                                  *)
LoadFails ==
    /\ phase = "repaired"
    /\ phase' = "down"
    /\ UNCHANGED <<lines, closedLine, log, kept, batch, base, crashes, faulty>>

Next ==
    \/ Produce
    \/ AppendOpens
    \/ AppendStats
    \/ AppendWrites
    \/ AppendSyncs
    \/ AppendRollsBack
    \/ Crash
    \/ Repair
    \/ LoadOwned
    \/ LoadFails

Spec == Init /\ [][Next]_vars

-----------------------------------------------------------------------------
Events == [seq : Nat, kind : {"turn/start", "turn/end"}]

TypeOK ==
    /\ \A i \in DOMAIN lines : \A j \in DOMAIN lines[i] :
          lines[i][j].event \in Events /\ lines[i][j].whole \in BOOLEAN
    /\ closedLine \in BOOLEAN
    /\ \A i \in DOMAIN log : log[i] \in Events
    /\ phase \in {"idle", "opened", "sized", "unsized", "written", "failed", "down", "repaired"}
    /\ faulty \/ kept \in 0 .. MaxSeq + 1
    /\ crashes \in 0 .. MaxCrashes
    /\ faulty \in BOOLEAN

(* What append() acknowledged, or a recovery returned, can still be read     *)
(* whatever append fails and wherever the process dies: appends are durable  *)
(* when they resolve (write-behind.ts:16-17).                                *)
AcknowledgedIsReadable ==
    /\ Len(Committed(File)) >= kept
    /\ Running => IsPrefix(SubSeq(log, 1, kept), Committed(File))

(* It holds as long as only writes and syncs fail and only torn tails are    *)
(* left by a crash; each of the Faults breaks it (README).                   *)
AcknowledgedStaysReadable == faulty \/ AcknowledgedIsReadable

(* A reader sees each seq once and in place, also after failed appends were  *)
(* retried (index.ts:129-130, "so a clean retry never duplicates seqs").     *)
(* Only the closer of a repair has none, until its load has numbered it.     *)
SeqsArePositional ==
    LET events == Committed(File)
    IN  faulty \/ \A i \in DOMAIN events :
            \/ events[i].seq = i
            \/ ~Running /\ i = Len(events) /\ events[i] = [seq |-> NoSeq, kind |-> "turn/end"]

(* A running process never appends to a line that is not finished: nothing   *)
(* unreadable is left in front of what it will write.                        *)
AppendsToCleanTail ==
    (phase = "idle" /\ ~faulty) => closedLine /\ Len(Committed(File)) = Len(lines)
=============================================================================
