--------------------------- MODULE SessionOwnership ---------------------------
(***************************************************************************)
(* Who may write a session's file: the coordinators of several processes,  *)
(* each with its chain of operations for the session, the operating        *)
(* system's exclusive lock behind heldLocks, and the file they share.      *)
(*                                                                         *)
(* An entry of the file is the seq of an event, or Closer for a turn/end   *)
(* that repair() added without a seq.  Turns are one event long: an odd    *)
(* seq opens a turn, the next one closes it.  SessionWriteBehind is one    *)
(* "append" operation that writes everything the session has not saved;    *)
(* torn lines and rollbacks are JsonlStore's subject.                      *)
(***************************************************************************)
EXTENDS Naturals, Sequences, FiniteSets, SequencesExt

CONSTANTS
    Proc,       \* processes, one coordinator each
    Locking,    \* those with lock.enabled
    Op,         \* operation slots
    NoProc,
    MaxSeq,     \* bound: length of the log
    MaxCrashes, \* bound: deaths of processes
    Calls,      \* [Proc -> set of kinds] which operations a process calls
    LiveLoads,  \* load() is called for a session live in its own process
    MayClose,   \* processes that call close()
    LateCalls   \* operations are still called once close() has begun

Kinds == {"append", "load", "loadOwned", "adopt", "release"}

ASSUME OwnershipAssumption ==
    /\ NoProc \notin Proc
    /\ Locking \subseteq Proc /\ MayClose \subseteq Proc
    /\ MaxSeq \in Nat /\ MaxCrashes \in Nat
    /\ Calls \in [Proc -> SUBSET Kinds]
    /\ LiveLoads \in BOOLEAN /\ LateCalls \in BOOLEAN

VARIABLES
    file,       \* the session's entries on disk
    inode,      \* which file the path names: a rename gives it a new one
    osOwner,    \* the process whose handle has the OS lock
    held,       \* processes whose heldLocks has the session
    live,       \* processes with the session open for writing
    length,     \* [Proc -> Nat] session.events.length of a live session
    saved,      \* [Proc -> Nat] how many of them appends have acknowledged
    op,         \* [Op -> record] what each operation is doing
    chain,      \* [Proc -> Seq(Op)] sessionOperations: who runs, who waits
    closing,    \* [Proc -> record] close(), and the operations it waits for
    crashes

vars == <<file, inode, osOwner, held, live, length, saved, op, chain, closing, crashes>>

Closer == 0
Idle   == [kind |-> "none", pc |-> "idle", text |-> <<>>, inode |-> 0, borrowed |-> FALSE]
Open   == [pc |-> "open", waits |-> {}]

(* The operation of p that runs is the head of p's chain. *)
Runs(p, o, pc) == chain[p] # <<>> /\ Head(chain[p]) = o /\ op[o].pc = pc

InTurn(entries) == entries # <<>> /\ Last(entries) % 2 = 1

Init ==
    /\ file = <<>>
    /\ inode = 0
    /\ osOwner = NoProc
    /\ held = {}
    /\ live = {}
    /\ length = [p \in Proc |-> 0]
    /\ saved = [p \in Proc |-> 0]
    /\ op = [o \in Op |-> Idle]
    /\ chain = [p \in Proc |-> <<>>]
    /\ closing = [p \in Proc |-> Open]
    /\ crashes = 0

-----------------------------------------------------------------------------
(* withSessionOperation: an operation waits for the one before it, and its  *)
(* gate opens whether it succeeds or throws.                                *)
Chained(p, o) == chain' = [chain EXCEPT ![p] = Append(@, o)]

Finish(p, o) ==
    /\ chain' = [chain EXCEPT ![p] = Tail(@)]
    /\ op' = [op EXCEPT ![o] = Idle]

(* mutant: the gate of an operation that throws is never resolved *)
FailKeepingGate(p, o) ==
    /\ op' = [op EXCEPT ![o] = Idle]
    /\ UNCHANGED chain

Fail(p, o) == Finish(p, o)

Continue(o, pc) ==
    /\ op' = [op EXCEPT ![o].pc = pc]
    /\ UNCHANGED chain

(* mutant: ensureOwnership asks only whether anybody has the lock *)
OwnsAnyway(p) == p \notin Locking \/ osOwner # NoProc

Owns(p) == p \notin Locking \/ p \in held

Acquire(p) ==
    /\ p \in Locking
    /\ osOwner = NoProc
    /\ osOwner' = p
    /\ held' = held \cup {p}

Release(p) ==
    /\ held' = held \ {p}
    /\ osOwner' = IF osOwner = p THEN NoProc ELSE osOwner

(* ensureOwnership, its result awaited by the running operation. *)
Ensured(p) == IF Owns(p) THEN UNCHANGED <<osOwner, held>> ELSE Acquire(p)

(* Another holder kept the lease past the deadline: SessionLockConflictError. *)
Conflict(p) ==
    /\ ~Owns(p)
    /\ osOwner # NoProc
    /\ UNCHANGED <<osOwner, held>>

-----------------------------------------------------------------------------
(* A live session appends an event in memory and mirrors it. *)
Produce(p) ==
    /\ p \in live
    /\ length[p] < MaxSeq
    /\ length' = [length EXCEPT ![p] = @ + 1]
    /\ UNCHANGED <<file, inode, osOwner, held, live, saved, op, chain, closing, crashes>>

(* A process calls an operation.  Its callers release a lease only for a    *)
(* session they fenced off (session-management.ts and project-scope.ts run   *)
(* fence.exclusive with an idle check): no other call overlaps a release.    *)
Call(p, o) ==
    /\ op[o].pc = "idle"
    /\ LateCalls \/ closing[p].pc = "open"
    /\ \A x \in ToSet(chain[p]) : op[x].kind # "release"
    /\ \E kind \in Calls[p] :
          /\ kind = "append" => p \in live /\ saved[p] < length[p]
          /\ kind = "load" => LiveLoads \/ p \notin live
          /\ kind = "loadOwned" => p \notin live
          /\ kind = "release" => p \notin live /\ p \in held /\ chain[p] = <<>>
          /\ op' = [op EXCEPT ![o] = [Idle EXCEPT !.kind = kind, !.pc = "queued"]]
    /\ Chained(p, o)
    /\ closing' = [closing EXCEPT ![p].waits = @ \ {o}]
    /\ UNCHANGED <<file, inode, osOwner, held, live, length, saved, crashes>>

(* The operation starts: every kind but release needs the lease.  load() and *)
(* loadOwned() note whether they took it themselves (borrowOwnership).       *)
Starts(p, o) ==
    /\ Runs(p, o, "queued")
    /\ op[o].kind # "release"
    /\ \/ /\ Ensured(p)
          /\ op' = [op EXCEPT ![o].pc = "owning", ![o].borrowed = ~Owns(p)]
          /\ UNCHANGED chain
       \/ /\ Conflict(p)
          /\ Fail(p, o)
    /\ UNCHANGED <<file, inode, live, length, saved, closing, crashes>>

(* backend.append: open and fstat, then write at that offset.  By then the   *)
(* path may name another file (a rename: the write goes nowhere) or the file *)
(* may have grown (the write goes over what is there).                       *)
AppendOpens(p, o) ==
    /\ Runs(p, o, "owning")
    /\ op[o].kind = "append"
    /\ op' = [op EXCEPT ![o].pc = "appending", ![o].text = file, ![o].inode = inode]
    /\ UNCHANGED <<file, inode, osOwner, held, live, length, saved, chain, closing, crashes>>

AppendWrites(p, o) ==
    /\ Runs(p, o, "appending")
    /\ LET batch == [i \in 1 .. length[p] - saved[p] |-> saved[p] + i]
           end   == Len(op[o].text)
       IN  file' = IF op[o].inode # inode THEN file
                   ELSE SubSeq(file, 1, end) \o batch
                        \o SubSeq(file, end + Len(batch) + 1, Len(file))
    /\ saved' = [saved EXCEPT ![p] = length[p]]
    /\ Finish(p, o)
    /\ UNCHANGED <<inode, osOwner, held, live, length, closing, crashes>>

AppendFails(p, o) ==
    /\ Runs(p, o, "appending")
    /\ Fail(p, o)
    /\ UNCHANGED <<file, inode, osOwner, held, live, length, saved, closing, crashes>>

(* backend.repair, first half: the text it will write back. *)
RepairReads(p, o) ==
    /\ Runs(p, o, "owning")
    /\ op[o].kind \in {"load", "loadOwned"}
    /\ op' = [op EXCEPT ![o].pc = "repairing", ![o].text = file]
    /\ UNCHANGED <<file, inode, osOwner, held, live, length, saved, chain, closing, crashes>>

(* replaceSessionFile: a temporary file renamed over the path. *)
Rewrite(old, new) ==
    /\ file' = IF old = new THEN file ELSE new
    /\ inode' = IF old = new THEN inode ELSE inode + 1

Closed(entries) == IF InTurn(entries) THEN Append(entries, Closer) ELSE entries

(* A lease the operation borrowed goes back; one it found stays. *)
Returns(p, o) ==
    \/ op[o].borrowed /\ Continue(o, "returning")
    \/ ~op[o].borrowed /\ Finish(p, o)

(* load(): the repaired text replaces the file when it differs. *)
LoadRepairs(p, o) ==
    /\ Runs(p, o, "repairing")
    /\ op[o].kind = "load"
    /\ Rewrite(op[o].text, Closed(op[o].text))
    /\ Returns(p, o)
    /\ UNCHANGED <<osOwner, held, live, length, saved, closing, crashes>>

(* repair() throws: the path still names the old file. *)
RepairFails(p, o) ==
    /\ Runs(p, o, "repairing")
    /\ Returns(p, o)
    /\ UNCHANGED <<file, inode, osOwner, held, live, length, saved, closing, crashes>>

(* loadOwned() repairs in the same way, and goes on with the repaired log:   *)
(* the seqs it has must be positional, Closer entries get theirs, and the    *)
(* canonical log is written back.  Then the session is open for writing.     *)
OwnedRepairs(p, o) ==
    /\ Runs(p, o, "repairing")
    /\ op[o].kind = "loadOwned"
    /\ Rewrite(op[o].text, Closed(op[o].text))
    /\ op' = [op EXCEPT ![o].pc = "loading", ![o].text = Closed(@)]
    /\ UNCHANGED <<osOwner, held, live, length, saved, chain, closing, crashes>>

Positional(entries) == \A i \in DOMAIN entries : entries[i] \in {Closer, i}

LoadsOwned(p, o) ==
    /\ Runs(p, o, "loading")
    /\ Positional(op[o].text)
    /\ Rewrite(op[o].text, [i \in DOMAIN op[o].text |-> i])
    /\ live' = live \cup {p}
    /\ length' = [length EXCEPT ![p] = Len(op[o].text)]
    /\ saved' = [saved EXCEPT ![p] = Len(op[o].text)]
    /\ Finish(p, o)
    /\ UNCHANGED <<osOwner, held, closing, crashes>>

(* A seq is not positional, or the second rewrite fails. *)
LoadOwnedFails(p, o) ==
    /\ Runs(p, o, "loading")
    /\ Returns(p, o)
    /\ UNCHANGED <<file, inode, osOwner, held, live, length, saved, closing, crashes>>

(* mutant: load() keeps the lease it borrowed *)
ReturnNothing(p) == UNCHANGED <<osOwner, held>>

ReturnLease(p) == Release(p)

LeaseReturns(p, o) ==
    /\ Runs(p, o, "returning")
    /\ ReturnLease(p)
    /\ Finish(p, o)
    /\ UNCHANGED <<file, inode, live, length, saved, closing, crashes>>

Adopts(p, o) ==
    /\ Runs(p, o, "owning")
    /\ op[o].kind = "adopt"
    /\ Finish(p, o)
    /\ UNCHANGED <<file, inode, osOwner, held, live, length, saved, closing, crashes>>

Releases(p, o) ==
    /\ Runs(p, o, "queued")
    /\ op[o].kind = "release"
    /\ Release(p)
    /\ Finish(p, o)
    /\ UNCHANGED <<file, inode, live, length, saved, closing, crashes>>

(* closeSession() disposes of a session whose turn and writes have ended;    *)
(* session/close then flushes and calls releaseOwnership.                    *)
Dispose(p) ==
    /\ p \in live
    /\ saved[p] = length[p]
    /\ chain[p] = <<>>
    /\ live' = live \ {p}
    /\ UNCHANGED <<file, inode, osOwner, held, length, saved, op, chain, closing, crashes>>

-----------------------------------------------------------------------------
(* close(): waits for the operations that are in the chain now, releases the *)
(* OS locks, and clears heldLocks when the releases have settled.            *)
CloseWaits(p) ==
    /\ p \in MayClose
    /\ closing[p].pc = "open"
    /\ closing' = [closing EXCEPT ![p] = [pc |-> "waiting", waits |-> ToSet(chain[p])]]
    /\ UNCHANGED <<file, inode, osOwner, held, live, length, saved, op, chain, crashes>>


AwaitedEnded(p) == closing[p].waits \cap ToSet(chain[p]) = {}

CloseReleases(p) ==
    /\ closing[p].pc = "waiting"
    /\ AwaitedEnded(p)
    /\ osOwner' = IF osOwner = p THEN NoProc ELSE osOwner
    /\ closing' = [closing EXCEPT ![p].pc = "releasing"]
    /\ UNCHANGED <<file, inode, held, live, length, saved, op, chain, crashes>>

CloseClears(p) ==
    /\ closing[p].pc = "releasing"
    /\ held' = held \ {p}
    /\ closing' = [closing EXCEPT ![p].pc = "closed"]
    /\ UNCHANGED <<file, inode, osOwner, live, length, saved, op, chain, crashes>>

(* A process dies: the operating system drops its lock. *)
Crash(p) ==
    /\ crashes < MaxCrashes
    /\ crashes' = crashes + 1
    /\ Release(p)
    /\ live' = live \ {p}
    /\ op' = [o \in Op |-> IF o \in ToSet(chain[p]) THEN Idle ELSE op[o]]
    /\ chain' = [chain EXCEPT ![p] = <<>>]
    /\ closing' = [closing EXCEPT ![p] = Open]
    /\ UNCHANGED <<file, inode, length, saved>>

OpStep(p, o) ==
    \/ Starts(p, o)
    \/ AppendOpens(p, o)
    \/ AppendWrites(p, o)
    \/ AppendFails(p, o)
    \/ RepairReads(p, o)
    \/ LoadRepairs(p, o)
    \/ RepairFails(p, o)
    \/ OwnedRepairs(p, o)
    \/ LoadsOwned(p, o)
    \/ LoadOwnedFails(p, o)
    \/ LeaseReturns(p, o)
    \/ Adopts(p, o)
    \/ Releases(p, o)

Next ==
    \E p \in Proc :
        \/ Produce(p)
        \/ \E o \in Op : Call(p, o) \/ OpStep(p, o)
        \/ Dispose(p)
        \/ CloseWaits(p)
        \/ CloseReleases(p)
        \/ CloseClears(p)
        \/ Crash(p)

(* An operation that runs goes on: file operations and lock attempts end. *)
Spec == Init /\ [][Next]_vars /\ \A p \in Proc : WF_vars(\E o \in Op : OpStep(p, o))

-----------------------------------------------------------------------------
TypeOK ==
    /\ file \in Seq(0 .. MaxSeq + 1)
    /\ osOwner \in Proc \cup {NoProc}
    /\ held \subseteq Locking
    /\ live \subseteq Proc
    /\ \A p \in Proc : saved[p] <= length[p] /\ length[p] <= MaxSeq + 1
    /\ \A o \in Op : op[o].kind \in Kinds \cup {"none"}
    /\ \A p \in Proc : chain[p] \in Seq(Op)

Working == {"owning", "appending", "repairing", "loading", "returning"}

(* "Every mutating path runs under the session's ownership lease"            *)
(* (index.ts:309-310): from ensureOwnership to its end an operation of a     *)
(* locking coordinator has the OS lock, so no two processes mutate at once.  *)
LeaseCoversWork ==
    \A p \in Locking, o \in Op : o \in ToSet(chain[p]) /\ op[o].pc \in Working => osOwner = p

(* What an append acknowledged stays in the file, in place, for as long as   *)
(* the session is live: no rename and no other writer's append undoes it.    *)
SavedStaysSaved ==
    \A p \in live : Len(file) >= saved[p] /\ \A i \in 1 .. saved[p] : file[i] = i

(* The log of a live session can be loaded again after a restart.            *)
LogStaysLoadable == live # {} => Positional(file)

(* A lease that load() or a failed loadOwned() borrowed is back when they    *)
(* end; the session's writer elsewhere is not locked out.                    *)
BorrowedLeaseComesBack ==
    [][\A p \in Proc, o \in Op :
          /\ chain[p] # <<>> /\ Head(chain[p]) = o
          /\ op[o].kind \in {"load", "loadOwned"} /\ op[o].borrowed
          /\ op'[o] = Idle
          /\ p \notin live'
          => p \notin held']_vars

(* No operation waits for ever: a failed one does not poison its successors. *)
OperationsEnd == \A o \in Op : op[o].pc # "idle" ~> op[o].pc = "idle"

(* After an orderly close() - nothing called once it has begun - the process *)
(* has no lease left, though operations were running when it was called.     *)
ClosedHoldsNothing ==
    \A p \in Proc : closing[p].pc = "closed" /\ ~LateCalls => p \notin held /\ osOwner # p

(* The CLI's session listing loads with locking off and "never writes (a     *)
(* session live in another process is still listed)" (sessions.ts:12-14).    *)
ListingNeverWrites ==
    [][\A p \in Proc \ Locking, o \in Op : LoadRepairs(p, o) => UNCHANGED file]_vars
=============================================================================
