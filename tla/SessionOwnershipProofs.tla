------------------------ MODULE SessionOwnershipProofs ------------------------
(***************************************************************************)
(* Proofs about SessionOwnership for any number of processes, operations,  *)
(* crashes and events.                                                     *)
(*                                                                         *)
(* Every mutation runs under the lease, and an orderly close() leaves no   *)
(* lease behind.  Neither is inductive by itself.  QueueInv says that each *)
(* operation is in one chain at one place and that only the head of a      *)
(* chain works; CloseInv says what close() still waits for; LeaseInv       *)
(* relates heldLocks to the operating system's lock, which close()         *)
(* releases at two different moments.                                      *)
(*                                                                         *)
(* The second part is about the file: what an append acknowledged stays    *)
(* where it was written while the session is live, and its log can be      *)
(* loaded.  Only the operation under the lease changes the file, so what   *)
(* it read of it is still true when it writes (HeadFits).  A live session  *)
(* that can still write holds the lease and the file is exactly what it    *)
(* has saved (OwnerInv), so an append goes on where the file ends.  What   *)
(* load() adds it adds to nobody's live session (CallsFit).                *)
(***************************************************************************)
EXTENDS SessionOwnership, TLAPS

(* Operations are records, whatever their texts are. *)
Fields == {"kind", "pc", "text", "inode", "borrowed"}
Shape ==
    /\ chain \in [Proc -> Seq(Op)]
    /\ DOMAIN op = Op
    /\ \A o \in Op : DOMAIN op[o] = Fields

QueueInv ==
    /\ \A p \in Proc : \A i \in DOMAIN chain[p] :
          /\ op[chain[p][i]].pc # "idle"
          /\ i # 1 => op[chain[p][i]].pc = "queued"
    /\ \A p, q \in Proc : \A i \in DOMAIN chain[p], j \in DOMAIN chain[q] :
          chain[p][i] = chain[q][j] => p = q /\ i = j

CloseInv ==
    /\ DOMAIN closing = Proc
    /\ \A p \in Proc :
          /\ DOMAIN closing[p] = {"pc", "waits"}
          /\ closing[p].pc \in {"open", "waiting", "releasing", "closed"}
          /\ closing[p].pc # "open" => \A i \in DOMAIN chain[p] : chain[p][i] \in closing[p].waits
          /\ closing[p].pc \in {"releasing", "closed"} => chain[p] = <<>>

LeaseInv ==
    /\ held \subseteq Locking
    /\ osOwner \in Proc => osOwner \in held
    /\ \A p \in held : closing[p].pc \in {"open", "waiting"} => osOwner = p
    /\ \A p \in Proc : closing[p].pc \in {"releasing", "closed"} => osOwner # p
    /\ \A p \in Proc : closing[p].pc = "closed" => p \notin held
    /\ \A p \in Locking :
          chain[p] # <<>> /\ op[Head(chain[p])].pc \in Working => p \in held

IInv == Shape /\ QueueInv /\ CloseInv /\ LeaseInv

-----------------------------------------------------------------------------
(* What a step does to the chains. *)
Stays == UNCHANGED <<op, chain>>

Joins(p, o) ==
    /\ op[o].pc = "idle"
    /\ chain' = [chain EXCEPT ![p] = Append(@, o)]
    /\ DOMAIN op' = Op /\ DOMAIN op'[o] = Fields
    /\ \A x \in Op \ {o} : op'[x] = op[x]
    /\ op'[o].pc = "queued"

GoesOn(p, o) ==
    /\ chain[p] # <<>> /\ o = Head(chain[p])
    /\ chain' = chain
    /\ DOMAIN op' = Op /\ DOMAIN op'[o] = Fields
    /\ \A x \in Op \ {o} : op'[x] = op[x]
    /\ op'[o].pc \in Working

Leaves(p, o) ==
    /\ chain[p] # <<>> /\ o = Head(chain[p])
    /\ Finish(p, o)

Dies(p) ==
    /\ op' = [o \in Op |-> IF o \in ToSet(chain[p]) THEN Idle ELSE op[o]]
    /\ chain' = [chain EXCEPT ![p] = <<>>]

(* A step of an operation is one of the head of its chain. *)
LEMMA OpSteps ==
  ASSUME Shape, NEW p \in Proc, NEW o \in Op, OpStep(p, o)
  PROVE  GoesOn(p, o) \/ Leaves(p, o)
<1> USE DEF Shape, Runs, Finish, Fail, Continue, Returns, GoesOn, Leaves, Working, Idle, Fields
<1>1. CASE Starts(p, o)
  BY <1>1 DEF Starts
<1>2. CASE AppendOpens(p, o)
  BY <1>2 DEF AppendOpens
<1>3. CASE AppendWrites(p, o)
  BY <1>3 DEF AppendWrites
<1>4. CASE AppendFails(p, o)
  BY <1>4 DEF AppendFails
<1>5. CASE RepairReads(p, o)
  BY <1>5 DEF RepairReads
<1>6. CASE LoadRepairs(p, o)
  BY <1>6 DEF LoadRepairs
<1>7. CASE RepairFails(p, o)
  BY <1>7 DEF RepairFails
<1>11. CASE OwnedRepairs(p, o)
  BY <1>11 DEF OwnedRepairs
<1>12. CASE LoadsOwned(p, o)
  BY <1>12 DEF LoadsOwned
<1>13. CASE LoadOwnedFails(p, o)
  BY <1>13 DEF LoadOwnedFails
<1>8. CASE LeaseReturns(p, o)
  BY <1>8 DEF LeaseReturns
<1>9. CASE Adopts(p, o)
  BY <1>9 DEF Adopts
<1>10. CASE Releases(p, o)
  BY <1>10 DEF Releases
<1> QED
  BY <1>1, <1>2, <1>3, <1>4, <1>5, <1>6, <1>7, <1>8, <1>9, <1>10, <1>11, <1>12, <1>13 DEF OpStep

(* What the kinds of steps keep. *)
LEMMA JoinKeeps ==
  ASSUME Shape, QueueInv, NEW p \in Proc, NEW o \in Op, Joins(p, o)
  PROVE  Shape' /\ QueueInv'
<1>1. Shape'
  BY DEF Shape, Joins
<1>2. \A q \in Proc : \A i \in DOMAIN chain'[q] :
         \/ i \in DOMAIN chain[q] /\ chain'[q][i] = chain[q][i] /\ chain[q][i] # o
         \/ q = p /\ i = Len(chain[p]) + 1 /\ chain'[q][i] = o
  BY DEF Shape, Joins, QueueInv
<1>3. \A x \in Op : x # o => op'[x] = op[x]
  BY DEF Joins
<1>4. \A q \in Proc : \A i \in DOMAIN chain[q] : chain[q][i] \in Op /\ i # Len(chain[q]) + 1
  BY DEF Shape
<1>5. QueueInv'
  BY <1>2, <1>3, <1>4 DEF QueueInv, Joins
<1> QED
  BY <1>1, <1>5

LEMMA GoOnKeeps ==
  ASSUME Shape, QueueInv, NEW p \in Proc, NEW o \in Op, GoesOn(p, o)
  PROVE  Shape' /\ QueueInv'
<1>1. Shape'
  BY DEF Shape, GoesOn
<1>2. \A x \in Op : x # o => op'[x] = op[x]
  BY DEF GoesOn
<1>3. \A q \in Proc : \A i \in DOMAIN chain[q] : chain[q][i] \in Op
  BY DEF Shape
<1>4. 1 \in DOMAIN chain[p] /\ chain[p][1] = o
  BY DEF Shape, GoesOn
<1>5. QueueInv'
  BY <1>2, <1>3, <1>4 DEF QueueInv, GoesOn, Working
<1> QED
  BY <1>1, <1>5

LEMMA LeaveKeeps ==
  ASSUME Shape, QueueInv, NEW p \in Proc, NEW o \in Op, Leaves(p, o)
  PROVE  Shape' /\ QueueInv'
<1>1. Shape'
  BY DEF Shape, Leaves, Finish, Idle, Fields
<1>2. \A x \in Op : x # o => op'[x] = op[x]
  BY DEF Shape, Leaves, Finish
<1>3. \A q \in Proc : \A i \in DOMAIN chain[q] : chain[q][i] \in Op
  BY DEF Shape
<1>4. 1 \in DOMAIN chain[p] /\ chain[p][1] = o
  BY DEF Shape, Leaves
<1>5. \A q \in Proc : \A i \in DOMAIN chain'[q] :
         IF q = p THEN i + 1 \in DOMAIN chain[p] /\ i + 1 # 1 /\ i \in Nat /\ chain'[p][i] = chain[p][i + 1]
         ELSE i \in DOMAIN chain[q] /\ chain'[q][i] = chain[q][i]
  BY DEF Shape, Leaves, Finish
<1>6. \A q \in Proc : \A i \in DOMAIN chain'[q] : chain'[q][i] # o /\ chain'[q][i] \in Op
  BY <1>3, <1>4, <1>5 DEF QueueInv
<1>7. \A q \in Proc : \A i \in DOMAIN chain'[q] :
         op[chain'[q][i]].pc # "idle" /\ (i # 1 => op[chain'[q][i]].pc = "queued")
  BY <1>5 DEF QueueInv
<1>8. \A q, r \in Proc : \A i \in DOMAIN chain'[q], j \in DOMAIN chain'[r] :
         chain'[q][i] = chain'[r][j] => q = r /\ i = j
  BY <1>5 DEF QueueInv
<1>9. QueueInv'
  BY <1>2, <1>6, <1>7, <1>8 DEF QueueInv
<1> QED
  BY <1>1, <1>9

LEMMA DeathKeeps ==
  ASSUME Shape, QueueInv, NEW p \in Proc, Dies(p)
  PROVE  Shape' /\ QueueInv'
<1>1. Shape'
  BY DEF Shape, Dies, Idle, Fields
<1>2. \A q \in Proc : \A i \in DOMAIN chain[q] : chain[q][i] \in Op
  BY DEF Shape
<1>3. \A q \in Proc : IF q = p THEN DOMAIN chain'[q] = {} ELSE chain'[q] = chain[q]
  BY DEF Shape, Dies
<1>4. \A q \in Proc : \A i \in DOMAIN chain[q] : q # p => chain[q][i] \notin ToSet(chain[p])
  BY DEF QueueInv, ToSet
<1>5. \A q \in Proc : \A i \in DOMAIN chain[q] : q # p => op'[chain[q][i]] = op[chain[q][i]]
  BY <1>2, <1>4 DEF Dies
<1>6. QueueInv'
  BY <1>3, <1>5 DEF QueueInv
<1> QED
  BY <1>1, <1>6

(* Every step is of one of these kinds, and keeps the queues. *)
LEMMA QueueStep == Shape /\ QueueInv /\ [Next]_vars => Shape' /\ QueueInv'
<1> SUFFICES ASSUME Shape, QueueInv, [Next]_vars PROVE Shape' /\ QueueInv'
  OBVIOUS
<1>1. CASE Stays
  BY <1>1 DEF Stays, Shape, QueueInv
<1>2. ASSUME NEW p \in Proc, NEW o \in Op, Call(p, o) PROVE Joins(p, o)
  BY <1>2 DEF Call, Chained, Joins, Shape, Idle, Fields
<1>3. ASSUME NEW p \in Proc, Crash(p) PROVE Dies(p)
  BY <1>3 DEF Crash, Dies
<1>4. ASSUME NEW p \in Proc, Produce(p) \/ Dispose(p) \/ CloseWaits(p) \/ CloseReleases(p) \/ CloseClears(p)
      PROVE  Stays
  BY <1>4 DEF Produce, Dispose, CloseWaits, CloseReleases, CloseClears, Stays
<1>5. UNCHANGED vars => Stays
  BY DEF vars, Stays
<1> QED
  BY <1>1, <1>2, <1>3, <1>4, <1>5, OpSteps, JoinKeeps, GoOnKeeps, LeaveKeeps, DeathKeeps DEF Next

(* close() goes on to release only when the chain is empty, which it stays  *)
(* because nothing is called any more.                                      *)
LEMMA CloseStep ==
  ASSUME ~LateCalls
  PROVE  Shape /\ CloseInv /\ [Next]_vars => CloseInv'
<1> SUFFICES ASSUME Shape, CloseInv, [Next]_vars PROVE CloseInv'
  OBVIOUS
<1>1. ASSUME NEW p \in Proc, NEW o \in Op, Call(p, o) PROVE CloseInv'
  BY <1>1 DEF Call, Chained, Shape, CloseInv
<1>2. ASSUME NEW p \in Proc, NEW o \in Op, OpStep(p, o) PROVE CloseInv'
  <2>1. closing' = closing
    BY <1>2 DEF OpStep, Starts, AppendOpens, AppendWrites, AppendFails, RepairReads, LoadRepairs,
                RepairFails, OwnedRepairs, LoadsOwned, LoadOwnedFails, LeaseReturns, Adopts, Releases
  <2>2. CASE GoesOn(p, o)
    BY <2>1, <2>2 DEF GoesOn, CloseInv
  <2>3. CASE Leaves(p, o)
    <3>1. \A q \in Proc : q # p => chain'[q] = chain[q]
      BY <2>3 DEF Leaves, Finish, Shape
    <3>2. \A i \in DOMAIN chain'[p] : i + 1 \in DOMAIN chain[p] /\ chain'[p][i] = chain[p][i + 1]
      BY <2>3 DEF Leaves, Finish, Shape
    <3> QED
      BY <2>1, <2>3, <3>1, <3>2 DEF Leaves, CloseInv
  <2> QED
    BY <1>2, <2>2, <2>3, OpSteps
<1>3. ASSUME NEW p \in Proc, CloseWaits(p) PROVE CloseInv'
  BY <1>3 DEF CloseWaits, CloseInv, ToSet
<1>4. ASSUME NEW p \in Proc, CloseReleases(p) PROVE CloseInv'
  <2>1. chain[p] = <<>>
    <3> SUFFICES ASSUME chain[p] # <<>> PROVE FALSE
      OBVIOUS
    <3>1. 1 \in DOMAIN chain[p]
      BY DEF Shape
    <3> QED
      BY <1>4, <3>1 DEF CloseReleases, AwaitedEnded, CloseInv, ToSet
  <2> QED
    BY <1>4, <2>1 DEF CloseReleases, CloseInv
<1>5. ASSUME NEW p \in Proc, CloseClears(p) PROVE CloseInv'
  BY <1>5 DEF CloseClears, CloseInv
<1>6. ASSUME NEW p \in Proc, Crash(p) PROVE CloseInv'
  BY <1>6 DEF Crash, CloseInv, Open, Shape
<1>7. ASSUME NEW p \in Proc, Produce(p) \/ Dispose(p) PROVE CloseInv'
  BY <1>7 DEF Produce, Dispose, CloseInv
<1>8. UNCHANGED vars => CloseInv'
  BY DEF vars, CloseInv
<1> QED
  BY <1>1, <1>2, <1>3, <1>4, <1>5, <1>6, <1>7, <1>8 DEF Next

(* heldLocks and the operating system's lock stay together but for the      *)
(* moment in which close() has released the lock and not yet its record.    *)
LEMMA LeaseStep ==
  ASSUME ~LateCalls
  PROVE  IInv /\ [Next]_vars => LeaseInv'
<1> SUFFICES ASSUME IInv, [Next]_vars PROVE LeaseInv'
  OBVIOUS
<1> USE OwnershipAssumption
<1>1. ASSUME NEW p \in Proc, NEW o \in Op, Call(p, o) PROVE LeaseInv'
  <2>1. UNCHANGED <<osOwner, held>> /\ closing[p].pc = "open"
    BY <1>1 DEF Call
  <2>2. \A q \in Proc : closing'[q].pc = closing[q].pc
    BY <1>1 DEF Call, IInv, CloseInv
  <2>3. \A q \in Proc : chain'[q] # <<>> /\ op'[Head(chain'[q])].pc \in Working =>
                         chain[q] # <<>> /\ op[Head(chain[q])].pc \in Working
    <3>1. Joins(p, o)
      BY <1>1 DEF Call, Chained, Joins, IInv, Shape, Idle, Fields
    <3>2. \A q \in Proc : q # p => chain'[q] = chain[q]
      BY <3>1 DEF Joins, IInv, Shape
    <3>3. Head(chain'[p]) = IF chain[p] = <<>> THEN o ELSE Head(chain[p])
      BY <3>1 DEF Joins, IInv, Shape
    <3>4. \A q \in Proc : chain[q] # <<>> => Head(chain[q]) \in Op
      BY DEF IInv, Shape
    <3>5. op'[o].pc \notin Working /\ \A x \in Op \ {o} : op'[x] = op[x]
      BY <3>1 DEF Joins, Working
    <3> QED
      BY <3>2, <3>3, <3>4, <3>5
  <2> QED
    BY <2>1, <2>2, <2>3 DEF IInv, LeaseInv
<1>2. ASSUME NEW p \in Proc, NEW o \in Op, OpStep(p, o) PROVE LeaseInv'
  <2> USE DEF IInv
  <2>1. /\ closing' = closing
        /\ chain[p] # <<>> /\ o = Head(chain[p])
    BY <1>2, OpSteps DEF GoesOn, Leaves, OpStep, Starts, AppendOpens, AppendWrites, AppendFails,
             RepairReads, LoadRepairs, RepairFails, OwnedRepairs, LoadsOwned, LoadOwnedFails,
             LeaseReturns, Adopts, Releases
  <2>2. closing[p].pc \in {"open", "waiting"}
    BY <2>1 DEF CloseInv
  <2>3. \A q \in Proc \ {p} : chain'[q] # <<>> /\ op'[Head(chain'[q])].pc \in Working =>
                               chain[q] # <<>> /\ op[Head(chain[q])].pc \in Working
    <3>1. \A q \in Proc \ {p} : chain'[q] = chain[q]
      BY <1>2, OpSteps DEF GoesOn, Leaves, Finish, Shape
    <3>2. \A q \in Proc \ {p} : chain[q] # <<>> => Head(chain[q]) \in Op /\ Head(chain[q]) # o
      <4> SUFFICES ASSUME NEW q \in Proc \ {p}, chain[q] # <<>>
                   PROVE  Head(chain[q]) \in Op /\ Head(chain[q]) # o
        OBVIOUS
      <4>1. /\ 1 \in DOMAIN chain[q] /\ chain[q][1] = Head(chain[q]) /\ Head(chain[q]) \in Op
            /\ 1 \in DOMAIN chain[p] /\ chain[p][1] = o
        BY <2>1 DEF Shape
      <4> QED
        BY <4>1 DEF QueueInv
    <3>3. \A x \in Op \ {o} : op'[x] = op[x]
      BY <1>2, OpSteps DEF GoesOn, Leaves, Finish, Shape
    <3> QED
      BY <3>1, <3>2, <3>3
  <2>4. CASE Leaves(p, o)
    <3>1. chain'[p] # <<>> => op'[Head(chain'[p])].pc \notin Working
      <4> SUFFICES ASSUME chain'[p] # <<>> PROVE op'[Head(chain'[p])].pc \notin Working
        OBVIOUS
      <4>1. 2 \in DOMAIN chain[p] /\ chain[p][2] = Head(chain'[p]) /\ chain[p][2] \in Op
        BY <2>4 DEF Leaves, Finish, Shape
      <4>2. 1 \in DOMAIN chain[p] /\ chain[p][1] = o
        BY <2>1 DEF Shape
      <4>3. chain[p][2] # o /\ op[chain[p][2]].pc = "queued"
        BY <4>1, <4>2 DEF QueueInv
      <4>4. op'[chain[p][2]] = op[chain[p][2]]
        BY <2>4, <4>1, <4>3 DEF Leaves, Finish, Shape
      <4> QED
        BY <4>1, <4>3, <4>4 DEF Working
    <3>2. \/ UNCHANGED <<osOwner, held>>
          \/ Release(p)
      BY <1>2, <2>4 DEF OpStep, Starts, Conflict, Ensured, Leaves, GoesOn, AppendOpens, AppendWrites, AppendFails,
             RepairReads, LoadRepairs, RepairFails, OwnedRepairs, LoadsOwned, LoadOwnedFails,
             LeaseReturns, ReturnLease, Adopts, Releases, Finish, Shape, Idle, Fields
    <3>3. CASE UNCHANGED <<osOwner, held>>
      BY <2>1, <2>3, <3>1, <3>3 DEF LeaseInv
    <3>4. CASE Release(p)
      BY <2>1, <2>2, <2>3, <3>1, <3>4 DEF LeaseInv, Release
    <3> QED
      BY <3>2, <3>3, <3>4
  <2>5. CASE GoesOn(p, o)
    <3>1. \/ UNCHANGED <<osOwner, held>> /\ op[o].pc \in Working
          \/ Ensured(p)
      <4>1. op'[o] # Idle
        BY <2>5 DEF GoesOn, Working, Idle
      <4>2. ~Finish(p, o)
        BY <4>1 DEF Finish, Shape
      <4> QED
        BY <1>2, <4>2 DEF OpStep, Starts, Fail, AppendOpens, AppendWrites, AppendFails, RepairReads,
             LoadRepairs, RepairFails, OwnedRepairs, LoadsOwned, LoadOwnedFails, LeaseReturns, Adopts,
             Releases, Runs, Working
    <3>2. CASE UNCHANGED <<osOwner, held>> /\ op[o].pc \in Working
      BY <2>1, <2>3, <2>5, <3>2 DEF LeaseInv, GoesOn
    <3>3. CASE Ensured(p)
      BY <2>1, <2>2, <2>3, <2>5, <3>3 DEF LeaseInv, GoesOn, Ensured, Owns, Acquire
    <3> QED
      BY <3>1, <3>2, <3>3
  <2> QED
    BY <1>2, <2>4, <2>5, OpSteps
<1>3. ASSUME NEW p \in Proc, CloseWaits(p) PROVE LeaseInv'
  BY <1>3 DEF CloseWaits, IInv, CloseInv, LeaseInv
<1>4. ASSUME NEW p \in Proc, CloseReleases(p) PROVE LeaseInv'
  BY <1>4 DEF CloseReleases, IInv, CloseInv, LeaseInv
<1>5. ASSUME NEW p \in Proc, CloseClears(p) PROVE LeaseInv'
  BY <1>5 DEF CloseClears, IInv, CloseInv, LeaseInv
<1>6. ASSUME NEW p \in Proc, Crash(p) PROVE LeaseInv'
  <2>1. \A q \in Proc : q # p => closing'[q] = closing[q] /\ chain'[q] = chain[q]
    BY <1>6 DEF Crash, IInv, Shape, CloseInv
  <2>2. closing'[p].pc = "open" /\ chain'[p] = <<>>
    BY <1>6 DEF Crash, IInv, Shape, CloseInv, Open
  <2>3. \A q \in Proc \ {p} : chain[q] # <<>> => op'[Head(chain[q])] = op[Head(chain[q])]
    <3> SUFFICES ASSUME NEW q \in Proc \ {p}, chain[q] # <<>>
                 PROVE  op'[Head(chain[q])] = op[Head(chain[q])]
      OBVIOUS
    <3>1. 1 \in DOMAIN chain[q] /\ chain[q][1] = Head(chain[q]) /\ Head(chain[q]) \in Op
      BY DEF IInv, Shape
    <3>2. Head(chain[q]) \notin ToSet(chain[p])
      BY <3>1 DEF IInv, QueueInv, ToSet
    <3> QED
      BY <1>6, <3>1, <3>2 DEF Crash
  <2>4. held' = held \ {p} /\ osOwner' = IF osOwner = p THEN NoProc ELSE osOwner
    BY <1>6 DEF Crash, Release
  <2> QED
    BY <2>1, <2>2, <2>3, <2>4 DEF IInv, LeaseInv
<1>7. ASSUME NEW p \in Proc, Produce(p) \/ Dispose(p) PROVE LeaseInv'
  BY <1>7 DEF Produce, Dispose, IInv, LeaseInv
<1>8. UNCHANGED vars => LeaseInv'
  BY DEF vars, IInv, LeaseInv
<1> QED
  BY <1>1, <1>2, <1>3, <1>4, <1>5, <1>6, <1>7, <1>8 DEF Next

LEMMA InitIInv == Init => IInv
<1> SUFFICES ASSUME Init PROVE IInv
  OBVIOUS
<1> USE DEF Init, Idle
<1>1. Shape
  BY DEF Shape, Fields
<1>2. QueueInv
  BY DEF QueueInv
<1>3. CloseInv
  BY DEF CloseInv, Open
<1>4. LeaseInv
  BY OwnershipAssumption DEF LeaseInv, Open
<1> QED
  BY <1>1, <1>2, <1>3, <1>4 DEF IInv

LEMMA LeasesCover ==
  ASSUME IInv
  PROVE  LeaseCoversWork /\ ClosedHoldsNothing
<1>1. LeaseCoversWork
  <2> SUFFICES ASSUME NEW p \in Locking, NEW o \in Op, o \in ToSet(chain[p]), op[o].pc \in Working
               PROVE  osOwner = p
    BY DEF LeaseCoversWork
  <2>1. p \in Proc
    BY OwnershipAssumption
  <2>2. PICK i \in DOMAIN chain[p] : chain[p][i] = o
    BY DEF ToSet
  <2>3. i = 1
    BY <2>1, <2>2 DEF IInv, QueueInv, Working
  <2>4. chain[p] # <<>> /\ Head(chain[p]) = o
    BY <2>1, <2>2, <2>3 DEF IInv, Shape
  <2>5. p \in held
    BY <2>4 DEF IInv, LeaseInv
  <2> QED
    BY <2>1, <2>4, <2>5 DEF IInv, LeaseInv, CloseInv
<1>2. ClosedHoldsNothing
  BY DEF ClosedHoldsNothing, IInv, LeaseInv
<1> QED
  BY <1>1, <1>2

(* The invariant holds in every behaviour in which nothing is called after   *)
(* close() has begun.                                                        *)
THEOREM LeaseInvariance == ASSUME ~LateCalls PROVE Spec => []IInv
<1>1. IInv /\ [Next]_vars => IInv'
  BY QueueStep, CloseStep, LeaseStep DEF IInv
<1> QED
  BY <1>1, InitIInv, PTL DEF Spec

(* From ensureOwnership to its end every mutating operation of a locking     *)
(* coordinator has the operating system's lock (index.ts:309-310), however   *)
(* many processes, operations, crashes and closes there are.                 *)
THEOREM MutationsAreCovered == ASSUME ~LateCalls PROVE Spec => []LeaseCoversWork
<1>1. IInv => LeaseCoversWork
  BY LeasesCover
<1> QED
  BY <1>1, LeaseInvariance, PTL

(* An orderly close() leaves no lease behind, though operations were running *)
(* when it was called (index.ts:663-676).                                    *)
THEOREM CloseLeavesNothing == ASSUME ~LateCalls PROVE Spec => []ClosedHoldsNothing
<1>1. IInv => ClosedHoldsNothing
  BY LeasesCover
<1> QED
  BY <1>1, LeaseInvariance, PTL

-----------------------------------------------------------------------------
(* An operation has borrowed a lease only once it has started, and only a    *)
(* load or an adoption passes for one.                                       *)
BorrowInv ==
    \A o \in Op :
        /\ op[o].pc \in {"idle", "queued"} => ~op[o].borrowed
        /\ op[o].pc = "appending" => op[o].kind = "append"

LEMMA BorrowStep == Shape /\ QueueInv /\ BorrowInv /\ [Next]_vars => BorrowInv'
<1> SUFFICES ASSUME Shape, QueueInv, BorrowInv, [Next]_vars PROVE BorrowInv'
  OBVIOUS
<1>1. CASE op' = op
  BY <1>1 DEF BorrowInv
<1>2. ASSUME NEW p \in Proc, NEW o \in Op, Call(p, o) PROVE BorrowInv'
  BY <1>2 DEF Call, BorrowInv, Shape, Idle
<1>3. ASSUME NEW p \in Proc, NEW o \in Op, OpStep(p, o) PROVE BorrowInv'
  <2>1. \A x \in Op \ {o} : op'[x] = op[x]
    BY <1>3, OpSteps DEF GoesOn, Leaves, Finish, Shape
  <2>2. CASE GoesOn(p, o)
    <3>1. op'[o].pc = "appending" => op'[o].kind = "append"
      <4>1. op'[o] # Idle
        BY <2>2 DEF GoesOn, Working, Idle
      <4>2. ~Finish(p, o)
        BY <4>1 DEF Finish, Shape
      <4> QED
        <5>1. CASE AppendOpens(p, o)
          BY <5>1 DEF AppendOpens, Shape, Fields
        <5>2. CASE Starts(p, o)
          BY <4>2, <5>2 DEF Starts, Fail, Shape, Fields
        <5>3. CASE RepairReads(p, o)
          BY <5>3 DEF RepairReads, Shape, Fields
        <5>4. CASE LoadRepairs(p, o) \/ RepairFails(p, o) \/ LoadOwnedFails(p, o)
          <6>1. Continue(o, "returning")
            BY <4>2, <5>4 DEF LoadRepairs, RepairFails, LoadOwnedFails, Returns
          <6> QED
            BY <6>1 DEF Continue, Shape, Fields
        <5>5. CASE OwnedRepairs(p, o)
          BY <5>5 DEF OwnedRepairs, Shape, Fields
        <5> QED
          BY <1>3, <4>2, <5>1, <5>2, <5>3, <5>4, <5>5 DEF OpStep, Fail, AppendWrites, AppendFails,
             LoadsOwned, LeaseReturns, Adopts, Releases
    <3>2. op'[o].pc \notin {"idle", "queued"}
      BY <2>2 DEF GoesOn, Working
    <3> QED
      BY <2>1, <3>1, <3>2 DEF BorrowInv
  <2>3. CASE Leaves(p, o)
    <3>1. op'[o] = Idle
      BY <2>3 DEF Leaves, Finish, Shape
    <3> QED
      BY <2>1, <3>1 DEF BorrowInv, Idle
  <2> QED
    BY <1>3, <2>2, <2>3, OpSteps
<1>4. ASSUME NEW p \in Proc, Crash(p) PROVE BorrowInv'
  BY <1>4 DEF Crash, BorrowInv, Idle
<1>5. ASSUME NEW p \in Proc, Produce(p) \/ Dispose(p) \/ CloseWaits(p) \/ CloseReleases(p) \/ CloseClears(p)
      PROVE  op' = op
  BY <1>5 DEF Produce, Dispose, CloseWaits, CloseReleases, CloseClears
<1>6. UNCHANGED vars => op' = op
  BY DEF vars
<1> QED
  BY <1>1, <1>2, <1>3, <1>4, <1>5, <1>6 DEF Next

LEMMA BorrowsComeBack ==
  ASSUME Shape, QueueInv, BorrowInv, [Next]_vars,
         NEW p \in Proc, NEW o \in Op,
         chain[p] # <<>>, Head(chain[p]) = o,
         op[o].kind \in {"load", "loadOwned"}, op[o].borrowed, op'[o] = Idle, p \notin live'
  PROVE  p \notin held'
<1>1. 1 \in DOMAIN chain[p] /\ chain[p][1] = o /\ op[o].pc # "idle"
  BY DEF Shape, QueueInv
<1>2. op'[o] # op[o]
  BY <1>1 DEF Idle
<1>3. ASSUME NEW q \in Proc, NEW x \in Op, Call(q, x) PROVE FALSE
  <2>1. op'[x].pc = "queued" /\ \A y \in Op \ {x} : op'[y] = op[y]
    BY <1>3 DEF Call, Shape, Idle
  <2> QED
    BY <1>2, <2>1 DEF Idle
<1>4. ASSUME NEW q \in Proc, NEW x \in Op, OpStep(q, x) PROVE p \notin held'
  <2>1. x = Head(chain[q]) /\ chain[q] # <<>> /\ \A y \in Op \ {x} : op'[y] = op[y]
    BY <1>4, OpSteps DEF GoesOn, Leaves, Finish, Shape
  <2>2. x = o
    BY <1>2, <2>1
  <2>3. 1 \in DOMAIN chain[q] /\ chain[q][1] = x
    BY <2>1 DEF Shape
  <2>4. q = p
    BY <1>1, <2>2, <2>3 DEF QueueInv
  <2>5. op[o].pc # "queued" /\ op[o].kind \notin {"append", "adopt"} /\ op[o].pc # "appending"
    BY DEF BorrowInv
  <2>6. op'[o].pc = "idle" /\ DOMAIN op[o] = Fields
    BY DEF Idle, Shape
  <2>7. \/ LoadRepairs(p, o) \/ RepairFails(p, o) \/ LoadOwnedFails(p, o) \/ LeaseReturns(p, o)
    <3>1. ~RepairReads(p, o)
      BY <2>6 DEF RepairReads, Shape, Fields
    <3>2. ~OwnedRepairs(p, o)
      BY <2>6 DEF OwnedRepairs, Shape, Fields
    <3>3. ~LoadsOwned(p, o)
      BY DEF LoadsOwned
    <3> QED
      BY <1>4, <2>2, <2>4, <2>5, <3>1, <3>2, <3>3 DEF OpStep, Starts, AppendOpens, AppendWrites,
         AppendFails, Adopts, Releases, Runs
  <2>8. ~Continue(o, "returning")
    BY <2>6 DEF Continue, Shape, Fields
  <2>9. LeaseReturns(p, o)
    BY <2>7, <2>8 DEF LoadRepairs, RepairFails, LoadOwnedFails, Returns
  <2> QED
    BY <2>9 DEF LeaseReturns, ReturnLease, Release
<1>5. ASSUME NEW q \in Proc, Crash(q) PROVE p \notin held'
  <2>1. o \in ToSet(chain[q])
    BY <1>2, <1>5 DEF Crash
  <2>2. q = p
    BY <1>1, <2>1 DEF QueueInv, ToSet
  <2> QED
    BY <1>5, <2>2 DEF Crash, Release
<1>6. ASSUME NEW q \in Proc, Produce(q) \/ Dispose(q) \/ CloseWaits(q) \/ CloseReleases(q) \/ CloseClears(q)
      PROVE  FALSE
  BY <1>2, <1>6 DEF Produce, Dispose, CloseWaits, CloseReleases, CloseClears
<1>7. UNCHANGED vars => FALSE
  BY <1>2 DEF vars
<1> QED
  BY <1>3, <1>4, <1>5, <1>6, <1>7 DEF Next

(* A lease that load() or a failed loadOwned() borrowed is back when they    *)
(* end, whatever else is called, and late calls too (index.ts:565-650).      *)
THEOREM BorrowedLeasesReturn == Spec => BorrowedLeaseComesBack
<1> DEFINE Inv == Shape /\ QueueInv /\ BorrowInv
<1>1. Init => Inv
  BY InitIInv DEF IInv, Init, BorrowInv, Idle
<1>2. Inv /\ [Next]_vars => Inv'
  BY QueueStep, BorrowStep
<1>3. Inv /\ [Next]_vars =>
        [\A p \in Proc, o \in Op :
            /\ chain[p] # <<>> /\ Head(chain[p]) = o
            /\ op[o].kind \in {"load", "loadOwned"} /\ op[o].borrowed
            /\ op'[o] = Idle
            /\ p \notin live'
            => p \notin held']_vars
  BY BorrowsComeBack
<1> QED
  BY <1>1, <1>2, <1>3, PTL DEF Spec, BorrowedLeaseComesBack

-----------------------------------------------------------------------------
(* The file. *)

Reading == {"load", "loadOwned"}
KindAt(p, i) == op[chain[p][i]].kind
HeadOf(p) == op[Head(chain[p])]
Serving(p) == closing[p].pc \in {"open", "waiting"}

FileTypes ==
    /\ file \in Seq(Nat)
    /\ length \in [Proc -> Nat] /\ saved \in [Proc -> Nat]
    /\ \A p \in Proc : saved[p] <= length[p]
    /\ live \subseteq Proc

(* Each entry is the event of its place, or what repair() closed a turn     *)
(* with: a turn is an odd place and the even one behind it.                 *)
Sound(entries) ==
    \A i \in DOMAIN entries : entries[i] = i \/ (entries[i] = Closer /\ i % 2 = 0)

Keeps(entries, n) == n <= Len(entries) /\ \A i \in 1 .. n : entries[i] = i

SavedInv == \A p \in live : Keeps(file, saved[p])

OwnerInv == \A p \in live : Serving(p) => p \in held /\ Len(file) = saved[p]

(* What may be in a chain: a live session is appended to, a dead one is     *)
(* released; a load waits behind an append only of a session it ends with.  *)
CallsFit(p) ==
    \A i \in DOMAIN chain[p] :
        /\ KindAt(p, i) = "append" => p \in live
        /\ KindAt(p, i) = "release" => p \notin live /\ Len(chain[p]) = 1
        /\ KindAt(p, i) \in Reading /\ p \in live => ~InTurn(file)
        /\ \A j \in DOMAIN chain[p] :
              i < j /\ KindAt(p, i) = "append" => KindAt(p, j) \notin Reading

(* What the operation that runs has read, and what it knows of its session. *)
HeadFits(p) ==
    chain[p] # <<>> =>
        /\ HeadOf(p).pc \in {"appending", "repairing", "loading"} => HeadOf(p).text = file
        /\ HeadOf(p).pc = "appending" => HeadOf(p).inode = inode /\ HeadOf(p).kind = "append"
        /\ HeadOf(p).pc = "repairing" => HeadOf(p).kind \in Reading
        /\ HeadOf(p).pc = "loading" => HeadOf(p).kind = "loadOwned" /\ ~InTurn(file)
        /\ HeadOf(p).pc = "returning" => HeadOf(p).borrowed
        /\ HeadOf(p).pc \in Working /\ HeadOf(p).borrowed => p \notin live

ChainsFit == \A p \in Proc : CallsFit(p) /\ HeadFits(p)

FileInv == FileTypes /\ Sound(file) /\ SavedInv /\ OwnerInv /\ ChainsFit

-----------------------------------------------------------------------------
(* An operation under the lease is alone: no other process works, and       *)
(* another live session is one whose process is closing, with nothing to do. *)
LEMMA Alone ==
  ASSUME Locking = Proc, IInv, OwnerInv, NEW p \in Proc, chain[p] # <<>>, HeadOf(p).pc \in Working
  PROVE  /\ p \in held /\ Serving(p)
         /\ \A q \in Proc \ {p} : q \in live => ~Serving(q) /\ chain[q] = <<>>
         /\ \A q \in Proc \ {p} : chain[q] # <<>> => HeadOf(q).pc \notin Working
<1>1. p \in held
  BY DEF IInv, LeaseInv, HeadOf
<1>2. Serving(p)
  BY DEF IInv, CloseInv, Serving
<1>3. osOwner = p
  BY <1>1, <1>2 DEF IInv, LeaseInv, Serving
<1>4. \A q \in Proc \ {p} : q \in live => ~Serving(q)
  BY <1>3 DEF OwnerInv, IInv, LeaseInv, Serving
<1>5. \A q \in Proc : ~Serving(q) => chain[q] = <<>>
  BY DEF IInv, CloseInv, Serving
<1>6. \A q \in Proc \ {p} : chain[q] # <<>> => HeadOf(q).pc \notin Working
  <2> SUFFICES ASSUME NEW q \in Proc \ {p}, chain[q] # <<>>, HeadOf(q).pc \in Working
               PROVE  FALSE
    OBVIOUS
  <2>1. q \in held /\ Serving(q)
    BY <1>5 DEF IInv, LeaseInv, HeadOf
  <2>2. osOwner = q
    BY <2>1 DEF IInv, LeaseInv, Serving
  <2> QED
    BY <1>3, <2>2
<1> QED
  BY <1>1, <1>2, <1>4, <1>5, <1>6

(* What a step of p's operation leaves of the other chains. *)
Untouched(q) ==
    /\ chain'[q] = chain[q]
    /\ \A i \in DOMAIN chain[q] : op'[chain[q][i]] = op[chain[q][i]]

LEMMA OthersUntouched ==
  ASSUME Shape, QueueInv, NEW p \in Proc, NEW o \in Op, GoesOn(p, o) \/ Leaves(p, o),
         NEW q \in Proc \ {p}
  PROVE  Untouched(q)
<1>1. chain'[q] = chain[q]
  BY DEF GoesOn, Leaves, Finish, Shape
<1>2. 1 \in DOMAIN chain[p] /\ chain[p][1] = o
  BY DEF GoesOn, Leaves, Shape
<1>3. \A i \in DOMAIN chain[q] : chain[q][i] \in Op /\ chain[q][i] # o
  BY <1>2 DEF QueueInv, Shape
<1>4. \A x \in Op \ {o} : op'[x] = op[x]
  BY DEF GoesOn, Leaves, Finish, Shape
<1> QED
  BY <1>1, <1>3, <1>4 DEF Untouched

(* A chain that is left alone still fits when its session is as live as it   *)
(* was, and the file is what it was unless the chain has no use for it.      *)
LEMMA UntouchedFits ==
  ASSUME Shape, NEW q \in Proc, CallsFit(q), HeadFits(q), Untouched(q), q \in live <=> q \in live',
         \/ UNCHANGED <<file, inode>>
         \/ /\ q \in live => chain[q] = <<>>
            /\ chain[q] # <<>> => HeadOf(q).pc \notin Working
  PROVE  CallsFit(q)' /\ HeadFits(q)'
<1>1. CallsFit(q)'
  BY DEF CallsFit, KindAt, Untouched, Shape
<1>2. ASSUME chain[q] # <<>> PROVE chain'[q] = chain[q] /\ HeadOf(q)' = HeadOf(q)
  <2>1. 1 \in DOMAIN chain[q] /\ chain[q][1] = Head(chain[q])
    BY <1>2 DEF Shape
  <2> QED
    BY <2>1 DEF HeadOf, Untouched
<1>3. HeadFits(q)'
  <2> SUFFICES ASSUME chain'[q] # <<>> PROVE HeadFits(q)'
    BY DEF HeadFits
  <2>1. chain[q] # <<>> /\ HeadOf(q)' = HeadOf(q)
    BY <1>2 DEF Untouched
  <2> QED
    BY <2>1 DEF HeadFits, Working
<1> QED
  BY <1>1, <1>3

(* The chain behind an operation that ends. *)
LEMMA LeavingFits ==
  ASSUME Shape, QueueInv, NEW p \in Proc, NEW o \in Op, CallsFit(p), Leaves(p, o),
         p \in live => p \in live',
         \/ p \in live' => ~InTurn(file')
         \/ op[o].kind = "append"
         \/ file' = file /\ (p \in live' => p \in live)
  PROVE  CallsFit(p)' /\ HeadFits(p)'
<1>1. 1 \in DOMAIN chain[p] /\ chain[p][1] = o
  BY DEF Leaves, Shape
<1>2. \A i \in DOMAIN chain'[p] :
         /\ i \in Nat /\ i >= 1 /\ i + 1 \in DOMAIN chain[p]
         /\ chain'[p][i] = chain[p][i + 1] /\ chain[p][i + 1] \in Op /\ chain[p][i + 1] # o
  BY <1>1 DEF Leaves, Finish, Shape, QueueInv
<1>3. \A i \in DOMAIN chain'[p] : op'[chain'[p][i]] = op[chain[p][i + 1]]
  BY <1>2 DEF Leaves, Finish, Shape
<1>4. \A i \in DOMAIN chain'[p] : KindAt(p, i)' = KindAt(p, i + 1) /\ Len(chain[p]) # 1
  BY <1>2, <1>3 DEF KindAt, Shape
<1>5. CallsFit(p)'
  <2> SUFFICES ASSUME NEW i \in DOMAIN chain'[p]
               PROVE  /\ KindAt(p, i)' = "append" => p \in live'
                      /\ KindAt(p, i)' # "release"
                      /\ KindAt(p, i)' \in Reading /\ p \in live' => ~InTurn(file')
                      /\ \A j \in DOMAIN chain'[p] :
                            i < j /\ KindAt(p, i)' = "append" => KindAt(p, j)' \notin Reading
    BY DEF CallsFit
  <2>1. KindAt(p, i)' = "append" => p \in live'
    BY <1>2, <1>4 DEF CallsFit
  <2>2. KindAt(p, i)' # "release"
    BY <1>2, <1>4 DEF CallsFit
  <2>3. KindAt(p, i)' \in Reading /\ p \in live' => ~InTurn(file')
    <3>1. op[o].kind = "append" => KindAt(p, i + 1) \notin Reading
      BY <1>1, <1>2 DEF CallsFit, KindAt
    <3> QED
      BY <1>2, <1>4, <3>1 DEF CallsFit
  <2>4. ASSUME NEW j \in DOMAIN chain'[p], i < j, KindAt(p, i)' = "append"
        PROVE  KindAt(p, j)' \notin Reading
    BY <1>2, <1>4, <2>4 DEF CallsFit
  <2> QED
    BY <2>1, <2>2, <2>3, <2>4
<1>6. HeadFits(p)'
  <2> SUFFICES ASSUME chain'[p] # <<>> PROVE HeadFits(p)'
    BY DEF HeadFits
  <2>1. 1 \in DOMAIN chain'[p] /\ Head(chain'[p]) = chain'[p][1]
    BY DEF Leaves, Finish, Shape
  <2>2. HeadOf(p)'.pc = "queued"
    BY <1>2, <1>3, <2>1 DEF HeadOf, QueueInv
  <2> QED
    BY <2>2 DEF HeadFits, Working
<1> QED
  BY <1>5, <1>6

(* The chain of an operation that goes on. *)
LEMMA GoingOnFits ==
  ASSUME Shape, QueueInv, NEW p \in Proc, NEW o \in Op, CallsFit(p), GoesOn(p, o),
         op'[o].kind = op[o].kind, live' = live, p \in live => file' = file
  PROVE  CallsFit(p)'
<1>1. \A i \in DOMAIN chain[p] : chain'[p] = chain[p] /\ KindAt(p, i)' = KindAt(p, i)
  BY DEF GoesOn, KindAt, Shape
<1>2. chain'[p] = chain[p]
  BY DEF GoesOn
<1> QED
  BY <1>1, <1>2 DEF CallsFit

-----------------------------------------------------------------------------
(* A log that ends inside a turn gets the turn's end, and keeps the rest. *)
LEMMA ClosedIsSound ==
  ASSUME NEW entries \in Seq(Nat), Sound(entries)
  PROVE  /\ Closed(entries) \in Seq(Nat) /\ Sound(Closed(entries))
         /\ ~InTurn(Closed(entries))
         /\ Len(Closed(entries)) >= Len(entries) /\ Len(Closed(entries)) % 2 = 0
         /\ \A i \in DOMAIN entries : Closed(entries)[i] = entries[i]
<1>1. CASE InTurn(entries)
  <2>1. entries # <<>> /\ Last(entries) = entries[Len(entries)] /\ Len(entries) \in DOMAIN entries
    BY <1>1 DEF InTurn, Last
  <2>2. Len(entries) % 2 = 1
    BY <1>1, <2>1 DEF InTurn, Sound, Closer
  <2>3. Closed(entries) = Append(entries, Closer) /\ (Len(entries) + 1) % 2 = 0
    BY <1>1, <2>2 DEF Closed
  <2> DEFINE new == Append(entries, Closer)
  <2>4. /\ new \in Seq(Nat) /\ Len(new) = Len(entries) + 1 /\ new[Len(entries) + 1] = Closer
        /\ \A i \in DOMAIN entries : new[i] = entries[i]
        /\ \A i \in DOMAIN new : i \in DOMAIN entries \/ i = Len(entries) + 1
    BY DEF Closer
  <2>5. Last(new) = Closer
    BY <2>4 DEF Last
  <2> HIDE DEF new
  <2>6. Sound(new)
    BY <2>3, <2>4 DEF Sound
  <2>7. ~InTurn(new)
    BY <2>5 DEF InTurn, Closer
  <2> QED
    BY <2>3, <2>4, <2>6, <2>7 DEF new
<1>2. CASE ~InTurn(entries)
  <2>1. Closed(entries) = entries
    BY <1>2 DEF Closed
  <2>2. Len(entries) % 2 = 0
    <3>1. CASE entries = <<>>
      BY <3>1
    <3>2. CASE entries # <<>>
      <4>1. Last(entries) = entries[Len(entries)] /\ Len(entries) \in DOMAIN entries
        BY <3>2 DEF Last
      <4>2. Last(entries) % 2 # 1 /\ Last(entries) \in Nat
        BY <1>2, <3>2, <4>1 DEF InTurn
      <4> QED
        BY <4>1, <4>2 DEF Sound
    <3> QED
      BY <3>1, <3>2
  <2> QED
    BY <1>2, <2>1, <2>2
<1> QED
  BY <1>1, <1>2

LEMMA EmptyPart ==
  ASSUME NEW s \in Seq(Nat), NEW m \in Nat, m > Len(s)
  PROVE  SubSeq(s, m, Len(s)) = <<>>
OBVIOUS

LEMMA JoinedEntries ==
  ASSUME NEW s \in Seq(Nat), NEW t \in Seq(Nat), NEW i \in Nat, Len(s) < i, i <= Len(s) + Len(t)
  PROVE  (s \o t)[i] = t[i - Len(s)]
OBVIOUS

(* An append at the end the file has, from the event behind the saved ones. *)
LEMMA AppendKeeps ==
  ASSUME Locking = Proc, IInv, FileInv, NEW p \in Proc, NEW o \in Op, AppendWrites(p, o)
  PROVE  FileInv'
<1>1. /\ chain[p] # <<>> /\ Head(chain[p]) = o /\ HeadOf(p) = op[o] /\ op[o].pc = "appending"
      /\ Leaves(p, o)
  BY DEF AppendWrites, Runs, Leaves, HeadOf
<1>2. op[o].text = file /\ op[o].inode = inode /\ op[o].kind = "append"
  BY <1>1 DEF FileInv, ChainsFit, HeadFits
<1>3. p \in live
  <2>1. 1 \in DOMAIN chain[p] /\ chain[p][1] = o
    BY <1>1 DEF IInv, Shape
  <2> QED
    BY <1>2, <2>1 DEF FileInv, ChainsFit, CallsFit, KindAt
<1>4. /\ p \in held /\ Serving(p)
      /\ \A q \in Proc \ {p} : q \in live => ~Serving(q) /\ chain[q] = <<>>
      /\ \A q \in Proc \ {p} : chain[q] # <<>> => HeadOf(q).pc \notin Working
  <2>1. HeadOf(p).pc \in Working
    BY <1>1 DEF Working
  <2> QED
    BY <1>1, <2>1, Alone DEF FileInv
<1>5. Len(file) = saved[p] /\ saved[p] \in Nat /\ length[p] \in Nat /\ saved[p] <= length[p]
  BY <1>3, <1>4 DEF FileInv, OwnerInv, FileTypes
<1> DEFINE batch == [i \in 1 .. length[p] - saved[p] |-> saved[p] + i]
<1>6. batch \in Seq(Nat) /\ Len(batch) = length[p] - saved[p]
  BY <1>5
<1>7. file' = file \o batch
  <2>1. file' = SubSeq(file, 1, Len(file)) \o batch \o SubSeq(file, Len(file) + Len(batch) + 1, Len(file))
    BY <1>2 DEF AppendWrites
  <2>2. SubSeq(file, 1, Len(file)) = file
    BY DEF FileInv, FileTypes
  <2>3. SubSeq(file, Len(file) + Len(batch) + 1, Len(file)) = <<>>
    <3>1. /\ Len(file) \in Nat /\ Len(batch) \in Nat
          /\ Len(file) + Len(batch) + 1 \in Nat /\ Len(file) + Len(batch) + 1 > Len(file)
      BY <1>5, <1>6
    <3> QED
      BY <3>1, EmptyPart DEF FileInv, FileTypes
  <2>4. file \o batch \in Seq(Nat)
    BY <1>6 DEF FileInv, FileTypes
  <2> DEFINE both == file \o batch
  <2>5. both \o <<>> = both
    <3> HIDE DEF both
    <3> QED
      BY <2>4 DEF both
  <2>6. file' = both \o <<>>
    BY <2>1, <2>2, <2>3 DEF both
  <2> QED
    BY <2>5, <2>6
<1>8. /\ file' \in Seq(Nat) /\ Len(file') = length[p]
      /\ \A i \in 1 .. saved[p] : file'[i] = file[i]
      /\ \A i \in saved[p] + 1 .. length[p] : file'[i] = i
  <2>1. file \in Seq(Nat) /\ Len(file) = saved[p] /\ DOMAIN batch = 1 .. length[p] - saved[p]
    BY <1>5, <1>6 DEF FileInv, FileTypes
  <2>2. \A i \in 1 .. length[p] - saved[p] : batch[i] = saved[p] + i
    OBVIOUS
  <2> HIDE DEF batch
  <2>3. file' \in Seq(Nat) /\ Len(file') = length[p]
    BY <1>5, <1>6, <1>7, <2>1
  <2>4. \A i \in 1 .. saved[p] : file'[i] = file[i]
    BY <1>5, <1>6, <1>7, <2>1
  <2>5. ASSUME NEW i \in saved[p] + 1 .. length[p] PROVE file'[i] = i
    <3> DEFINE place == i - saved[p]
    <3>1. place \in 1 .. length[p] - saved[p] /\ i = saved[p] + place /\ i > Len(file)
      BY <1>5
    <3>2. (file \o batch)[i] = batch[i - Len(file)]
      <4>1. i \in Nat /\ Len(file) < i /\ i <= Len(file) + Len(batch)
        BY <1>5, <1>6
      <4> HIDE DEF place
      <4> QED
        BY <1>6, <2>1, <4>1, JoinedEntries
    <3> QED
      BY <1>5, <1>7, <2>2, <3>1, <3>2
  <2> QED
    BY <2>3, <2>4, <2>5
<1>9. /\ saved' = [saved EXCEPT ![p] = length[p]]
      /\ UNCHANGED <<inode, osOwner, held, live, length, closing>>
  BY DEF AppendWrites
<1>10. Keeps(file, saved[p])
  BY <1>3 DEF FileInv, SavedInv
<1>11. Keeps(file', length[p])
  <2> HIDE DEF batch
  <2>1. ASSUME NEW i \in 1 .. length[p] PROVE file'[i] = i
    <3>1. i \in 1 .. saved[p] \/ i \in saved[p] + 1 .. length[p]
      BY <1>5
    <3> QED
      BY <1>8, <1>10, <3>1 DEF Keeps
  <2> QED
    BY <1>5, <1>8, <2>1 DEF Keeps
<1>12. Sound(file')
  BY <1>8, <1>11 DEF Sound, Keeps
<1>13. FileTypes'
  BY <1>5, <1>8, <1>9 DEF FileInv, FileTypes
<1>14. SavedInv'
  <2> SUFFICES ASSUME NEW q \in live PROVE Keeps(file', saved'[q])
    BY <1>9 DEF SavedInv
  <2>1. q \in Proc
    BY DEF FileInv, FileTypes
  <2>2. CASE q = p
    BY <1>9, <1>11, <2>2 DEF FileInv, FileTypes
  <2>3. CASE q # p
    <3>1. Keeps(file, saved[q]) /\ saved'[q] = saved[q] /\ saved[q] \in Nat
      BY <1>9, <2>1, <2>3 DEF FileInv, FileTypes, SavedInv
    <3> HIDE DEF batch
    <3>2. saved[q] <= saved[p]
      BY <1>5, <3>1 DEF Keeps
    <3>3. \A i \in 1 .. saved[q] : i \in 1 .. saved[p] /\ file[i] = i
      BY <1>5, <3>1, <3>2 DEF Keeps
    <3> QED
      BY <1>5, <1>8, <3>1, <3>2, <3>3 DEF Keeps
  <2> QED
    BY <2>2, <2>3
<1>15. OwnerInv'
  BY <1>4, <1>8, <1>9 DEF FileInv, FileTypes, OwnerInv, Serving
<1>16. CallsFit(p)' /\ HeadFits(p)'
  BY <1>1, <1>2, <1>9, LeavingFits DEF IInv, FileInv, ChainsFit
<1>17. ASSUME NEW q \in Proc \ {p} PROVE CallsFit(q)' /\ HeadFits(q)'
  <2>1. Untouched(q)
    BY <1>1, OthersUntouched DEF IInv
  <2> QED
    BY <1>4, <1>9, <2>1, UntouchedFits DEF IInv, FileInv, ChainsFit
<1>18. ChainsFit'
  BY <1>16, <1>17 DEF ChainsFit
<1> QED
  BY <1>12, <1>13, <1>14, <1>15, <1>18 DEF FileInv

(* An operation that ends returns the lease it borrowed first. *)
LEMMA ReturnsFit ==
  ASSUME Shape, NEW p \in Proc, NEW o \in Op, chain[p] # <<>>, o = Head(chain[p]), Returns(p, o)
  PROVE  \/ Leaves(p, o)
         \/ GoesOn(p, o) /\ op'[o] = [op[o] EXCEPT !.pc = "returning"] /\ op[o].borrowed
<1>1. CASE op[o].borrowed /\ Continue(o, "returning")
  <2>1. chain' = chain /\ op' = [op EXCEPT ![o].pc = "returning"]
    BY <1>1 DEF Continue
  <2>2. /\ DOMAIN op' = Op /\ op'[o] = [op[o] EXCEPT !.pc = "returning"]
        /\ \A x \in Op \ {o} : op'[x] = op[x]
    BY <2>1 DEF Shape
  <2>3. DOMAIN op'[o] = Fields /\ op'[o].pc = "returning"
    BY <2>2 DEF Shape, Fields
  <2> QED
    BY <1>1, <2>1, <2>2, <2>3 DEF GoesOn, Working
<1>2. CASE Finish(p, o)
  BY <1>2 DEF Leaves
<1> QED
  BY <1>1, <1>2 DEF Returns

(* What a repair adds to a log that ends inside a turn is behind all that is *)
(* saved of it, and it finds no such log of a session live in its own        *)
(* process.                                                                  *)
LEMMA RepairKeeps ==
  ASSUME Locking = Proc, IInv, FileInv, NEW p \in Proc, NEW o \in Op,
         LoadRepairs(p, o) \/ OwnedRepairs(p, o)
  PROVE  FileInv'
<1>1. /\ chain[p] # <<>> /\ o = Head(chain[p]) /\ HeadOf(p) = op[o] /\ op[o].pc = "repairing"
      /\ op[o].kind \in Reading /\ 1 \in DOMAIN chain[p] /\ chain[p][1] = o
  BY DEF LoadRepairs, OwnedRepairs, Runs, HeadOf, IInv, Shape, Reading
<1>2. /\ op[o].text = file
      /\ p \in live => ~InTurn(file) /\ ~op[o].borrowed
  BY <1>1 DEF FileInv, ChainsFit, HeadFits, CallsFit, KindAt, Working
<1>3. /\ Serving(p)
      /\ \A q \in Proc \ {p} : q \in live => ~Serving(q) /\ chain[q] = <<>>
      /\ \A q \in Proc \ {p} : chain[q] # <<>> => HeadOf(q).pc \notin Working
  BY <1>1, Alone DEF FileInv, Working
<1>4. UNCHANGED <<osOwner, held, live, length, saved, closing>>
  BY DEF LoadRepairs, OwnedRepairs
<1>5. file' = Closed(file) /\ (p \in live => UNCHANGED <<file, inode>>)
  BY <1>2 DEF LoadRepairs, OwnedRepairs, Rewrite, Closed
<1>6. /\ file \in Seq(Nat) /\ file' \in Seq(Nat) /\ Sound(file')
      /\ ~InTurn(file')
      /\ Len(file') >= Len(file)
      /\ \A i \in DOMAIN file : file'[i] = file[i]
  BY <1>5, ClosedIsSound DEF FileInv, FileTypes
<1>7. FileTypes'
  BY <1>4, <1>6 DEF FileInv, FileTypes
<1>8. SavedInv'
  <2> SUFFICES ASSUME NEW q \in live PROVE Keeps(file', saved[q])
    BY <1>4 DEF SavedInv
  <2>1. Keeps(file, saved[q]) /\ saved[q] \in Nat
    BY DEF FileInv, FileTypes, SavedInv
  <2>2. saved[q] <= Len(file) /\ Len(file) \in Nat
    BY <1>6, <2>1 DEF Keeps
  <2>3. \A i \in 1 .. saved[q] : i \in DOMAIN file /\ file[i] = i
    BY <1>6, <2>1, <2>2 DEF Keeps
  <2> QED
    BY <1>6, <2>1, <2>2, <2>3 DEF Keeps
<1>9. OwnerInv'
  BY <1>3, <1>4, <1>5 DEF FileInv, FileTypes, OwnerInv, Serving
<1>10. \/ Leaves(p, o)
       \/ GoesOn(p, o) /\ op'[o] = [op[o] EXCEPT !.pc = "returning"] /\ op[o].borrowed
       \/ /\ GoesOn(p, o) /\ op[o].kind = "loadOwned"
          /\ op'[o] = [op[o] EXCEPT !.pc = "loading", !.text = file']
  <2>1. CASE LoadRepairs(p, o)
    BY <1>1, <2>1, ReturnsFit DEF LoadRepairs, IInv
  <2>2. CASE OwnedRepairs(p, o)
    <3>1. chain' = chain /\ op' = [op EXCEPT ![o].pc = "loading", ![o].text = Closed(@)]
      BY <2>2 DEF OwnedRepairs
    <3>2. /\ DOMAIN op' = Op /\ op'[o] = [op[o] EXCEPT !.pc = "loading", !.text = file']
          /\ \A x \in Op \ {o} : op'[x] = op[x]
      BY <1>2, <1>5, <3>1 DEF IInv, Shape, Fields
    <3>3. DOMAIN op'[o] = Fields /\ op'[o].pc = "loading"
      BY <3>2 DEF IInv, Shape, Fields
    <3> QED
      BY <1>1, <2>2, <3>1, <3>2, <3>3 DEF GoesOn, Working, OwnedRepairs
  <2> QED
    BY <2>1, <2>2
<1>11. CallsFit(p)' /\ HeadFits(p)'
  <2>1. CASE Leaves(p, o)
    BY <1>4, <1>6, <2>1, LeavingFits DEF IInv, FileInv, ChainsFit
  <2>2. CASE GoesOn(p, o) /\ op'[o] = [op[o] EXCEPT !.pc = "returning"] /\ op[o].borrowed
    <3>1. op'[o].kind = op[o].kind /\ op'[o].pc = "returning" /\ op'[o].borrowed /\ p \notin live
      BY <1>1, <1>2, <2>2 DEF IInv, Shape, Fields
    <3>2. CallsFit(p)'
      BY <1>4, <2>2, <3>1, GoingOnFits DEF IInv, FileInv, ChainsFit
    <3>3. HeadOf(p)' = op'[o]
      BY <1>1, <2>2 DEF GoesOn, HeadOf
    <3> QED
      BY <1>4, <3>1, <3>2, <3>3 DEF HeadFits
  <2>3. CASE /\ GoesOn(p, o) /\ op[o].kind = "loadOwned"
             /\ op'[o] = [op[o] EXCEPT !.pc = "loading", !.text = file']
    <3>1. /\ op'[o].kind = "loadOwned" /\ op'[o].pc = "loading" /\ op'[o].text = file'
          /\ op'[o].borrowed = op[o].borrowed
      BY <2>3 DEF IInv, Shape, Fields
    <3>2. CallsFit(p)'
      BY <1>4, <1>5, <2>3, <3>1, GoingOnFits DEF IInv, FileInv, ChainsFit
    <3>3. HeadOf(p)' = op'[o]
      BY <1>1, <2>3 DEF GoesOn, HeadOf
    <3> QED
      BY <1>2, <1>4, <1>6, <3>1, <3>2, <3>3 DEF HeadFits
  <2> QED
    BY <1>10, <2>1, <2>2, <2>3
<1>12. ASSUME NEW q \in Proc \ {p} PROVE CallsFit(q)' /\ HeadFits(q)'
  <2>1. Untouched(q)
    BY <1>10, OthersUntouched DEF IInv
  <2> QED
    BY <1>3, <1>4, <2>1, UntouchedFits DEF IInv, FileInv, ChainsFit
<1>13. ChainsFit'
  BY <1>11, <1>12 DEF ChainsFit
<1> QED
  BY <1>6, <1>7, <1>8, <1>9, <1>13 DEF FileInv

(* loadOwned(): the log it opens has its events at their places, those of    *)
(* other live sessions of the same log among them.                           *)
LEMMA LoadOwnedKeeps ==
  ASSUME Locking = Proc, IInv, FileInv, NEW p \in Proc, NEW o \in Op, LoadsOwned(p, o)
  PROVE  FileInv'
<1>1. /\ chain[p] # <<>> /\ o = Head(chain[p]) /\ HeadOf(p) = op[o] /\ op[o].pc = "loading"
      /\ 1 \in DOMAIN chain[p] /\ chain[p][1] = o
  BY DEF LoadsOwned, Runs, HeadOf, IInv, Shape
<1>2. op[o].text = file /\ Closed(file) = file
  BY <1>1 DEF FileInv, ChainsFit, HeadFits, Closed
<1>3. /\ p \in held /\ Serving(p)
      /\ \A q \in Proc \ {p} : q \in live => ~Serving(q) /\ chain[q] = <<>>
      /\ \A q \in Proc \ {p} : chain[q] # <<>> => HeadOf(q).pc \notin Working
  BY <1>1, Alone DEF FileInv, Working
<1> DEFINE entries == file
<1> DEFINE n == Len(entries)
<1>4. /\ file \in Seq(Nat) /\ entries \in Seq(Nat) /\ Sound(entries) /\ n % 2 = 0
      /\ n \in Nat /\ DOMAIN entries = 1 .. n /\ n >= Len(file)
  <2>1. file \in Seq(Nat) /\ Sound(file)
    BY DEF FileInv, FileTypes
  <2>2. Len(Closed(file)) % 2 = 0
    BY <2>1, ClosedIsSound
  <2> QED
    BY <1>2, <2>1, <2>2
<1>5. Positional(entries)
  BY <1>4 DEF Positional, Sound
<1>6. /\ Rewrite(file, [i \in DOMAIN entries |-> i])
      /\ live' = live \cup {p}
      /\ length' = [length EXCEPT ![p] = n] /\ saved' = [saved EXCEPT ![p] = n]
      /\ Leaves(p, o)
      /\ UNCHANGED <<osOwner, held, closing>>
  BY <1>1, <1>2, <1>5 DEF LoadsOwned, Leaves
<1> HIDE DEF entries, n
<1>7. file' = [i \in 1 .. n |-> i]
  BY <1>4, <1>6 DEF Rewrite
<1>8. /\ file' \in Seq(Nat) /\ Len(file') = n /\ DOMAIN file' = 1 .. n
      /\ \A i \in 1 .. n : file'[i] = i
  BY <1>4, <1>7
<1>9. Sound(file')
  BY <1>8 DEF Sound
<1>10. ~InTurn(file')
  <2> SUFFICES ASSUME file' # <<>> PROVE Last(file') % 2 # 1
    BY DEF InTurn
  <2>1. n \in 1 .. n /\ Last(file') = file'[n]
    BY <1>8 DEF Last
  <2> QED
    BY <1>4, <1>8, <2>1
<1>11. FileTypes'
  BY <1>4, <1>6, <1>8 DEF FileInv, FileTypes
<1>12. SavedInv'
  <2> SUFFICES ASSUME NEW q \in live' PROVE Keeps(file', saved'[q])
    BY DEF SavedInv
  <2>1. CASE q = p
    <3>1. saved'[q] = n
      BY <1>6, <2>1 DEF FileInv, FileTypes
    <3> QED
      BY <1>4, <1>8, <3>1 DEF Keeps
  <2>2. CASE q # p
    <3>1. q \in live /\ saved'[q] = saved[q] /\ saved[q] \in Nat
      BY <1>6, <2>2 DEF FileInv, FileTypes
    <3>2. Keeps(file, saved[q])
      BY <3>1 DEF FileInv, SavedInv
    <3>3. saved[q] <= Len(file) /\ Len(file) \in Nat
      BY <1>4, <3>2 DEF Keeps
    <3>4. n \in Nat /\ Len(file) <= n /\ saved[q] \in Nat
      BY <1>4, <3>1
    <3>5. saved[q] <= n /\ \A i \in 1 .. saved[q] : i \in 1 .. n
      BY <3>3, <3>4
    <3> QED
      BY <1>8, <3>1, <3>5 DEF Keeps
  <2> QED
    BY <2>1, <2>2
<1>13. OwnerInv'
  <2> SUFFICES ASSUME NEW q \in live', Serving(q)' PROVE q \in held' /\ Len(file') = saved'[q]
    BY DEF OwnerInv
  <2>1. q = p
    BY <1>3, <1>6 DEF FileInv, FileTypes, Serving
  <2> QED
    BY <1>3, <1>6, <1>8, <2>1 DEF FileInv, FileTypes
<1>14. CallsFit(p)' /\ HeadFits(p)'
  BY <1>6, <1>10, LeavingFits DEF IInv, FileInv, ChainsFit
<1>15. ASSUME NEW q \in Proc \ {p} PROVE CallsFit(q)' /\ HeadFits(q)'
  <2>1. Untouched(q)
    BY <1>6, OthersUntouched DEF IInv
  <2>2. q \in live <=> q \in live'
    BY <1>6
  <2> QED
    BY <1>3, <2>1, <2>2, UntouchedFits DEF IInv, FileInv, ChainsFit
<1>16. ChainsFit'
  BY <1>14, <1>15 DEF ChainsFit
<1> QED
  BY <1>9, <1>11, <1>12, <1>13, <1>16 DEF FileInv

-----------------------------------------------------------------------------
(* The steps of an operation that leave the file and its readers alone. *)
Quiet ==
    /\ UNCHANGED <<file, inode, live, length, saved, closing>>
    /\ \A q \in live : q \in held => q \in held'

LEMMA QuietKeeps ==
  ASSUME IInv, FileInv, NEW p \in Proc, NEW o \in Op, Quiet,
         \/ Leaves(p, o)
         \/ GoesOn(p, o) /\ op'[o].kind = op[o].kind /\ HeadFits(p)'
  PROVE  FileInv'
<1>1. FileTypes' /\ Sound(file)' /\ SavedInv' /\ OwnerInv'
  BY DEF FileInv, FileTypes, Sound, SavedInv, OwnerInv, Serving, Quiet
<1>2. CallsFit(p)' /\ HeadFits(p)'
  <2>1. CASE Leaves(p, o)
    BY <2>1, LeavingFits DEF IInv, FileInv, ChainsFit, Quiet
  <2>2. CASE GoesOn(p, o) /\ op'[o].kind = op[o].kind /\ HeadFits(p)'
    BY <2>2, GoingOnFits DEF IInv, FileInv, ChainsFit, Quiet
  <2> QED
    BY <2>1, <2>2
<1>3. ASSUME NEW q \in Proc \ {p} PROVE CallsFit(q)' /\ HeadFits(q)'
  <2>1. Untouched(q)
    BY OthersUntouched DEF IInv
  <2> QED
    BY <2>1, UntouchedFits DEF IInv, FileInv, ChainsFit, Quiet
<1>4. ChainsFit'
  BY <1>2, <1>3 DEF ChainsFit
<1> QED
  BY <1>1, <1>4 DEF FileInv

LEMMA OperationKeeps ==
  ASSUME Locking = Proc, IInv, FileInv, NEW p \in Proc, NEW o \in Op, OpStep(p, o)
  PROVE  FileInv'
<1>1. /\ chain[p] # <<>> /\ o = Head(chain[p]) /\ HeadOf(p) = op[o]
      /\ 1 \in DOMAIN chain[p] /\ chain[p][1] = o
  BY OpSteps DEF IInv, Shape, GoesOn, Leaves, HeadOf
<1>2. Serving(p)
  BY <1>1 DEF IInv, CloseInv, Serving
<1>3. DOMAIN op[o] = Fields /\ DOMAIN op = Op
  BY DEF IInv, Shape
<1>4. CASE Starts(p, o)
  <2>1. CASE Conflict(p) /\ Fail(p, o)
    <3>1. Quiet /\ Leaves(p, o)
      BY <1>1, <1>4, <2>1 DEF Starts, Conflict, Fail, Leaves, Quiet
    <3> QED
      BY <3>1, QuietKeeps
  <2>2. CASE /\ Ensured(p)
             /\ op' = [op EXCEPT ![o].pc = "owning", ![o].borrowed = ~Owns(p)]
             /\ UNCHANGED chain
    <3>1. Quiet
      BY <1>4, <2>2 DEF Starts, Ensured, Acquire, Quiet
    <3>2. /\ DOMAIN op' = Op /\ DOMAIN op'[o] = Fields
          /\ op'[o].kind = op[o].kind /\ op'[o].pc = "owning" /\ op'[o].borrowed = ~Owns(p)
          /\ \A x \in Op \ {o} : op'[x] = op[x]
      BY <1>3, <2>2 DEF Fields
    <3>3. GoesOn(p, o)
      BY <1>1, <2>2, <3>2 DEF GoesOn, Working
    <3>4. p \in live => Owns(p)
      BY <1>2 DEF FileInv, OwnerInv, Owns
    <3>5. HeadOf(p)' = op'[o]
      BY <1>1, <2>2 DEF HeadOf
    <3>6. HeadFits(p)'
      BY <3>1, <3>2, <3>4, <3>5 DEF HeadFits, Quiet
    <3> QED
      BY <3>1, <3>2, <3>3, <3>6, QuietKeeps
  <2> QED
    BY <1>4, <2>1, <2>2 DEF Starts
<1>5. CASE AppendOpens(p, o) \/ RepairReads(p, o)
  <2>1. Quiet /\ chain' = chain
    BY <1>5 DEF AppendOpens, RepairReads, Quiet
  <2>2. /\ DOMAIN op' = Op /\ DOMAIN op'[o] = Fields
        /\ op'[o].kind = op[o].kind /\ op'[o].borrowed = op[o].borrowed
        /\ op'[o].text = file /\ op[o].pc = "owning"
        /\ \/ op'[o].pc = "appending" /\ op'[o].inode = inode /\ op[o].kind = "append"
           \/ op'[o].pc = "repairing" /\ op[o].kind \in Reading
        /\ \A x \in Op \ {o} : op'[x] = op[x]
    <3>1. CASE AppendOpens(p, o)
      BY <1>3, <3>1 DEF AppendOpens, Runs, Fields
    <3>2. CASE RepairReads(p, o)
      BY <1>3, <3>2 DEF RepairReads, Runs, Fields, Reading
    <3> QED
      BY <1>5, <3>1, <3>2
  <2>3. GoesOn(p, o)
    BY <1>1, <2>1, <2>2 DEF GoesOn, Working
  <2>4. HeadOf(p)' = op'[o]
    BY <1>1, <2>1 DEF HeadOf
  <2>5. op[o].borrowed => p \notin live
    BY <1>1, <2>2 DEF FileInv, ChainsFit, HeadFits, Working
  <2>6. HeadFits(p)'
    BY <2>1, <2>2, <2>4, <2>5 DEF HeadFits, Quiet
  <2> QED
    BY <2>1, <2>2, <2>3, <2>6, QuietKeeps
<1>6. CASE AppendFails(p, o) \/ Adopts(p, o)
  <2>1. Quiet /\ Leaves(p, o)
    BY <1>1, <1>6 DEF AppendFails, Adopts, Fail, Leaves, Quiet
  <2> QED
    BY <2>1, QuietKeeps
<1>7. CASE LeaseReturns(p, o) \/ Releases(p, o)
  <2>1. p \notin live
    <3>1. CASE LeaseReturns(p, o)
      BY <1>1, <3>1 DEF LeaseReturns, Runs, FileInv, ChainsFit, HeadFits, Working
    <3>2. CASE Releases(p, o)
      BY <1>1, <3>2 DEF Releases, Runs, FileInv, ChainsFit, CallsFit, KindAt
    <3> QED
      BY <1>7, <3>1, <3>2
  <2>2. Quiet /\ Leaves(p, o)
    BY <1>1, <1>7, <2>1 DEF LeaseReturns, ReturnLease, Releases, Release, Leaves, Quiet
  <2> QED
    BY <2>2, QuietKeeps
<1>8. CASE AppendWrites(p, o)
  BY <1>8, AppendKeeps
<1>9. CASE LoadRepairs(p, o) \/ OwnedRepairs(p, o)
  BY <1>9, RepairKeeps
<1>10. CASE LoadsOwned(p, o)
  BY <1>10, LoadOwnedKeeps
<1>11. CASE RepairFails(p, o) \/ LoadOwnedFails(p, o)
  <2>1. Quiet /\ Returns(p, o) /\ op[o].pc \in Working
    BY <1>11 DEF RepairFails, LoadOwnedFails, Runs, Working, Quiet
  <2>2. CASE Leaves(p, o)
    BY <2>1, <2>2, QuietKeeps
  <2>3. CASE GoesOn(p, o) /\ op'[o] = [op[o] EXCEPT !.pc = "returning"] /\ op[o].borrowed
    <3>1. op'[o].kind = op[o].kind /\ op'[o].pc = "returning" /\ op'[o].borrowed
      BY <1>3, <2>3 DEF Fields
    <3>2. p \notin live /\ HeadOf(p)' = op'[o]
      BY <1>1, <2>1, <2>3 DEF FileInv, ChainsFit, HeadFits, GoesOn, HeadOf
    <3>3. HeadFits(p)'
      BY <2>1, <3>1, <3>2 DEF HeadFits, Quiet
    <3> QED
      BY <2>1, <2>3, <3>1, <3>3, QuietKeeps
  <2> QED
    BY <1>1, <2>1, <2>2, <2>3, ReturnsFit DEF IInv
<1> QED
  BY <1>4, <1>5, <1>6, <1>7, <1>8, <1>9, <1>10, <1>11 DEF OpStep

(* A call joins its chain: an append that of a live session, a load or a     *)
(* release that of a session which is not.                                   *)
LEMMA CallKeeps ==
  ASSUME ~LiveLoads, IInv, FileInv, NEW p \in Proc, NEW o \in Op, Call(p, o)
  PROVE  FileInv'
<1>1. /\ UNCHANGED <<file, inode, held, live, length, saved>>
      /\ \A q \in Proc : Serving(q)' = Serving(q)
  BY DEF Call, Serving, IInv, CloseInv
<1>2. FileTypes' /\ Sound(file)' /\ SavedInv' /\ OwnerInv'
  BY <1>1 DEF FileInv, FileTypes, Sound, SavedInv, OwnerInv
<1>3. Joins(p, o)
  BY DEF Call, Chained, Joins, IInv, Shape, Idle, Fields
<1>4. /\ op'[o].kind = "append" => p \in live
      /\ op'[o].kind \in Reading => p \notin live
      /\ op'[o].kind = "release" => p \notin live /\ chain[p] = <<>>
      /\ \A i \in DOMAIN chain[p] : KindAt(p, i) # "release"
  <2>1. PICK kind \in Calls[p] :
          /\ kind = "append" => p \in live
          /\ kind = "load" => p \notin live
          /\ kind = "loadOwned" => p \notin live
          /\ kind = "release" => p \notin live /\ chain[p] = <<>>
          /\ op' = [op EXCEPT ![o] = [Idle EXCEPT !.kind = kind, !.pc = "queued"]]
    BY DEF Call
  <2>2. op'[o].kind = kind
    BY <2>1 DEF IInv, Shape, Idle
  <2>3. \A i \in DOMAIN chain[p] : KindAt(p, i) # "release"
    BY DEF Call, ToSet, KindAt
  <2> QED
    BY <2>1, <2>2, <2>3 DEF Reading
<1>5. /\ Len(chain[p]) \in Nat /\ DOMAIN chain[p] = 1 .. Len(chain[p])
      /\ Len(chain'[p]) = Len(chain[p]) + 1 /\ DOMAIN chain'[p] = 1 .. Len(chain[p]) + 1
      /\ chain'[p][Len(chain[p]) + 1] = o
      /\ \A i \in DOMAIN chain[p] : chain'[p][i] = chain[p][i]
      /\ \A q \in Proc \ {p} : chain'[q] = chain[q]
  BY <1>3 DEF Joins, IInv, Shape
<1>6. \A q \in Proc : \A i \in DOMAIN chain[q] : op'[chain[q][i]] = op[chain[q][i]]
  BY <1>3 DEF Joins, IInv, Shape, QueueInv
<1>7. CallsFit(p)'
  <2>1. \A i \in DOMAIN chain[p] : KindAt(p, i)' = KindAt(p, i)
    BY <1>5, <1>6 DEF KindAt
  <2>2. \A i : i = Len(chain[p]) + 1 => KindAt(p, i)' = op'[o].kind
    BY <1>5 DEF KindAt
  <2>3. chain[p] = <<>> => Len(chain[p]) = 0
    OBVIOUS
  <2> SUFFICES ASSUME NEW i \in DOMAIN chain'[p]
               PROVE  /\ KindAt(p, i)' = "append" => p \in live'
                      /\ KindAt(p, i)' = "release" => p \notin live' /\ Len(chain'[p]) = 1
                      /\ KindAt(p, i)' \in Reading /\ p \in live' => ~InTurn(file')
                      /\ \A j \in DOMAIN chain'[p] :
                            i < j /\ KindAt(p, i)' = "append" => KindAt(p, j)' \notin Reading
    BY DEF CallsFit
  <2>4. CASE i = Len(chain[p]) + 1
    BY <1>1, <1>4, <1>5, <2>2, <2>3, <2>4
  <2>5. CASE i \in DOMAIN chain[p]
    <3>1. /\ KindAt(p, i)' = "append" => p \in live'
          /\ KindAt(p, i)' # "release"
          /\ KindAt(p, i)' \in Reading /\ p \in live' => ~InTurn(file')
      BY <1>1, <1>4, <2>1, <2>5 DEF FileInv, ChainsFit, CallsFit
    <3>2. ASSUME NEW j \in DOMAIN chain'[p], i < j, KindAt(p, i)' = "append"
          PROVE  KindAt(p, j)' \notin Reading
      <4>1. CASE j \in DOMAIN chain[p]
        BY <2>1, <2>5, <3>2, <4>1 DEF FileInv, ChainsFit, CallsFit
      <4>2. CASE j = Len(chain[p]) + 1
        BY <1>1, <1>4, <2>2, <3>1, <3>2, <4>2
      <4> QED
        BY <1>5, <4>1, <4>2
    <3> QED
      BY <3>1, <3>2
  <2> QED
    BY <1>5, <2>4, <2>5
<1>8. HeadFits(p)'
  <2>1. CASE chain[p] = <<>>
    <3>1. HeadOf(p)' = op'[o]
      BY <1>3, <2>1 DEF Joins, HeadOf, IInv, Shape
    <3>2. op'[o].pc = "queued"
      BY <1>3 DEF Joins
    <3> QED
      BY <3>1, <3>2 DEF HeadFits, Working
  <2>2. CASE chain[p] # <<>>
    <3>1. /\ 1 \in DOMAIN chain[p] /\ Head(chain[p]) = chain[p][1]
          /\ Head(chain'[p]) = Head(chain[p])
      BY <1>3, <2>2 DEF Joins, IInv, Shape
    <3>2. HeadOf(p)' = HeadOf(p)
      BY <1>6, <3>1 DEF HeadOf
    <3> QED
      BY <1>1, <2>2, <3>2 DEF FileInv, ChainsFit, HeadFits
  <2> QED
    BY <2>1, <2>2
<1>9. ASSUME NEW q \in Proc \ {p} PROVE CallsFit(q)' /\ HeadFits(q)'
  <2>1. Untouched(q)
    BY <1>5, <1>6 DEF Untouched
  <2> QED
    BY <1>1, <2>1, UntouchedFits DEF IInv, FileInv, ChainsFit
<1>10. ChainsFit'
  BY <1>7, <1>9, <1>8 DEF ChainsFit
<1> QED
  BY <1>2, <1>10 DEF FileInv

(* What ends a session ends its appends with it: a disposed session has      *)
(* nothing in its chain, and neither has a process that died.                *)
LEMMA DisposeKeeps ==
  ASSUME IInv, FileInv, NEW p \in Proc, Dispose(p)
  PROVE  FileInv'
<1>1. /\ live' = live \ {p} /\ chain[p] = <<>>
      /\ UNCHANGED <<file, inode, held, length, saved, op, chain, closing>>
  BY DEF Dispose
<1>2. FileTypes' /\ Sound(file)' /\ SavedInv' /\ OwnerInv'
  BY <1>1 DEF FileInv, FileTypes, Sound, SavedInv, OwnerInv, Serving
<1>3. ASSUME NEW q \in Proc PROVE CallsFit(q)' /\ HeadFits(q)'
  <2>1. CASE q = p
    BY <1>1, <2>1 DEF CallsFit, HeadFits
  <2>2. CASE q # p
    <3>1. Untouched(q) /\ (q \in live <=> q \in live')
      BY <1>1, <2>2 DEF Untouched
    <3> QED
      BY <1>1, <3>1, UntouchedFits DEF IInv, FileInv, ChainsFit
  <2> QED
    BY <2>1, <2>2
<1>4. ChainsFit'
  BY <1>3 DEF ChainsFit
<1> QED
  BY <1>2, <1>4 DEF FileInv

LEMMA CrashKeeps ==
  ASSUME IInv, FileInv, NEW p \in Proc, Crash(p)
  PROVE  FileInv'
<1>1. /\ live' = live \ {p} /\ held' = held \ {p}
      /\ chain' = [chain EXCEPT ![p] = <<>>]
      /\ UNCHANGED <<file, inode, length, saved>>
      /\ \A q \in Proc \ {p} : closing'[q] = closing[q]
  BY DEF Crash, Release, IInv, CloseInv
<1>2. FileTypes' /\ Sound(file)' /\ SavedInv' /\ OwnerInv'
  BY <1>1 DEF FileInv, FileTypes, Sound, SavedInv, OwnerInv, Serving
<1>3. ASSUME NEW q \in Proc PROVE CallsFit(q)' /\ HeadFits(q)'
  <2>1. CASE q = p
    <3>1. chain'[p] = <<>>
      BY <1>1 DEF IInv, Shape
    <3> QED
      BY <2>1, <3>1 DEF CallsFit, HeadFits
  <2>2. CASE q # p
    <3>1. chain'[q] = chain[q] /\ (q \in live <=> q \in live')
      BY <1>1, <2>2 DEF IInv, Shape
    <3>2. \A i \in DOMAIN chain[q] : chain[q][i] \in Op /\ chain[q][i] \notin ToSet(chain[p])
      BY <2>2 DEF IInv, Shape, QueueInv, ToSet
    <3>3. Untouched(q)
      BY <3>1, <3>2 DEF Crash, Untouched
    <3> QED
      BY <1>1, <3>1, <3>3, UntouchedFits DEF IInv, FileInv, ChainsFit
  <2> QED
    BY <2>1, <2>2
<1>4. ChainsFit'
  BY <1>3 DEF ChainsFit
<1> QED
  BY <1>2, <1>4 DEF FileInv

(* close() takes the lease from a session only when it serves it no more.    *)
LEMMA CloseKeeps ==
  ASSUME IInv, FileInv, NEW p \in Proc, CloseWaits(p) \/ CloseReleases(p) \/ CloseClears(p)
  PROVE  FileInv'
<1>1. /\ UNCHANGED <<file, inode, live, length, saved, op, chain>>
      /\ \A q \in Proc : Serving(q)' => Serving(q) /\ (q \in held => q \in held')
  BY DEF CloseWaits, CloseReleases, CloseClears, Serving, IInv, CloseInv
<1>2. FileTypes' /\ Sound(file)' /\ SavedInv' /\ OwnerInv'
  BY <1>1 DEF FileInv, FileTypes, Sound, SavedInv, OwnerInv
<1>3. ChainsFit'
  BY <1>1 DEF FileInv, ChainsFit, CallsFit, HeadFits, KindAt, HeadOf
<1> QED
  BY <1>2, <1>3 DEF FileInv

LEMMA ProduceKeeps ==
  ASSUME FileInv, NEW p \in Proc, Produce(p)
  PROVE  FileInv'
<1>1. /\ UNCHANGED <<file, inode, held, live, saved, op, chain, closing>>
      /\ length' = [length EXCEPT ![p] = @ + 1]
  BY DEF Produce
<1>2. FileTypes'
  BY <1>1 DEF FileInv, FileTypes
<1>3. Sound(file)' /\ SavedInv' /\ OwnerInv' /\ ChainsFit'
  BY <1>1 DEF FileInv, Sound, SavedInv, OwnerInv, Serving, ChainsFit, CallsFit, HeadFits, KindAt, HeadOf
<1> QED
  BY <1>2, <1>3 DEF FileInv

LEMMA FileStep ==
  ASSUME Locking = Proc, ~LiveLoads
  PROVE  IInv /\ FileInv /\ [Next]_vars => FileInv'
<1> SUFFICES ASSUME IInv, FileInv, [Next]_vars PROVE FileInv'
  OBVIOUS
<1>1. CASE UNCHANGED vars
  BY <1>1 DEF vars, FileInv, FileTypes, Sound, SavedInv, OwnerInv, Serving, ChainsFit,
              CallsFit, HeadFits, KindAt, HeadOf
<1> QED
  BY <1>1, CallKeeps, OperationKeeps, DisposeKeeps, CrashKeeps, CloseKeeps, ProduceKeeps DEF Next

LEMMA InitFileInv == Init => FileInv
<1> SUFFICES ASSUME Init PROVE FileInv
  OBVIOUS
<1>1. FileTypes /\ Sound(file)
  BY DEF Init, FileTypes, Sound
<1>2. SavedInv /\ OwnerInv
  BY DEF Init, SavedInv, OwnerInv
<1>3. ChainsFit
  BY DEF Init, ChainsFit, CallsFit, HeadFits
<1> QED
  BY <1>1, <1>2, <1>3 DEF FileInv

(* The invariant holds when every process locks, nothing is called after     *)
(* close() has begun, and load() is not called for a session live in its own *)
(* process; LogStaysLoadable of MCOwnershipLiveLoad is what the last one is  *)
(* needed for.                                                               *)
THEOREM FileInvariance ==
  ASSUME Locking = Proc, ~LateCalls, ~LiveLoads
  PROVE  Spec => [](IInv /\ FileInv)
<1>1. IInv /\ FileInv /\ [Next]_vars => (IInv /\ FileInv)'
  BY FileStep, QueueStep, CloseStep, LeaseStep DEF IInv
<1> QED
  BY <1>1, InitIInv, InitFileInv, PTL DEF Spec

(* What an append acknowledged stays at its place in the file for as long as *)
(* the session is live (appendUnlocked's seqs, index.ts:309-310), whatever   *)
(* other processes load, append, close or die.                               *)
THEOREM SavedStays ==
  ASSUME Locking = Proc, ~LateCalls, ~LiveLoads
  PROVE  Spec => []SavedStaysSaved
<1>1. FileInv => SavedStaysSaved
  BY DEF FileInv, FileTypes, SavedInv, Keeps, SavedStaysSaved
<1> QED
  BY <1>1, FileInvariance, PTL

(* The log of a live session can be opened again by loadOwned() after a      *)
(* restart: no repair by another process puts an entry out of its place.     *)
THEOREM LogsStayLoadable ==
  ASSUME Locking = Proc, ~LateCalls, ~LiveLoads
  PROVE  Spec => []LogStaysLoadable
<1>1. FileInv => LogStaysLoadable
  BY DEF FileInv, Sound, LogStaysLoadable, Positional
<1> QED
  BY <1>1, FileInvariance, PTL

=============================================================================
