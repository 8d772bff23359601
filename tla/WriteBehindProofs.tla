-------------------------- MODULE WriteBehindProofs --------------------------
(***************************************************************************)
(* Proofs about WriteBehind for every number of events.                    *)
(*                                                                         *)
(* The inductive invariant has two halves.  ControlInv is about the flags  *)
(* only: which combinations of active write, barrier, queued continuation, *)
(* timer and pause exist.  QueueInv is about the events: it needs the      *)
(* control half to know that no write starts while another one is active.  *)
(***************************************************************************)
EXTENDS WriteBehind, SequenceTheorems, TLAPS

(* Which promise chains can be under way at the same time. *)
ChainInv ==
    /\ continuation => active \in {"none", "writing"}
    /\ continuation /\ active = "writing" => barrier = "draining"
    /\ continuation => barrier # "rejecting"
    /\ barrier = "none" /\ active # "none" => background
    /\ barrier = "draining" /\ active = "failed" => paused
    /\ barrier = "draining" /\ active # "none" => ~background
    /\ barrier = "rejecting" => paused /\ active = "none"
    /\ active = "failed" => ~deadlineExpired

ControlInv == ChainInv /\ AutomaticWritesHeld /\ NoLostWakeup

QueueInv ==
    /\ NothingLostOrReordered
    /\ active # "writing" => batch = <<>>
    /\ asked <= Len(enqueued)
    /\ barrier # "none" => promised <= asked
    /\ FlushedIsDurable

IInv == TypeOK /\ ControlInv /\ QueueInv

-----------------------------------------------------------------------------
(* TypeOK, sorted by what the provers need together. *)
QueueTypes ==
    /\ enqueued \in Seq(Nat)
    /\ pending \in Seq(Nat)
    /\ batch \in Seq(Nat)
    /\ durable \in Seq(Nat)

FlagTypes ==
    /\ timer \in BOOLEAN
    /\ active \in {"none", "writing", "wrote", "failed"}
    /\ background \in BOOLEAN
    /\ continuation \in BOOLEAN
    /\ barrier \in {"none", "overlapping", "draining", "rejecting"}
    /\ deadlineExpired \in BOOLEAN
    /\ paused \in BOOLEAN
    /\ close \in {"open", "flushing", "flushed", "closed"}
    /\ cancelled \in BOOLEAN

CountTypes ==
    /\ asked \in Nat
    /\ promised \in Nat

LEMMA TypesSplit == TypeOK <=> QueueTypes /\ FlagTypes /\ CountTypes
  BY DEF TypeOK, QueueTypes, FlagTypes, CountTypes

(* The empty queue is a queue. *)
LEMMA NoEvents == <<>> \in Seq(Nat) /\ Len(<<>>) = 0 /\ <<>> \o <<>> \o <<>> = <<>>
  OBVIOUS

(* The initial state satisfies the inductive invariant. *)
LEMMA InitIInv == Init => IInv
<1> SUFFICES ASSUME Init PROVE IInv
  OBVIOUS
<1>1. TypeOK
  BY NoEvents, TypesSplit DEF Init, QueueTypes, FlagTypes, CountTypes
<1>2. ControlInv
  BY DEF Init, ControlInv, ChainInv, AutomaticWritesHeld, NoLostWakeup
<1>3. QueueInv
  BY NoEvents DEF Init, QueueInv, NothingLostOrReordered, FlushedIsDurable
<1> QED
  BY <1>1, <1>2, <1>3 DEF IInv

(* Every step keeps the types: fields hold what their declarations say. *)
LEMMA QueueTypeStep == QueueTypes /\ [Next]_vars => QueueTypes'
<1> SUFFICES ASSUME QueueTypes, [Next]_vars PROVE QueueTypes'
  OBVIOUS
<1> USE DEF QueueTypes
<1>1. CASE Enqueue
  BY <1>1 DEF TimerIsHeld, Enqueue, control
<1>2. CASE Flush
  BY <1>2, NoEvents DEF Flush, StartBarrier, JoinBarrier, StartWrite, NoWrite, control, queue
<1>3. CASE OnDeadline
  BY <1>3, NoEvents DEF MissDeadline, OnDeadline, StartWrite, NoWrite
<1>4. CASE WriteSucceeds
  BY <1>4 DEF WriteSucceeds, control
<1>5. CASE WriteFails
  BY <1>5 DEF Retained, WriteFails
<1>6. CASE WriteSettles
  BY <1>6 DEF WriteSettles, control, queue
<1>7. CASE ContinueAutomatic
  BY <1>7, NoEvents DEF ContinueAutomatic, StartWrite, NoWrite
<1>8. CASE DrainContinues
  BY <1>8, NoEvents DEF MoreToDrain, DrainContinues, StartWrite, NoWrite, ResolveBarrier, SettleBarrier
<1>9. CASE DrainRejects
  BY <1>9 DEF DrainRejects, SettleBarrier, control, queue
<1>10. CASE CloseBegins
  BY <1>10, NoEvents DEF CloseBegins, StartBarrier, JoinBarrier, StartWrite, NoWrite, control, queue
<1>11. CASE CloseCancelsWait
  BY <1>11 DEF CloseCancelsWait, queue
<1>12. CASE UNCHANGED vars
  BY <1>12 DEF vars, queue, control
<1> QED
  BY <1>1, <1>2, <1>3, <1>4, <1>5, <1>6, <1>7, <1>8, <1>9, <1>10, <1>11, <1>12
     DEF Next, Continuation

LEMMA FlagTypeStep == FlagTypes /\ [Next]_vars => FlagTypes'
<1> SUFFICES ASSUME FlagTypes, [Next]_vars PROVE FlagTypes'
  OBVIOUS
<1> USE DEF FlagTypes
<1>1. CASE Enqueue
  BY <1>1 DEF TimerIsHeld, Enqueue, control
<1>2. CASE Flush
  BY <1>2 DEF Flush, StartBarrier, JoinBarrier, StartWrite, NoWrite, control, queue
<1>3. CASE OnDeadline
  BY <1>3 DEF MissDeadline, OnDeadline, StartWrite, NoWrite
<1>4. CASE WriteSucceeds
  BY <1>4 DEF WriteSucceeds, control
<1>5. CASE WriteFails
  BY <1>5 DEF Retained, WriteFails
<1>6. CASE WriteSettles
  BY <1>6 DEF WriteSettles, control, queue
<1>7. CASE ContinueAutomatic
  BY <1>7 DEF ContinueAutomatic, StartWrite, NoWrite
<1>8. CASE DrainContinues
  BY <1>8 DEF MoreToDrain, DrainContinues, StartWrite, NoWrite, ResolveBarrier, SettleBarrier
<1>9. CASE DrainRejects
  BY <1>9 DEF DrainRejects, SettleBarrier, control, queue
<1>10. CASE CloseBegins
  BY <1>10 DEF CloseBegins, StartBarrier, JoinBarrier, StartWrite, NoWrite, control, queue
<1>11. CASE CloseCancelsWait
  BY <1>11 DEF CloseCancelsWait, queue
<1>12. CASE UNCHANGED vars
  BY <1>12 DEF vars, queue, control
<1> QED
  BY <1>1, <1>2, <1>3, <1>4, <1>5, <1>6, <1>7, <1>8, <1>9, <1>10, <1>11, <1>12
     DEF Next, Continuation

LEMMA CountTypeStep == QueueTypes /\ CountTypes /\ [Next]_vars => CountTypes'
<1> SUFFICES ASSUME QueueTypes, CountTypes, [Next]_vars PROVE CountTypes'
  OBVIOUS
<1> USE DEF QueueTypes, CountTypes
<1>1. CASE Enqueue
  BY <1>1 DEF TimerIsHeld, Enqueue, control
<1>2. CASE Flush
  BY <1>2 DEF Flush, StartBarrier, JoinBarrier, StartWrite, NoWrite, control, queue
<1>3. CASE OnDeadline
  BY <1>3 DEF MissDeadline, OnDeadline, StartWrite, NoWrite
<1>4. CASE WriteSucceeds
  BY <1>4 DEF WriteSucceeds, control
<1>5. CASE WriteFails
  BY <1>5 DEF Retained, WriteFails
<1>6. CASE WriteSettles
  BY <1>6 DEF WriteSettles, control, queue
<1>7. CASE ContinueAutomatic
  BY <1>7 DEF ContinueAutomatic, StartWrite, NoWrite
<1>8. CASE DrainContinues
  BY <1>8 DEF MoreToDrain, DrainContinues, StartWrite, NoWrite, ResolveBarrier, SettleBarrier
<1>9. CASE DrainRejects
  BY <1>9 DEF DrainRejects, SettleBarrier, control, queue
<1>10. CASE CloseBegins
  BY <1>10 DEF CloseBegins, StartBarrier, JoinBarrier, StartWrite, NoWrite, control, queue
<1>11. CASE CloseCancelsWait
  BY <1>11 DEF CloseCancelsWait, queue
<1>12. CASE UNCHANGED vars
  BY <1>12 DEF vars, queue, control
<1> QED
  BY <1>1, <1>2, <1>3, <1>4, <1>5, <1>6, <1>7, <1>8, <1>9, <1>10, <1>11, <1>12
     DEF Next, Continuation

LEMMA TypeStep == TypeOK /\ [Next]_vars => TypeOK'
<1> SUFFICES ASSUME TypeOK, [Next]_vars PROVE TypeOK'
  OBVIOUS
<1>1. QueueTypes /\ FlagTypes /\ CountTypes
  BY TypesSplit
<1>2. QueueTypes' /\ FlagTypes' /\ CountTypes'
  BY <1>1, QueueTypeStep, FlagTypeStep, CountTypeStep
<1>3. (TypeOK <=> QueueTypes /\ FlagTypes /\ CountTypes)'
  BY TypesSplit, PTL
<1> QED
  BY <1>2, <1>3

(* Every step keeps the control half: the flags alone decide that retained    *)
(* events are never forgotten (enqueue, flush, the deadline and the failure   *)
(* path of write-behind.ts each hand the duty to write to someone else).      *)
LEMMA ControlStep == TypeOK /\ ControlInv /\ [Next]_vars => ControlInv'
<1> SUFFICES ASSUME TypeOK, ControlInv, [Next]_vars PROVE ControlInv'
  OBVIOUS
<1> USE DEF TypeOK, ControlInv, ChainInv, AutomaticWritesHeld, NoLostWakeup, SomethingWillWrite
<1>1. CASE Enqueue
  BY <1>1 DEF TimerIsHeld, Enqueue, control
<1>2. CASE Flush
  BY <1>2 DEF Flush, StartBarrier, JoinBarrier, StartWrite, NoWrite, control, queue
<1>3. CASE OnDeadline
  BY <1>3 DEF MissDeadline, OnDeadline, StartWrite, NoWrite, MicrotaskQueued
<1>4. CASE WriteSucceeds
  BY <1>4 DEF WriteSucceeds, control
<1>5. CASE WriteFails
  BY <1>5 DEF Retained, WriteFails
<1>6. CASE WriteSettles
  BY <1>6 DEF WriteSettles, control, queue
<1>7. CASE ContinueAutomatic
  BY <1>7 DEF ContinueAutomatic, StartWrite, NoWrite
<1>8. CASE DrainContinues
  BY <1>8 DEF MoreToDrain, DrainContinues, StartWrite, NoWrite, ResolveBarrier, SettleBarrier
<1>9. CASE DrainRejects
  BY <1>9 DEF DrainRejects, SettleBarrier, control, queue
<1>10. CASE CloseBegins
  BY <1>10 DEF CloseBegins, StartBarrier, JoinBarrier, StartWrite, NoWrite, control, queue
<1>11. CASE CloseCancelsWait
  BY <1>11 DEF CloseCancelsWait, queue
<1>12. CASE UNCHANGED vars
  BY <1>12 DEF vars, queue, control
<1> QED
  BY <1>1, <1>2, <1>3, <1>4, <1>5, <1>6, <1>7, <1>8, <1>9, <1>10, <1>11, <1>12
     DEF Next, Continuation

-----------------------------------------------------------------------------
(* How the queue moves: an event enters at its tail, a write takes all of it, *)
(* success adds the batch to the store, failure puts it back at the head.     *)
LEMMA EnterTail ==
    ASSUME NEW d \in Seq(Nat), NEW b \in Seq(Nat), NEW p \in Seq(Nat), NEW e \in Nat
    PROVE  d \o b \o Append(p, e) = Append(d \o b \o p, e)
  BY SMTT(30)

LEMMA TakeAll ==
    ASSUME NEW d \in Seq(Nat), NEW p \in Seq(Nat)
    PROVE  d \o p \o <<>> = d \o <<>> \o p
  OBVIOUS

LEMMA StoreBatch ==
    ASSUME NEW d \in Seq(Nat), NEW b \in Seq(Nat), NEW p \in Seq(Nat)
    PROVE  (d \o b) \o <<>> \o p = d \o b \o p
  OBVIOUS

LEMMA PutBack ==
    ASSUME NEW d \in Seq(Nat), NEW b \in Seq(Nat), NEW p \in Seq(Nat)
    PROVE  d \o <<>> \o (b \o p) = d \o b \o p
  OBVIOUS

LEMMA StoreGrows ==
    ASSUME NEW d \in Seq(Nat), NEW b \in Seq(Nat), NEW p \in Seq(Nat)
    PROVE  /\ Len(d) \in Nat
           /\ Len(d \o b) = Len(d) + Len(b)
           /\ Len(d \o b \o p) = Len(d) + Len(b) + Len(p)
           /\ Len(b) >= 0 /\ Len(p) >= 0
  OBVIOUS

(* Starting a write when none is active moves the queue and loses nothing. *)
LEMMA StartWriteKeepsQueue ==
    ASSUME QueueTypes, QueueInv, active = "none", NEW bg, StartWrite(bg),
           UNCHANGED <<enqueued, durable>>
    PROVE  /\ NothingLostOrReordered'
           /\ active' = "writing"
<1>1. batch = <<>>
  BY DEF QueueInv
<1>2. durable \o pending \o <<>> = durable \o <<>> \o pending
  BY TakeAll DEF QueueTypes
<1> QED
  BY <1>1, <1>2 DEF StartWrite, QueueInv, NothingLostOrReordered

(* When nothing is pending or being written, everything enqueued is durable. *)
LEMMA EmptyMeansDurable ==
    ASSUME QueueTypes, QueueInv, active # "writing", pending = <<>>
    PROVE  durable = enqueued
<1>1. durable \o <<>> \o <<>> = durable
  BY DEF QueueTypes
<1> QED
  BY <1>1 DEF QueueInv, NothingLostOrReordered

(* Every step keeps the queue half: no interleaving of enqueue, flush, close, *)
(* deadline, success and failure loses, duplicates or reorders an event, and  *)
(* a resolved flush vouched only for durable events.                          *)
LEMMA QueueStep == TypeOK /\ ControlInv /\ QueueInv /\ [Next]_vars => QueueInv'
<1> SUFFICES ASSUME TypeOK, ControlInv, QueueInv, [Next]_vars PROVE QueueInv'
  OBVIOUS
<1>t. QueueTypes /\ FlagTypes /\ CountTypes
  BY TypesSplit
<1>l. /\ Len(durable) \in Nat /\ Len(batch) \in Nat /\ Len(enqueued) \in Nat
      /\ Len(durable) <= Len(enqueued)
  BY <1>t, StoreGrows DEF QueueTypes, QueueInv, NothingLostOrReordered
<1>n. asked \in Nat /\ promised \in Nat
  BY <1>t DEF CountTypes
<1>b. ASSUME StartBarrier PROVE QueueInv'
  <2>0. /\ asked' = Len(enqueued) /\ enqueued' = enqueued /\ durable' = durable
        /\ asked' <= Len(enqueued')
        /\ promised <= asked' /\ promised <= Len(durable')
    BY <1>b, <1>l, <1>n DEF StartBarrier, QueueInv, FlushedIsDurable
  <2>1. CASE active = "none" /\ pending # <<>>
    <3>1. NothingLostOrReordered' /\ active' = "writing"
      BY <1>b, <1>t, <2>1, StartWriteKeepsQueue DEF StartBarrier
    <3> QED
      BY <1>b, <2>0, <2>1, <3>1 DEF StartBarrier, QueueInv, FlushedIsDurable
  <2>2. CASE active # "none"
    BY <1>b, <2>0, <2>2 DEF StartBarrier, NoWrite, QueueInv, NothingLostOrReordered, FlushedIsDurable
  <2>3. CASE active = "none" /\ pending = <<>>
    <3>1. durable = enqueued
      BY <1>t, <2>3, EmptyMeansDurable
    <3> QED
      BY <1>b, <1>l, <2>0, <2>3, <3>1 DEF StartBarrier, NoWrite, QueueInv, NothingLostOrReordered, FlushedIsDurable
  <2> QED
    BY <2>1, <2>2, <2>3
<1>j. ASSUME JoinBarrier PROVE QueueInv'
  BY <1>j, <1>l, <1>n DEF JoinBarrier, queue, QueueInv, NothingLostOrReordered, FlushedIsDurable
<1>1. CASE Enqueue
  <2>1. Len(enqueued) + 1 \in Nat
    BY <1>l
  <2>2. NothingLostOrReordered'
    <3>1. durable \o batch \o Append(pending, Len(enqueued) + 1)
            = Append(durable \o batch \o pending, Len(enqueued) + 1)
      BY <1>t, <2>1, EnterTail DEF QueueTypes
    <3> QED
      BY <1>1, <3>1 DEF TimerIsHeld, Enqueue, QueueInv, NothingLostOrReordered
  <2>3. Len(enqueued') = Len(enqueued) + 1
    BY <1>1, <1>t, <2>1 DEF TimerIsHeld, Enqueue, QueueTypes
  <2> QED
    BY <1>1, <1>l, <1>n, <2>2, <2>3 DEF TimerIsHeld, Enqueue, QueueInv, FlushedIsDurable
<1>2. CASE Flush
  BY <1>2, <1>b, <1>j DEF Flush
<1>3. CASE OnDeadline
  <2>1. NothingLostOrReordered' /\ (active' # "writing" => batch' = <<>>)
    BY <1>3, <1>t, StartWriteKeepsQueue DEF MissDeadline, OnDeadline, NoWrite, QueueInv, NothingLostOrReordered
  <2> QED
    BY <1>3, <2>1 DEF MissDeadline, OnDeadline, QueueInv, FlushedIsDurable
<1>4. CASE WriteSucceeds
  <2>1. NothingLostOrReordered'
    BY <1>4, <1>t, StoreBatch DEF WriteSucceeds, QueueTypes, QueueInv, NothingLostOrReordered
  <2>2. Len(durable') = Len(durable) + Len(batch)
    BY <1>4, <1>t DEF WriteSucceeds, QueueTypes
  <2> QED
    BY <1>4, <1>l, <1>n, <2>1, <2>2 DEF WriteSucceeds, QueueInv, FlushedIsDurable
<1>5. CASE WriteFails
  <2>1. NothingLostOrReordered'
    BY <1>5, <1>t, PutBack DEF Retained, WriteFails, QueueTypes, QueueInv, NothingLostOrReordered
  <2> QED
    BY <1>5, <2>1 DEF Retained, WriteFails, QueueInv, FlushedIsDurable
<1>6. CASE WriteSettles
  BY <1>6 DEF WriteSettles, queue, QueueInv, NothingLostOrReordered, FlushedIsDurable
<1>7. CASE ContinueAutomatic
  <2>1. barrier = "none" => active = "none"
    BY <1>7 DEF ContinueAutomatic, ControlInv, ChainInv
  <2>2. NothingLostOrReordered' /\ (active' # "writing" => batch' = <<>>)
    BY <1>7, <1>t, <2>1, StartWriteKeepsQueue DEF ContinueAutomatic, NoWrite, QueueInv, NothingLostOrReordered
  <2> QED
    BY <1>7, <2>2 DEF ContinueAutomatic, QueueInv, FlushedIsDurable
<1>8. CASE DrainContinues
  <2>1. CASE pending # <<>>
    <3>1. NothingLostOrReordered' /\ active' = "writing"
      BY <1>8, <1>t, <2>1, StartWriteKeepsQueue DEF MoreToDrain, DrainContinues
    <3> QED
      BY <1>8, <2>1, <3>1 DEF MoreToDrain, DrainContinues, QueueInv, FlushedIsDurable
  <2>2. CASE pending = <<>>
    <3>1. durable = enqueued
      BY <1>8, <1>t, <2>2, EmptyMeansDurable DEF MoreToDrain, DrainContinues
    <3> QED
      BY <1>8, <1>l, <1>n, <2>2, <3>1
         DEF MoreToDrain, DrainContinues, ResolveBarrier, SettleBarrier, NoWrite, QueueInv, NothingLostOrReordered, FlushedIsDurable
  <2> QED
    BY <2>1, <2>2
<1>9. CASE DrainRejects
  BY <1>9 DEF DrainRejects, SettleBarrier, queue, QueueInv, NothingLostOrReordered, FlushedIsDurable
<1>10. CASE CloseBegins
  BY <1>10, <1>b, <1>j DEF CloseBegins
<1>11. CASE CloseCancelsWait
  BY <1>11 DEF CloseCancelsWait, queue, QueueInv, NothingLostOrReordered, FlushedIsDurable
<1>12. CASE UNCHANGED vars
  BY <1>12 DEF vars, queue, QueueInv, NothingLostOrReordered, FlushedIsDurable
<1> QED
  BY <1>1, <1>2, <1>3, <1>4, <1>5, <1>6, <1>7, <1>8, <1>9, <1>10, <1>11, <1>12
     DEF Next, Continuation

-----------------------------------------------------------------------------
(* The inductive invariant holds in every reachable state. *)
THEOREM Invariance == Spec => []IInv
<1>1. IInv /\ [Next]_vars => IInv'
  BY TypeStep, ControlStep, QueueStep DEF IInv
<1> QED
  BY InitIInv, <1>1, PTL DEF Spec

(* Type correctness of SessionWriteBehind's fields. *)
THEOREM TypeCorrect == Spec => []TypeOK
<1>1. IInv => TypeOK
  BY DEF IInv
<1> QED
  BY <1>1, Invariance, PTL

(* No event is lost, duplicated or reordered between enqueue and the backend. *)
THEOREM QueueIsFaithful == Spec => []NothingLostOrReordered
<1>1. IInv => NothingLostOrReordered
  BY DEF IInv, QueueInv
<1> QED
  BY <1>1, Invariance, PTL

(* Retained events always have a timer, a flush or a continuation that writes *)
(* them, unless a failure paused the session or close() cancelled the wait.   *)
THEOREM WakeupIsNeverLost == Spec => []NoLostWakeup
<1>1. IInv => NoLostWakeup
  BY DEF IInv, ControlInv
<1> QED
  BY <1>1, Invariance, PTL

(* A resolved flush vouches only for durable events. *)
THEOREM FlushIsHonest == Spec => []FlushedIsDurable
<1>1. IInv => FlushedIsDurable
  BY DEF IInv, QueueInv
<1> QED
  BY <1>1, Invariance, PTL

(* During a flush and after a failure no automatic write is scheduled. *)
THEOREM AutomaticWritesAreHeld == Spec => []AutomaticWritesHeld
<1>1. IInv => AutomaticWritesHeld
  BY DEF IInv, ControlInv
<1> QED
  BY <1>1, Invariance, PTL

-----------------------------------------------------------------------------
(* A finished write adds the next contiguous run of accepted events. *)
LEMMA PrefixOfConcat ==
    ASSUME NEW d \in Seq(Nat), NEW b \in Seq(Nat), NEW p \in Seq(Nat)
    PROVE  SubSeq(d \o b \o p, 1, Len(d \o b)) = d \o b
  OBVIOUS

(* Every step of the write-behind is a step of the durable log or a stutter. *)
LEMMA StepRefines == IInv /\ [Next]_vars => [Log!Next]_(Log!vars)
<1> SUFFICES ASSUME IInv, [Next]_vars PROVE [Log!Next]_(Log!vars)
  OBVIOUS
<1> USE DEF Log!vars
<1>t. QueueTypes /\ CountTypes /\ QueueInv
  BY TypesSplit DEF IInv
<1>l. /\ Len(durable) \in Nat /\ Len(enqueued) \in Nat
      /\ Len(durable) <= Len(enqueued) /\ promised <= Len(durable)
  BY <1>t, StoreGrows DEF QueueTypes, QueueInv, NothingLostOrReordered, FlushedIsDurable
<1>p. ASSUME NEW n \in Nat, promised' = n, promised <= n, n <= Len(durable),
             UNCHANGED <<enqueued, durable>>
      PROVE  Log!Next
  BY <1>p, <1>t, <1>l DEF CountTypes, Log!Next, Log!Promise
<1>b. ASSUME StartBarrier PROVE [Log!Next]_(Log!vars)
  <2>1. CASE active = "none" /\ pending = <<>>
    <3>1. durable = enqueued
      BY <1>t, <2>1, EmptyMeansDurable
    <3> QED
      BY <1>b, <1>p, <1>l, <2>1, <3>1 DEF StartBarrier
  <2>2. CASE ~(active = "none" /\ pending = <<>>)
    BY <1>b, <2>2 DEF StartBarrier
  <2> QED
    BY <2>1, <2>2
<1>j. ASSUME JoinBarrier PROVE [Log!Next]_(Log!vars)
  BY <1>j DEF JoinBarrier, queue
<1>1. CASE Enqueue
  <2>1. Len(enqueued) + 1 \in Event
    BY <1>1, <1>l, MaxEventsAssumption DEF TimerIsHeld, Enqueue, Event
  <2> QED
    BY <1>1, <2>1 DEF TimerIsHeld, Enqueue, Log!Next, Log!Accept
<1>2. CASE Flush
  BY <1>2, <1>b, <1>j DEF Flush
<1>4. CASE WriteSucceeds
  <2>1. durable' = durable \o batch /\ enqueued' = enqueued /\ promised' = promised
    BY <1>4 DEF WriteSucceeds
  <2>2. SubSeq(enqueued, 1, Len(durable \o batch)) = durable \o batch
    BY <1>t, PrefixOfConcat DEF QueueTypes, QueueInv, NothingLostOrReordered
  <2>3. Len(durable \o batch) \in Len(durable) .. Len(enqueued)
    BY <1>t, StoreGrows DEF QueueTypes, QueueInv, NothingLostOrReordered
  <2> QED
    BY <2>1, <2>2, <2>3 DEF Log!Next, Log!Persist
<1>8. CASE DrainContinues
  <2>1. CASE pending # <<>>
    BY <1>8, <2>1 DEF MoreToDrain, DrainContinues
  <2>2. CASE pending = <<>>
    <3>1. durable = enqueued
      BY <1>8, <1>t, <2>2, EmptyMeansDurable DEF MoreToDrain, DrainContinues
    <3>2. /\ promised' = asked /\ UNCHANGED <<enqueued, durable>>
          /\ asked \in Nat /\ promised <= asked /\ asked <= Len(durable)
      BY <1>8, <1>t, <2>2, <3>1 DEF MoreToDrain, DrainContinues, ResolveBarrier, CountTypes, QueueInv
    <3> QED
      BY <1>p, <3>2
  <2> QED
    BY <2>1, <2>2
<1>10. CASE CloseBegins
  BY <1>10, <1>b, <1>j DEF CloseBegins
<1>11. CASE OnDeadline \/ WriteFails \/ WriteSettles \/ ContinueAutomatic
            \/ DrainRejects \/ CloseCancelsWait
  BY <1>11 DEF OnDeadline, WriteFails, WriteSettles, ContinueAutomatic, DrainRejects,
               CloseCancelsWait, queue
<1>12. CASE UNCHANGED vars
  BY <1>12 DEF vars, queue
<1> QED
  BY <1>1, <1>2, <1>4, <1>8, <1>10, <1>11, <1>12 DEF Next, Continuation

(* SessionWriteBehind implements the durable log: accepted events are stored  *)
(* in order, without gaps, and flushes vouch for stored events only.          *)
THEOREM ImplementsDurableLog == Spec => LogSpec
<1>1. Init => Log!Init
  BY DEF Init, Log!Init
<1> QED
  BY <1>1, StepRefines, Invariance, PTL DEF Spec, LogSpec, Log!Spec
=============================================================================
