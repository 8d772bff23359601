----------------------------- MODULE WriteBehind -----------------------------
(***************************************************************************)
(* SessionWriteBehind, the per-session write batching of the persistence   *)
(* coordinator, together with the coordinator's flush() and close().       *)
(*                                                                         *)
(* One JavaScript thread runs everything, so a synchronous stretch of code *)
(* is one action.  What interleaves is: calls of enqueue / flush / close   *)
(* (any task or microtask), the batching timer (a macrotask: it fires only *)
(* when no continuation is queued), the backend's answer, and the promise  *)
(* continuations that follow it, one action each.                          *)
(***************************************************************************)
EXTENDS Naturals, Sequences

CONSTANT MaxEvents      \* bound: how many events the producer enqueues
ASSUME MaxEventsAssumption == MaxEvents \in Nat

Event == 1 .. MaxEvents

VARIABLES
    enqueued,           \* ghost: every event ever enqueued, in order
    pending,            \* this.pending
    batch,              \* the events of the active write
    durable,            \* what the backend holds after the last finished write
    timer,              \* this.timer is armed
    active,             \* this.active, and how far its promise chain has come
    background,         \* the active (or just finished) write is startWrite(true)
    continuation,       \* startBackground's continueAutomatic is queued
    barrier,            \* this.barrier, and where drainBarrier waits
    deadlineExpired,    \* this.deadlineExpired
    paused,             \* this.automaticPaused
    asked,              \* ghost: Len(enqueued) when the current barrier was last asked for
    promised,           \* ghost: events a resolved flush vouched for
    close,              \* the coordinator's close() as this session sees it
    cancelled           \* ghost: cancelAutomaticWait left retained events with no timer

queue   == <<enqueued, pending, batch, durable>>
control == <<timer, deadlineExpired, paused, cancelled>>
vars    == <<queue, control, active, background, continuation, barrier,
             asked, promised, close>>

Init ==
    /\ enqueued = <<>>
    /\ pending = <<>>
    /\ batch = <<>>
    /\ durable = <<>>
    /\ timer = FALSE
    /\ active = "none"
    /\ background = FALSE
    /\ continuation = FALSE
    /\ barrier = "none"
    /\ deadlineExpired = FALSE
    /\ paused = FALSE
    /\ asked = 0
    /\ promised = 0
    /\ close = "open"
    /\ cancelled = FALSE

-----------------------------------------------------------------------------
(* A promise continuation is queued: the macrotask queue (timers) waits. *)
MicrotaskQueued ==
    \/ active \in {"wrote", "failed"}
    \/ continuation
    \/ barrier = "rejecting"
    \/ barrier \in {"overlapping", "draining"} /\ active = "none"

(* startWrite, up to the call of options.write: takes the whole queue. *)
StartWrite(bg) ==
    /\ batch' = pending
    /\ pending' = <<>>
    /\ timer' = FALSE
    /\ deadlineExpired' = FALSE
    /\ cancelled' = FALSE
    /\ active' = "writing"
    /\ background' = bg

NoWrite == UNCHANGED <<pending, batch, active, background>>


(* Everyone who awaits the barrier's promise learns its outcome. *)
SettleBarrier ==
    /\ barrier' = "none"
    /\ close' = IF close = "flushing" THEN "flushed" ELSE close

ResolveBarrier(count) ==
    /\ SettleBarrier
    /\ promised' = count


(* enqueue leaves the timer alone while a flush owns the queue. *)
TimerIsHeld == barrier # "none"

Enqueue ==
    /\ Len(enqueued) < MaxEvents
    /\ enqueued' = Append(enqueued, Len(enqueued) + 1)
    /\ pending' = Append(pending, Len(enqueued) + 1)
    /\ \/ /\ TimerIsHeld
          /\ UNCHANGED control
       \/ /\ ~TimerIsHeld
          /\ paused
          /\ paused' = FALSE
          /\ deadlineExpired' = FALSE
          /\ timer' = TRUE
          /\ UNCHANGED cancelled
       \/ /\ ~TimerIsHeld
          /\ ~paused
          /\ \/ pending = <<>> /\ timer' = TRUE
             \/ pending # <<>> /\ UNCHANGED timer
          /\ UNCHANGED <<deadlineExpired, paused, cancelled>>
    /\ UNCHANGED <<batch, durable, active, background, continuation, barrier,
                   asked, promised, close>>

(* flush() without a barrier: drainBarrier runs at once up to its first     *)
(* await.  With an overlapping write it waits for it; otherwise it starts   *)
(* the first write, or resolves on the spot when nothing is pending.        *)
StartBarrier ==
    /\ barrier = "none"
    /\ asked' = Len(enqueued)
    /\ paused' = FALSE
    /\ \/ /\ active # "none"
          /\ barrier' = "overlapping"
          /\ timer' = FALSE
          /\ deadlineExpired' = FALSE
          /\ cancelled' = FALSE
          /\ NoWrite
          /\ UNCHANGED promised
       \/ /\ active = "none"
          /\ pending # <<>>
          /\ barrier' = "draining"
          /\ StartWrite(FALSE)
          /\ UNCHANGED promised
       \/ /\ active = "none"
          /\ pending = <<>>
          /\ barrier' = "none"
          /\ timer' = FALSE
          /\ deadlineExpired' = FALSE
          /\ cancelled' = FALSE
          /\ promised' = Len(enqueued)
          /\ NoWrite
    /\ UNCHANGED <<enqueued, durable, continuation>>

(* flush() while a barrier exists returns the same promise. *)
JoinBarrier ==
    /\ barrier # "none"
    /\ asked' = Len(enqueued)
    /\ UNCHANGED <<queue, control, active, background, continuation, barrier, promised>>

Flush ==
    /\ StartBarrier \/ JoinBarrier
    /\ UNCHANGED close

(* mutant: the missed deadline is not remembered *)
MissDeadlineForgotten ==
    /\ timer' = FALSE
    /\ UNCHANGED deadlineExpired

(* The deadline passes while a write is active, which used up the budget. *)
MissDeadline ==
    /\ timer' = FALSE
    /\ deadlineExpired' = TRUE

OnDeadline ==
    /\ timer
    /\ ~MicrotaskQueued
    /\ \/ /\ active # "none"
          /\ MissDeadline
          /\ NoWrite
          /\ UNCHANGED cancelled
       \/ /\ active = "none"
          /\ StartWrite(TRUE)
    /\ UNCHANGED <<enqueued, durable, paused, continuation, barrier, asked, promised, close>>

-----------------------------------------------------------------------------
(* The backend's answer.  A failed append has rolled the file back.  A queued *)
(* continueAutomatic is older than the write's first microtask: it goes first. *)
WriteSucceeds ==
    /\ active = "writing"
    /\ ~continuation
    /\ active' = "wrote"
    /\ durable' = durable \o batch
    /\ batch' = <<>>
    /\ UNCHANGED <<enqueued, pending, control, background, continuation, barrier,
                   asked, promised, close>>

(* mutant: the failed batch is pushed behind what came after it *)
RetainedAtTail == pending \o batch

Retained == batch \o pending

(* startWrite's catch handler: the batch goes back to the head of the queue. *)
WriteFails ==
    /\ active = "writing"
    /\ ~continuation
    /\ active' = "failed"
    /\ pending' = Retained
    /\ batch' = <<>>
    /\ timer' = FALSE
    /\ deadlineExpired' = FALSE
    /\ paused' = TRUE
    /\ cancelled' = FALSE
    /\ UNCHANGED <<enqueued, durable, background, continuation, barrier,
                   asked, promised, close>>

(* startWrite's finally handler, and whom it wakes. *)
WriteSettles ==
    /\ active \in {"wrote", "failed"}
    /\ active' = "none"
    /\ continuation' = (background /\ active = "wrote")
    /\ barrier' = IF barrier = "draining" /\ active = "failed" THEN "rejecting" ELSE barrier
    /\ UNCHANGED <<queue, control, background, asked, promised, close>>

ContinueAutomatic ==
    /\ continuation
    /\ continuation' = FALSE
    /\ \/ /\ barrier = "none"
          /\ pending # <<>>
          /\ deadlineExpired
          /\ StartWrite(TRUE)
       \/ /\ barrier # "none" \/ pending = <<>> \/ ~deadlineExpired
          /\ NoWrite
          /\ UNCHANGED <<timer, deadlineExpired, cancelled>>
    /\ UNCHANGED <<enqueued, durable, paused, barrier, asked, promised, close>>

(* mutant: a flush that overlapped a write waits for that write only *)
MoreToDrainOnce == barrier = "draining" /\ pending # <<>>


MoreToDrain == pending # <<>>

(* drainBarrier resumes: after the overlapping write, or after its own. *)
DrainContinues ==
    /\ barrier \in {"overlapping", "draining"}
    /\ active = "none"
    /\ ~continuation
    /\ paused' = IF barrier = "overlapping" THEN FALSE ELSE paused
    /\ \/ /\ MoreToDrain
          /\ barrier' = "draining"
          /\ StartWrite(FALSE)
          /\ UNCHANGED <<promised, close>>
       \/ /\ ~MoreToDrain
          /\ ResolveBarrier(asked)
          /\ NoWrite
          /\ UNCHANGED <<timer, deadlineExpired, cancelled>>
    /\ UNCHANGED <<enqueued, durable, continuation, asked>>

DrainRejects ==
    /\ barrier = "rejecting"
    /\ SettleBarrier
    /\ UNCHANGED <<queue, control, active, background, continuation, asked, promised>>

-----------------------------------------------------------------------------
(* The coordinator's close(): flush every session, wait for all of them,    *)
(* then cancel every automatic wait.  The other sessions' flushes take any  *)
(* time, so calls for this session may come between its own flush settling  *)
(* ("flushed") and the cancellation.                                        *)
CloseBegins ==
    /\ close = "open"
    /\ StartBarrier \/ JoinBarrier
    /\ close' = IF barrier' = "none" THEN "flushed" ELSE "flushing"

CloseCancelsWait ==
    /\ close = "flushed"
    /\ close' = "closed"
    /\ timer' = FALSE
    /\ deadlineExpired' = FALSE
    /\ cancelled' = (pending # <<>> /\ barrier = "none" /\ ~paused)
    /\ UNCHANGED <<queue, paused, active, background, continuation, barrier,
                   asked, promised>>

Continuation == WriteSettles \/ ContinueAutomatic \/ DrainContinues \/ DrainRejects

Next ==
    \/ Enqueue
    \/ Flush
    \/ OnDeadline
    \/ WriteSucceeds
    \/ WriteFails
    \/ Continuation
    \/ CloseBegins
    \/ CloseCancelsWait

(* Timers fire and continuations run because the event loop does not block; *)
(* the backend answers because an append is a finite sequence of file       *)
(* operations.  Nobody is obliged to enqueue, to flush or to close.         *)
Fairness ==
    /\ WF_vars(OnDeadline)
    /\ WF_vars(WriteSucceeds \/ WriteFails)
    /\ WF_vars(Continuation)

Spec == Init /\ [][Next]_vars /\ Fairness

-----------------------------------------------------------------------------
TypeOK ==
    /\ enqueued \in Seq(Nat)
    /\ pending \in Seq(Nat)
    /\ batch \in Seq(Nat)
    /\ durable \in Seq(Nat)
    /\ timer \in BOOLEAN
    /\ active \in {"none", "writing", "wrote", "failed"}
    /\ background \in BOOLEAN
    /\ continuation \in BOOLEAN
    /\ barrier \in {"none", "overlapping", "draining", "rejecting"}
    /\ deadlineExpired \in BOOLEAN
    /\ paused \in BOOLEAN
    /\ asked \in Nat
    /\ promised \in Nat
    /\ close \in {"open", "flushing", "flushed", "closed"}
    /\ cancelled \in BOOLEAN

(* Whatever failed, was retried or overlapped, each event is in exactly one  *)
(* place and the places line up in enqueue order: written, being written,    *)
(* pending (write-behind.ts, startWrite's splice and its catch's concat).    *)
NothingLostOrReordered == durable \o batch \o pending = enqueued

(* Retained events always have something that will move them, or a stated    *)
(* reason why nothing does: a failure paused automatic writing until the     *)
(* next enqueue or flush, or close() cancelled the wait.                     *)
SomethingWillWrite ==
    \/ timer
    \/ barrier # "none"
    \/ deadlineExpired /\ ((active # "none" /\ background) \/ continuation)

NoLostWakeup ==
    pending # <<>> => SomethingWillWrite \/ paused \/ cancelled

(* A resolved flush vouches for every event enqueued before any caller asked *)
(* for it, also when it overlapped a background write that failed.           *)
FlushedIsDurable == promised <= Len(durable)

(* No automatic write can start while a flush owns the queue, nor between a  *)
(* failure and the next enqueue or flush: a failing disk is not hammered.    *)
AutomaticWritesHeld ==
    barrier # "none" \/ paused => ~timer /\ ~deadlineExpired

(* Each enqueued event becomes durable unless a failure paused the session   *)
(* or close() cancelled its wait.                                            *)
EventuallyDurable ==
    \A n \in Event :
        Len(enqueued) >= n ~> Len(durable) >= n \/ paused \/ cancelled

(* flush() settles: its drain loop is not fed for ever by a bounded producer. *)
FlushSettles == barrier # "none" ~> barrier = "none"

(* The coordinator's contract for close(): "Write-behinds stay in the map    *)
(* after close(), so a later enqueue still works" (index.ts:140-141): an     *)
(* enqueue after close() leaves its event with something that will write it. *)
EnqueueAfterCloseWorks ==
    [][close = "closed" /\ Enqueue => SomethingWillWrite' \/ active' # "none"]_vars

(* The abstract log this implements. *)
Log == INSTANCE DurableLog WITH accepted <- enqueued, stored <- durable
LogSpec == Log!Spec
=============================================================================
