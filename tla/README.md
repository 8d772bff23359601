# TLA+ models of I-harness

I-harness is a coding-agent harness in TypeScript. A session is an append-only
log of events; everything else is a projection of that log or is written
through it: the inbox of the session, the team's task board and mailboxes, the
conversation the model sees. The models here are about the part of the harness
whose errors lose or repeat a user's work and that unit tests reach badly: what
happens to a log between memory, the write-behind, the file and a restart, and
what happens to the shared state that several actors change through it.

    write-behind -> coordinator and lease -> JSONL file      how a log gets to disk
         ^
      session log
         ^            ^              ^               ^             ^
      task board   mailbox   inbox and lane     reminders     tool calls    what lives in it
                                  ^
                     the service's queue, the gateway's inputs              who uses it

Each module is checked by TLC on a small instance, and each has proofs for every
value of its constants, checked by TLAPS: every invariant and action property of
the runs below is also a theorem. Paths below are
relative to `src/`; `PROJECT.json` has the line ranges of every definition.

## 1. Components

### Modelled

**Write-behind** (`packages/session-persistence/src/write-behind.ts`). State: the
pending events, the active write, a batching timer, a flush barrier, and the
flags that say why no automatic write is scheduled. Operations: `enqueue`,
`flush`, the deadline, a write's success or failure, `cancelAutomaticWait`. It
calls the backend and is called by every append of the session; `close()` of the
coordinator flushes all controllers and then cancels their waits. Hard: promise
continuations interleave with calls, timers and the backend's answers; a failed
batch goes back to the front of a queue that has grown. Correct when no event is
lost, repeated or reordered, a flush that resolved vouches for durable events
only, and retained events always have something that will write them.

**JSONL file** (`packages/session-persistence-jsonl/src/index.ts`, `format.ts`).
State: the bytes of one session's file. Operations: `append` with its rollback to
the length before the write, reading with its tolerance of a torn tail, `repair`
and the atomic rewrite. Hard: the process dies at any byte; a rollback can fail.
Correct when what was acknowledged stays readable, seqs stay positional and
nothing is appended behind a torn line.

**Coordinator and ownership lease** (`packages/session-persistence/src/index.ts`,
over `packages/fs-lock/src/index.ts`). State: for each session a chain of operations, the leases this
process holds, and the operating system's lock behind them. Operations: append,
load, loadOwned, adopt, release, close. Hard: several processes share the file;
leases are borrowed for one operation and returned; a process dies with
operations running; `close()` runs beside them. Correct when only the holder
writes, acknowledged events stay in the file, a session stays loadable, borrowed
leases return and operations end.

**Task board** (`packages/agent-team/src/task-board.ts`, `transact.ts`). State: the
team's tasks, folded from events in the lead's log. Operations: create, claim,
release, complete, edit, change dependencies, reassign, delete; each is a
transaction that checks and appends in one step and answers after a flush. Hard:
callers act on looks that are stale, flushes fail after the event is in the log,
a restart keeps any part of the log that is on disk. Correct when tasks wait only
for live tasks and never all for each other, an update is applied to the snapshot
its caller saw, and what a caller was told survives.

**Mailbox** (`packages/agent-team/src/mailbox.ts`, `scheduler.ts`). State: queued
and delivered events in the lead's log, inbox events in the target's log.
Operations: send, deliver, acknowledge, and the recovery sweep of a mounted team.
Hard: the three writes of a message go to two logs with separate flushes; sends
race each other, the sweep, restarts and children that stop and resume. Correct
when what is acknowledged is on the target's disk, what was answered stays
queued until then, and no message is delivered again after its acknowledgement.

**Inbox and executor lane** (`packages/core-session/src/inbox.ts`,
`packages/core-agent/src/executor.ts`). State: admitted, promoted and cancelled
events in the session's log, and in memory a chain of pumps, the running turn, the
waiting signals and the last error. Operations: submit, admit, runAdmitted, cancel,
cancelCurrent, dispose, the pump, the claim of steers at a step boundary, the end
of a turn. Hard: three consumers of the same inputs (pump, step boundary,
cancellation), failures that end a pump while inputs wait, an error kept for the
whole lane, restarts. Correct when each input is read at most once and in order,
none is left behind by an idle lane, and callers are told the truth about theirs.

**Session queue** (`packages/session-executor/src/service.ts`,
`packages/desktop-gateway/src/input.ts`). State: the gateway's gate, the row of
each submission, the chain of submissions that paces them, the assembly of the
session. Operations: admit and its retry, resume, cancel, stop; the first
submission builds the session and asks the lane for its input. Hard: one input
has a row, an inbox entry and a place in the lane, and admissions, claims,
cancellations and stops change them in any order while the session may still be
assembled. Correct when the lane is asked for one input at a time, what a caller
was told is true and an accepted input is run or withdrawn.

**Reminders** (`packages/schedule/src/index.ts`, `driver.ts`, `tools.ts`, and the
delivery in `packages/session-executor/src/assembly.ts`). State: the creates,
deletes and dispatches in the session's log, folded anew by every reader.
Operations: the tools, the tick at a step boundary, the host's append of
dispatches and one admission. Hard: ticks overlap, flushes fail, the batch is
several lines of a file, the fold is strict and refuses for good, and an input's
name is consumed for good. Correct when the log stays foldable, a spent reminder
has its input, a fixed rate keeps its anchor, and what is due reaches the model.

**Parallel tool calls** (`packages/core-agent/src/execute-tool-calls.ts`, and the
repair of an interrupted turn in `packages/session-persistence/src/repair.ts`).
State: the slots, the cursor over them, the pool of running bodies, the flags of
what stopped the batch. Operations: preparing a call, its dispatch marker and the
checkpoint that saves it, the body, the hooks behind it, the endings and their
fills, the end of the turn, and the repair of a dead process's log. Hard: bodies
finish in any order, the signal is stale after each await, hooks throw, and what
the model is told of a call decides whether it repeats a side effect. Correct when
each call is answered once, in order and truthfully, and a stop is obeyed.

### Not modelled yet, and not to be modelled

`PROJECT.json` lists every other component with the reason. In short: the
team's roster and activity, subagents and jobs, the steps of a turn, the
execution supervisor, compaction, rewind, the MCP supervisor and the SDK's
bounded writer have state worth modelling and are in the plan. Adapters for models, sandboxing, search, language servers, plugins, settings,
telemetry and the user interfaces are conversions, operating-system calls or
input/output, and are left out.

## 2. Plan

| order | module | composes / implements | state |
|---|---|---|---|
| 1 | `DurableLog`, `WriteBehind` | WriteBehind implements DurableLog | checked, proved |
| 2 | `JsonlStore` | | checked, proved |
| 3 | `SessionOwnership` | | checked, proved |
| 4 | `TeamTaskBoard` | | checked, proved |
| 5 | `TeamMailbox` | | checked, proved |
| 6 | `ExecutorLane` | | checked, proved |
| 7 | `SessionQueue` | extends ExecutorLane, whose lane it drives | checked, proved |
| 8 | `Schedule` | | checked, proved |
| 9 | `ToolCalls` | with the repair of what it leaves open | checked, proved |
| 10 | `TeamRoster`: provisioning against its reconciliation, slots | | planned |
| 11 | `TeamActivity`: waiters, notification, close | | planned |
| 12 | exec supervisor, subagent and jobs, rewind, MCP supervisor, SDK writer | | as far as they repay it |

Proofs still planned: the type invariants of JsonlStore and SessionOwnership, which
bound what a log may hold also after faults and without the lease, and those of
the planned modules.

## 3. Modules and the code

One JavaScript thread runs a process, so a synchronous stretch of code is one
action, and every `await` is a place where any other action may come between.
Messages, prompts and tasks are model values; formatting and validation of
malformed arguments are left out. Names follow the source where TLA+ allows it.

**DurableLog** is the abstract specification of a session's log: it accepts
events, and some prefix of what it accepted is stored; the stored part only
grows. **WriteBehind** has one action per call (`Enqueue`, `Flush`,
`CloseBegins`, `CloseCancelsWait`), the timer (`OnDeadline`), the backend's answer
(`WriteSucceeds`, `WriteFails`) and one action per promise continuation
(`WriteSettles`, `ContinueAutomatic`, `DrainContinues`, `DrainRejects`). A timer
is a macrotask and fires only when no continuation is queued. Ghosts: all events
enqueued, the length when a flush was asked for, the count it vouched for, and
whether the wait was cancelled over retained events. LogSpec is the refinement: `accepted <- enqueued`, `stored <- durable`.

**JsonlStore** models a file as lines of pieces, a piece being the whole or a
part of one serialized event. A line is valid when it is exactly one whole
piece; a last line without newline is continued by the next append. `AppendOpens`,
`AppendStats`, `AppendWrites`, `AppendSyncs` and `AppendRollsBack` are the steps
of `append`; `Crash` cuts the file at any place the disk allows. `Repair` and
`LoadOwned` are the two rewrites a restarted process makes before it writes, each a
rename: the first leaves a closing event without a seq and the second numbers it;
the process may die between them, or the second may fail (`LoadFails`), and the
next attempt repairs again. The rare faults (`stat` fails,
the rollback's `truncate` fails, a short write, a cut exactly before a newline)
happen at most once in a run; `faulty` remembers it. Without the faults the
invariant holds; what each of them does is told in section 7.

**SessionOwnership** has several coordinators (one per process), an operation
slot per concurrent call, the per-session chain, the lock of the operating
system, and the file as the seqs it holds. Each operation is the sequence of its
awaits; `load` and `loadOwned` part after the repair (`LoadRepairs`,
`OwnedRepairs`), and loadOwned goes on to the rewrite that makes the session live
(`LoadsOwned`), so that another process may come between the two renames. Each of
them may fail (`RepairFails`, `LoadOwnedFails`) and then returns a borrowed lease
as the success does. `Dispose` is what the service's `closeSession` does with a
session whose turn has ended, before its ownership is released. `CloseWaits`,
`CloseReleases` and `CloseClears` are the steps of `close()`. Turns are one event long. A dead process loses its leases, not its
writes.

**TeamTaskBoard** keeps the log as the boards it folds to: the first is durable,
the last is live. An update is one action per `action` of `updateTask`; `call`
is the transaction that awaits its flush, `view` is what one caller saw earlier
(a look, or an answer), from which a later update takes its expected revision.
The search for a cycle is modelled by what it decides: no cycle, when some set
closed under blockers has the new blockers and not the task. `FlushRejects` leaves the event in the log, as the code does; `LogAdvances` is the
write-behind saving a prefix on its own; `Restart` keeps any saved part. A restart
restores each teammate with its own log, which is another file, so that a look
which was never answered, and its revision, may survive (`Remembered`) although
the board it was made at did not; the ghost `lost` marks such a look. The lead's
looks lie in the log of the board, behind what they show, and go with it.

**TeamMailbox** keeps the lead's log as its entries and how many are on disk, and
each teammate's log as its inbox entries. `stage` follows each send and the
sweep through `sendMessage`, `deliver` and the two transactions; the chain of
transactions is `tx`. Answers are only told apart as answered or failed. The sweep
has the targets it has yet to come to in `others` and takes a target's queue when it
comes to it (`SweepTurns`). While the team is mounting, a teammate that the sweep has
woken sends the result of its turn to the lead (`MaySend`), so that the message may
be delivered by its send and by the sweep at once; everybody else sends when the
team is published.

**ExecutorLane** keeps the session's log as the four events an input has and how
many events a flush has saved. A pump is a member of `chain`; `PumpRuns` goes
from the choice of an input to the first `await` of its turn (marker, message,
and the first claim of steers); a turn is then its claims and its outcome, with
the flush at its end. The steps' other events are left out of the log. `host`
tells which of the two hosts drives the lane: the CLI submits; the service admits
and asks for one input at a time with `runAdmitted`. A restart keeps any part of
the log from what is saved to what was written. Ghosts: what was submitted, failed
and reported done, and `strayed`, which says that a submission's pump was spent on
an input that brought no pump (a reminder a schedule admitted, or an input left
pending from before a restart) and failed there.

**SessionQueue** extends ExecutorLane with the service and the gateway. Its steps
are `QueueNext`: where the service calls the lane, the lane's action is part of
them (`Admit`, `Ask`, `Cancel`, `CancelCurrent`), and what the lane does on its own is
`LaneStep`, which syncs the rows when the log has changed. The host is the service
and every input has a signal (`QueueInit`). `op`
is the one call behind the gateway's gate, `line` the submissions that have not
settled, `at` what the first of them waits for: its start, the session's assembly
(`Build`, `BuildFails`), or the lane's answer. `Synced` is `queue()`, which reads
the rows out of the inbox and the running input. `CancelRunning` comes beside the
gate. Ghosts: what callers were told is accepted or cancelled, the cancellations
made when no lane was there (`blind`), and the inputs whose submission was dropped.

**Schedule** keeps the log and the fold that every reader makes of it; `folded`
is advanced with each append, made anew from the log after a crash. `Tick` is the
driver's decision with the host's append (`Delivers`) in the same step, as no await
lies between; `Flushed` ends it. A batch goes to the disk as several lines, so a
crash keeps any part of it; `torn` remembers the dispatches whose admission it cut.
The step boundaries of subagents' turns reach the driver of the parent's session,
so that a tick may meet another one; it is then skipped.

**ToolCalls** has the lane of a batch in `pc`: it prepares a call (with its hooks
and its approval), waits for the checkpoint of its marker, for the hooks behind an
answer (`finalize`, `observe`), for a body to settle (`race`) or for all of them
(`drain`), and then fills and ends. `CommitReady` is `commitReady` up to its first
await and is part of each action that calls it. `body` says how far a body really
got, which the log need not know. `Died` cuts the log anywhere behind what is
durable; `RepairTurnTail` is what the next load does with it, and may itself be
followed by a crash. `checkpoint` tells whether the host gives a flush that makes
the markers durable, `proven` whether the log has a marker of an earlier turn.

## 4. Runs

| run | bounds | distinct states | what it shows |
|---|---|---|---|
| `write_behind` | 4 events | 3,982 | the controller keeps its promises under any interleaving, and implements DurableLog |
| `jsonl_store` | 4 events, batches up to 3, 2 crashes, one rare fault | 34,078 | acknowledged events stay readable until a rare fault, and seqs are positional |
| `session_ownership` | 2 processes, 2 operations at a time, 2 events, 1 crash, one `close()` | 159,580 | mutations are under the lease, nothing saved is lost, logs stay loadable, leases return, operations end |
| `team_tasks` | 3 tasks, lead and one teammate, revisions 3/2/1, 2 unsaved events, 1 restart | 388,332 | blockers, deadlock, lost updates, lost answers |
| `team_mailbox` | 3 messages, lead and one teammate, limit 1, 1 restart, or 2 and 2 messages | 1,126,630 | delivery across two logs, the limit, replay |
| `executor_lane` | 2 queued inputs, 1 steer, 1 signal, 1 restart | 583,695 | once, in order, served, honest answers |
| `tool_calls` | 4 calls, the third exclusive, a pool of 2 | 145,970 | answers once, in order, true and complete; a stop is obeyed; a batch ends |
| `session_queue` | 2 queued inputs, or 1 with a steer and 2 restarts | 147,441 | what callers are told is true, the lane gets what it takes for granted |
| `schedule` | 2 reminders, 5 instants, delay 1, interval 2, 1 crash | 204,571 | the log stays foldable, nothing spent without an input, the anchor, delivery |
| `ownership_live_load`, `schedule_torn`, `cancel_queued` | as small as shows it | | the findings of section 7 |

Why the bounds suffice. The actors interfere in pairs: two writers of a file, two
sends, two inputs and a steer, a caller and the board; each instance has a pair
and a third where order matters (a third task closes an indirect cycle, a third
input is overtaken). Four events let a batch fail while events wait before and
behind it. Four calls on a pool of two have a pair that overlaps, an exclusive one
that waits for both, and one behind it that a stop keeps from starting. Five
instants let an interval of two come due twice, the second time late. A second crash
lets recovery itself be interrupted: between the two rewrites of a file, or in the
sweep of a mount. Three messages let the sweep wake the teammate with the first, the
teammate answer with the second, and the sweep come to the lead's queue, where a
delivered third keeps a place for it, while that answer is being delivered; they are
interchangeable until `Init` gives them targets, so the run uses their symmetry
(it checks no liveness). Two queued inputs are enough for one to wait in line behind
another that fails, is cancelled, or takes the assembly down with it; the instance of
`session_queue` (`Bounded`) has either both of them, admitted in one order since they
behave alike, or one with the steer and the restarts. All three inputs with the
restarts pass the safety properties too, but the liveness check of those 741,000
states takes longer than a run should. `team_tasks` and `team_mailbox` are unions in
the same way: of three tasks without looks, and looks with two tasks; of three
messages with one restart, and two with two. The limits (the
mailbox of one message, two unsaved events) are set so that they are reached. In
`team_tasks` the bound on revisions, and in WriteBehind on events, is an ordinary
constant: the proofs hold for any value.

All runs that may stop have deadlock checking off: a session without work is idle,
and the bounded inputs run out.

### Properties

*WriteBehind*: `NothingLostOrReordered` (durable, batch and pending are together what
was enqueued), `NoLostWakeup` (retained events have a timer, a flush, a
continuation, or a recorded reason to wait), `FlushedIsDurable`,
`EventuallyDurable`, `LogSpec`.
*JsonlStore*: `AcknowledgedStaysReadable`, `SeqsArePositional`.
*SessionOwnership*: `LeaseCoversWork`, `SavedStaysSaved`, `LogStaysLoadable`,
`BorrowedLeaseComesBack`, `OperationsEnd`.
*TeamTaskBoard*: `BlockersAreLive`, `NoDependencyDeadlock`, `NoLostUpdate` (an update
is applied to the snapshot its caller saw, unless that look is at a revision a
crash took back, see section 7), `AckedSurvives`.
*TeamMailbox*: `DeliveredIsHeld`, `AnsweredSurvives`, `MailboxBounded`, `LogReplays`.
*ExecutorLane*: `ReadOnce`, `OneLostPerRestart`, `NoOvertaking`, `AnswerIsOwn`,
`DoneIsDurable`, `SubmissionsAreServed`.
*ToolCalls*: `AnsweredOnce`, `InModelOrder`, `NeverRanIsTrue` (a call the model is told
was not run was not run), `EverythingIsAnswered`, `StopIsObeyed`, `BatchEnds`.
*SessionQueue*: `LaneServesOne`, `CancelledStaysCancelled`, `RunningIsShown`,
`AcceptedIsRun` (of queued inputs: a steer is nobody's submission, and one that the
turn ended without claiming waits for the next admission or resume).
*Schedule*: `StreamStaysFoldable`, `DispatchedIsAdmitted`, `KeepsItsAnchor` (the next
occurrence of a fixed rate is the first in step with its creation that lies ahead of
the last accepted one, so that missed ones are skipped and no other is),
`DueReachesModel`.

The runs check what is hard to get right. Some modules state more: the
type invariants (`TypeOK`) of all of them, `AutomaticWritesHeld` and
`FlushSettles` of WriteBehind, `AppendsToCleanTail` of JsonlStore,
`ClosedHoldsNothing` of SessionOwnership, `LeadReadsOnce`, `DeliveredIsOver` and
`SendsEnd` of TeamMailbox, `IdleLaneIsServed` of ExecutorLane, `AcceptedIsKept` of
SessionQueue, `NoBodyDisturbsAnother` of ToolCalls. They hold on the same
instances when added to the configuration; those of them that section 6 names are
proved.

Each is stated in words above its definition. For every property there is a
mutant: an operator defined before the definition it replaces, changed the way a
plausible bug would change the code, under which TLC finds the property violated.

## 5. Fairness

- WriteBehind: the timer, the backend's answer and the queued continuations. A
  timer that is armed fires, `await`ed storage answers or throws, and the event
  loop runs queued microtasks. Calls of the producer are not fair.
  `EventuallyDurable` therefore says what happens once the failures, which pause
  automatic writes, stop.
- SessionOwnership: each process goes on with its running operation. Lock
  acquisition has a deadline, so waiting for a holder ends with a conflict.
- ExecutorLane: pumps are microtasks, and a turn is a bounded number of calls with
  timeouts. Nothing makes users submit, cancel or abort.

- ToolCalls: hooks, approvals and flushes settle, and so does each body, which has
  a deadline (guard-timeout) or obeys the batch's signal. The owner need not stop.
- SessionQueue: the first submission's promises, the assembly (which may fail), the
  calls behind the gate, the lane's pumps and turns. Nobody need admit, resume,
  cancel or stop, and an input left pending by a failed flush waits for someone
  who does: `AcceptedIsRun` is about inputs whose acceptance was answered.
- Schedule: flushes settle, and the session's agent keeps taking steps, at which
  the inbox is claimed and the driver ticks: both have no other occasion. The clock
  need not pass.

TeamTaskBoard and JsonlStore have no liveness properties: their steps are calls
that someone makes or does not make. TeamMailbox's fairness (flushes answer, sends
and the sweep go on, children need not resume) is there for `SendsEnd`.

## 6. Proofs

`WriteBehindProofs`. Assumption: `MaxEventsAssumption` (a natural number). The
invariant is `IInv`: types, `ControlInv` (which of timer, active write,
continuation and barrier go together, which the code's early returns rely on) and
`QueueInv` (the three queues are together what was enqueued, the batch is empty
unless a write is active, and the counts a flush asked for and vouched for are
within them). `NothingLostOrReordered` is not inductive on its own: a new write
takes the place of the batch, so nothing is lost only if none is active, and which
steps can start one while another is active is what `ControlInv` settles. From it follow `TypeCorrect`,
`QueueIsFaithful`, `WakeupIsNeverLost`, `FlushIsHonest`, `AutomaticWritesAreHeld`
and `ImplementsDurableLog`, where every action maps to an acceptance, a storing or a
stutter.

`JsonlStoreProofs`. Assumption: `JsonlAssumption`; logs, batches and crashes are of any
number, and `Faults` is any of its subsets. The two properties are about what a
reader makes of the bytes, which `Committed` defines as the longest prefix of valid
lines; they are not inductive, since whether a failed append can be undone
depends on what it measured, and what a retry writes on the log in memory. `IInv` says
that a fault has happened or the store is `Healthy`: the batch is what the log has
next (`BatchFits`), the size that `append()` measured is the end of what was
acknowledged (`BaseFits`), the file is the same or, inside an append, the same with more of
the same events behind it (`FileFits`), after a crash it is the beginning of a
positional log nobody remembers (`DiskFits`), and after the first rewrite such a log
in whole lines, of which only a closing event at the end may lack its seq (`RepairFits`). Lemma `CommittedIs` replaces the
CHOOSE in `Committed` by the number of whole lines, and `WriteIs` says what a write
leaves that stops anywhere. Theorems: `StoreInvariance`, `AcknowledgedIsDurable`,
`NoSeqRepeats`, `TailsAreClean`.

`TeamTaskBoardProofs`. Assumption: `BoardAssumption`; the number of tasks, callers,
restarts and unsaved events is arbitrary. The invariant is types, `GoodBoards`
(on every board of the log blockers are live and the dependencies have no
cycle), `CallIsOnBoard` (the answer that waits for its flush is on the live
board), `ViewIsOfThePast` (what a caller saw is the live task or older, unless a crash took
it back) and `AckedSurvives`. From `ViewIsOfThePast` an expected revision that is the
live one is of the live snapshot, which is `UpdatesAreSeen`; with the looks a crash
took back it is false (section 7). Acyclicity is stated as: every non-empty set of tasks has a
member that waits for none of the set. New blockers of a task keep it so because
the search that the code makes from them does not come back to the task: of a
set that meets what the search visited, take the member of that part that waits
for none of it, which waits only for visited tasks; of a set that has the task and nothing visited, the
task itself waits for none. This makes the proof independent of paths and of
induction. `NoDependencyDeadlock` follows from it for the set of open tasks. Theorems: `BoardTypeCorrect`, `BlockersStayAlive`,
`OpenTasksGoOn`, `AnswersSurvive`, `UpdatesAreSeen`.

`SessionOwnershipProofs`. Assumptions: `OwnershipAssumption`, and `~LateCalls`
(nothing is called once `close()` has begun, which is how its callers use it).
`LeaseCoversWork` is not inductive: whether the head of a chain has the lease
depends on the chain being served from its head, and `close()` gives up the
system's lock and the entry in `heldLocks` at two different moments. `IInv` is
therefore `Shape`, `QueueInv` (an operation is in one chain at one place, and only a
head works), `CloseInv` (what `close()` still waits for) and `LeaseInv` (the entries
against the system's lock). The proof sorts the ten steps of an operation into
those that join a chain, go on, leave it or die with their process. Theorems:
`LeaseInvariance`, `MutationsAreCovered`, `CloseLeavesNothing`, and
`BorrowedLeasesReturn`, an action property that needs neither the lease nor
`~LateCalls`, only that queued operations have borrowed nothing (`BorrowInv`).

The second part of `SessionOwnershipProofs` goes on to the file. Assumptions: every process
locks, `~LateCalls`, and `~LiveLoads` (load() is not called for a session live in
its own process; `ownership_live_load` shows what happens when it is). The
invariant is `IInv` with `FileInv`: an entry is the event of its place or an end
of turn at an even one (`Sound`), the file begins with what each live session has
saved (`SavedInv`), a live session whose process is not past its `close()` holds
the lease and the file is no longer than what it has saved (`OwnerInv`), the
operation that runs has read the file as it is (`HeadFits`), and no read waits
behind an append of its own chain or finds a live session inside a turn
(`CallsFit`). Lemma `Alone` is why the parts keep each other: while an operation
works nobody else works, and another live session has nothing in its chain. The
append, the load and the loadOwned have a lemma each; all other steps of an
operation are `Quiet`. Theorems: `FileInvariance`, `SavedStays`,
`LogsStayLoadable`.

`TeamMailboxProofs`. Assumption: `MailboxAssumption`; messages, teammates,
restarts and the limit are arbitrary. A restart folds any prefix of the lead's log
from what is on disk, so the half of the invariant that is about the log is
stated for every prefix: no entry is repeated (`EntriesOnce`), an acknowledgement
follows its message (`AcksFollow`), and the limit holds (`RoomInv`). The other half
says what each send and the sweep know at each of their awaits: that the message is
queued (`QueueInv`), is queued on disk (`SyncInv`), is held by its target
(`HeldInv`). Theorems: `MailboxInvariance`, `MailboxTypes`, `AcknowledgedIsOnDisk`,
`AnsweredIsQueued`, `QueuesStayBounded`, `EveryPrefixReplays`, `LeadReadsEachOnce`, and
`AcknowledgedIsOver`, the action property `DeliveredIsOver`: no step adds a copy of a
message that is acknowledged. For the lead the look at its log decides. For a
teammate nothing looks, and it rests on who may be at a message at one time
(`OverInv`): what the sweep has in its list for a teammate has a send that ended,
since only the sweep of a mount takes such a snapshot, the restart before it ended
the sends that ran, and nothing is sent to a teammate until it is over; so a send
and the sweep are never at it together (`OneIsAt`), and who is at a message before
its acknowledgement is the one who will make it.

`ExecutorLaneProofs`. Assumption: `LaneAssumption`; the number of inputs, which of
them are steers or have a signal, and the number of pumps and restarts are
arbitrary. The inbox is the log read anew, so most of the invariant is about the
log, and it is stated for any log so that each prefix has it, from any of which a
restart may go on: `GoodLog` says of each entry what comes before it (`Orderly`) and
that no queued input of the CLI was read before one that waited longer
(`Overtakes`). The log grows in three ways, with a lemma each (`AdmissionGrows`,
`CancellationsGrow`, `ReadingGrows`), and a pump that runs does the second and the third
in one step. `Lost` counts the inputs taken and not read: only a restart adds one,
the one it cuts off between marker and message (`PrefixIsGood`). `Pumps` says whom a
pump was asked for and that this input waits or was withdrawn until it runs; `Turns`
says what a running, failed or saved turn has put in the log; `AnswerIsOwn` and
`DoneIsDurable` are inductive with these. For the idle lane `Served` compares the
submissions that wait or run with the pumps of the chain. The module writes its
filters with the recursive function `Among`, since the provers cannot expand
`SelectSeq`; what it keeps of a sequence (`AmongPlaces`) is proved by induction on the
length. The library's theorem for that takes an operator as parameter; `SetInduction`
has the form the provers can use, with a set of numbers in its place, and follows
from the well-foundedness of the naturals. Theorems:
`LaneInvariance`, `TypeCorrect`, `InputsAreReadOnce`, `RestartsLoseOneEach`,
`QueuedKeepTheirOrder`, `AnswersAreOwn`, `ReportedIsDurable`, `IdleLanesAreServed`.

The second part of `ExecutorLaneProofs` is about SessionQueue, for any number of
submissions in line, calls, failures and restarts. Theorem `QueueDrivesLane` says that
each of its steps is a step of ExecutorLane as the service drives it, or a save of
the log, or leaves the lane alone; in particular an input is asked for only when
the lane is idle, which `RunAdmitted` takes for granted. This needs the invariant
`QueueInv` of both: the lane's own (`Inv`), that the lane's only pump is for the first in
line, whose promise is waited for and whose row says whether it waits or runs
(`Serving`), that a row which waits was admitted and is not taken (`RowsTell`), that the
call behind the gate has done what its step says (`CallFits`), and that what callers
were told is on disk (`Promised`). `SyncedFacts` says what `queue()` makes of the rows; a
step that is no restart only adds to the log (`Continues`), and what does not concern
the rows is `QuietStep`. Theorems: `QueueInvariance`, `QueueDrivesLane`, `LaneIsServedOne`,
`RunningIsAlwaysShown`, `CancelledStays`, `AcceptedStays`, and `QueuedInputsAreReadOnce`, which
carries the lane's promises over to the lane that the queue drives.

`ScheduleProofs`. Assumption: `ScheduleAssumption`; the reminders, the instants, the
delays, the interval and the crashes are arbitrary. A crash goes on from any part of
the log that was not saved, so the invariant is about every prefix of the log
(`AllSound`): its fold is not corrupt (`IsState`), each fixed-rate reminder is a whole
number of intervals behind its creation (`Anchored`), ahead of all its dispatches
(`Passed`) and of one of them by at most an interval (`SkipsNone`), and the name of each admission
is one that no later dispatch can give (`Named`): a one-shot's id is spent, and the
fixed-rate reminders all lie ahead of the instant that a batch is named by. This is why an
admission is never refused and a dispatch never stays without one. `FoldJoin` says
that a fold goes on where it stopped, `FoldAllowed` that an event a session may append
keeps the state, and `BatchSound` that a tick may append its dispatches one after
the other because they are of different reminders, which `Ranked` says of the order
that `decideDue` sorts them in. The module sorts by rank and filters with `Among`, since the
provers cannot expand the sorting and filtering operators of the community modules.
Theorems: `ScheduleInvariance`, `ScheduleTypes`, `StreamsStayFoldable`,
`DispatchesAreAdmitted`, `AnchorsAreKept`.

`ToolCallsProofs`. Assumption: `ToolCallsAssumption`; the number of calls, which of
them are exclusive, and the size of the pool are arbitrary. What the answers say is
not inductive: the cursor goes over slots that were filled by bodies, by refusals
and by the endings. `IInv` has `PoolInv` (who is in the pool, who may join), `SlotInv`
(what a slot has to do with its body), `Answered` (the log up to the cursor says
what the slots say, in order, and nothing behind it is answered), `LaneInv` (where
the lane stands; a started call that no slot answers has a stop to blame, and only
the last prepared call can be neither started nor answered), and `MarkInv` (when
the host saves its markers, each body that was handed over has one on disk), which
alone survives a crash. Two lemmas do the work: `CommitLog`, that `commitReady`
moves the cursor and keeps `Answered`, and `ListedAnswers`, about answers appended
behind a log, which the fills and the repair share. Theorems: `BatchInvariance`,
`CallTypes`, `NoneIsAnsweredTwice`, `AnswersKeepOrder`, `ToldNotRunIsTrue`,
`NoneIsLeftOpen`, `BodiesKeepApart`, `StopsAreObeyed`.

Only model-checked: all liveness properties (`EventuallyDurable`, `OperationsEnd`,
`SubmissionsAreServed`, `AcceptedIsRun`, `DueReachesModel`, `BatchEnds`), since the prover
does no reasoning about fairness; the type invariants of JsonlStore and SessionOwnership;
and the violation runs. The type invariants of the other modules are proved, that of
SessionQueue as a part of `QueueInv`.

## 7. Findings and known limits of the code

Three runs end in a violation. Each checks one sentence of the repository against
what the code does; `PROJECT.json` quotes the sentence.

- `ownership_live_load`: loading a session that is live in the same process, as
  forking does, writes a closing event into the middle of its log, which the next
  owner refuses.
- `cancel_queued`: an input cancelled while its session is assembled is only
  dropped from the service's queue; its caller is told that it is cancelled, but it
  stays pending in the inbox, and the next resume runs it.
- `schedule_torn`: a crash during the write of a due reminder's batch can keep its
  dispatch and tear its admission; the reminder is spent and never shown.

Five more disagreements are stated in the modules as properties that TLC refutes,
and are not runs of their own.

- `EnqueueAfterCloseWorks` (WriteBehind): an event enqueued between this session's
  flush and the end of `close()` loses its timer, and later events on that session
  are stranded too.
- `AcknowledgedIsReadable` (JsonlStore, with the fault "unterminated"): a crash that
  cuts the file exactly before its last newline leaves a valid record without one;
  recovery keeps the bytes and the next append continues that line, so that every
  later event is unreadable.
- `ListingNeverWrites` (SessionOwnership, with a process that does not lock): the
  CLI's session listing, "read-only", repairs and so rewrites the file of a session
  that is live in another process.
- `UpdatesWhatWasSeen` (TeamTaskBoard): a task is created and saved, a teammate's
  claim makes revision 2, not yet saved, the teammate looks at the task
  (`task-board.ts:95-100` answers from the live state), and the process dies. The
  board comes back at revision 1, and the teammate with its log, which has the look.
  The lead releases the task, which makes another revision 2. An update of the
  teammate that expects revision 2 now passes the comparison (`task-board.ts:147`)
  over a snapshot it never saw. `NoLostUpdate` leaves out these looks only.
- `ResumedChildGetsItsMail` (TeamMailbox): a message queued for a teammate without a
  live child stays queued when the child is resumed; only mounting the team sweeps.

Met while modelling and not among the runs. In JsonlStore, when `stat`
fails before the write, the length to roll back to is still 0 and the rollback
empties the file; a write that reports fewer bytes than it was given is taken for
a whole one; and when the rollback's `truncate` fails, which the code ignores,
the retry is appended behind what the failed write left. These need a file
system that fails in rare ways, and the invariant is stated up to the first such fault.
In ExecutorLane, an input that a schedule admits brings no pump; if its turn fails
in a pump that a submission brought, that submission waits for the next one
(`strayed`). In the service, `closeSession` awaits the chain of submissions, and
the next submission of that chain waits in `getOrCreate` for the close to finish:
it deadlocks unless its caller ends the submissions first, as the hosts of the
repository do (`packages/acp/src/index.ts:180`).

## 8. What the models leave out

WriteBehind: the length of the delay, and the report of a failed background write. JsonlStore:
creation, metadata, listing, documents and deletion receipts. SessionOwnership:
create, updateMeta, snapshot, deletion and migration; operations called after
`close()` has begun (`LateCalls` is FALSE in the runs). TeamTaskBoard: subject, description and write scopes, which are
text. TeamMailbox: the followup turn a wakeup starts; a team without child
sessions; which error a failed send reports; sends that a mount which failed left
running beside a second mount in the same process; quiet messages to a child that is
restored are skipped by the sweep after mounting, and so are no part of the
run's `Quiet`, which is empty. ExecutorLane: the events of turns and steps, the validation of an
admission, the registry of executors and `drain`, which changes no state; images,
client tokens and what the model answers. SessionQueue: direct
prompts of the SDK, admissions that do not start their input, the rows the service
adopts from a lane, system notifications, and the closing of a session and of the
gateway. Schedule: the calendar arithmetic of `at` (an instant here), a clock that
is set back, and the log a forked session inherits. ToolCalls: the arguments and
outputs of tools, the retries inside a body, and the events of a step other than
its calls, markers and results.
