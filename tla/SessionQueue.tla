----------------------------- MODULE SessionQueue -----------------------------
(***************************************************************************)
(* The inputs of one session on the desktop.  The gateway admits, cancels  *)
(* and resumes them behind a gate that serves one call at a time; each     *)
(* input it starts becomes a submission of the session service, which      *)
(* paces its submissions: the first in line waits for the session to be    *)
(* assembled and asks the lane of ExecutorLane for its turn, and the next  *)
(* one starts when its promise has settled.  Beside the gate the user may  *)
(* stop whatever runs.                                                     *)
(*                                                                         *)
(* The service keeps a row for each submission.  What the user sees, and   *)
(* what a cancellation may do, is read from the rows, which are brought up *)
(* to date with the inbox whenever it changes.                             *)
(*                                                                         *)
(* A raw steer that finds nothing running is admitted as a queued input:   *)
(* the model takes another input for it.                                   *)
(***************************************************************************)
EXTENDS ExecutorLane

VARIABLES
    assembled, \* the session has an assembly, a lane and a subscription to its log
    line,      \* the submissions that have not settled, paced in this order
    at,        \* what the first of them waits for
    row,       \* [Input -> the state of its row]
    dropped,   \* the submissions whose controller is aborted
    \* the gateway
    op,        \* the call behind the gate
    \* ghosts
    accepted,  \* the inputs a caller was told are accepted
    told,      \* the inputs a caller was told are cancelled
    blind,     \* those of them that were cancelled when no lane was there
    released   \* the inputs whose last submission was dropped, or died with its session

service == <<assembled, line, at, row, dropped>>
ghosts == <<accepted, told, blind, released>>
queueVars == <<vars, service, op, ghosts>>

Call(kind, i, step) == [kind |-> kind, input |-> i, step |-> step, ok |-> FALSE]
NoCall == Call("none", NoInput, "none")

QueueInit ==
    /\ Init
    /\ host = "service"
    /\ Signalled = Input \* each with the signal of its submission's controller
    /\ assembled = FALSE
    /\ line = <<>>
    /\ at = "start"
    /\ row = [i \in Input |-> "none"]
    /\ dropped = {}
    /\ op = NoCall
    /\ accepted = {}
    /\ told = {}
    /\ blind = {}
    /\ released = {}

-----------------------------------------------------------------------------
(* The rows. *)

(* queue() in the state a step leads to: `rows` brought up to date.  A       *)
(* submission whose turn has ended keeps its row until it settles.           *)
(* mutant: the running input is not looked at first *)
PendingFirst(rows) ==
    LET waiting == ToSet(Pending)'
    IN  [i \in Input |-> IF rows[i] \in {"none", "cancelled"} \/ ~assembled' THEN rows[i]
                         ELSE IF i \in waiting THEN "queued"
                         ELSE IF rows[i] \in {"wait", "running"} THEN rows[i]
                         ELSE "none"]
Synced(rows) ==
    LET waiting == ToSet(Pending)'
    IN  [i \in Input |-> IF rows[i] \in {"none", "cancelled"} \/ ~assembled' THEN rows[i]
                         ELSE IF i = current' THEN "running"
                         ELSE IF i \in waiting THEN "queued"
                         ELSE IF rows[i] \in {"wait", "running"} THEN rows[i]
                         ELSE "none"]

Running == \E i \in Input : row[i] = "running"

(* The inputs are submitted, but for those that are in line already.        *)
Submits(inputs) ==
    LET new == Among(inputs, Input \ ToSet(line))
    IN  /\ line' = line \o new
        /\ row' = Synced([i \in Input |-> IF i \in ToSet(new) THEN "wait" ELSE row[i]])
        /\ released' = released \ ToSet(new)

(* schedulePending: a pending steer is left to the turn that runs.          *)
SchedulesPending ==
    Submits(Among(Pending, IF Running THEN Input \ Steer ELSE Input))

-----------------------------------------------------------------------------
(* The pacing of the submissions. *)

Foremost == Head(line)

(* The first submission settles and its row goes; the one behind it starts, *)
(* whatever became of this one.                                             *)
Settles ==
    /\ UNCHANGED <<vars, assembled, op, accepted, told, blind>>
    /\ line' = Tail(line)
    /\ at' = "start"
    /\ dropped' = dropped \ {Foremost}
    /\ row' = Synced([row EXCEPT ![Foremost] = "none"])

Ready(step) == line # <<>> /\ at = step
Unrun == Foremost \in dropped \/ ~IsPending(Foremost)

StartTurn ==
    /\ Ready("start")
    /\ IF Foremost \in dropped THEN Settles /\ released' = released \cup {Foremost}
       ELSE /\ at' = "build"
            /\ UNCHANGED <<vars, assembled, line, row, dropped, op, ghosts>>

Awaited == Ready("build") \/ op.step = "assembly"

Build ==
    /\ Awaited
    /\ ~assembled
    /\ assembled' = TRUE
    /\ UNCHANGED <<vars, line, at, row, dropped, op, ghosts>>

(* Those who wait for the assembly are told that there is none.             *)
BuildFails ==
    /\ Awaited
    /\ ~assembled
    /\ op' = IF op.step = "assembly" THEN NoCall ELSE op
    /\ IF Ready("build")
       THEN /\ line' = Tail(line)
            /\ at' = "start"
            /\ dropped' = dropped \ {Foremost}
            /\ row' = [row EXCEPT ![Foremost] = "none"]
            /\ released' = released \cup {Foremost}
       ELSE UNCHANGED <<line, at, dropped, row, released>>
    /\ UNCHANGED <<vars, assembled, accepted, told, blind>>

AskLane ==
    /\ Ready("build")
    /\ assembled
    /\ IF Unrun
       THEN Settles /\ released' = released \cup ({Foremost} \cap dropped)
       ELSE /\ Ask(Foremost)
            /\ at' = "lane"
            /\ row' = [row EXCEPT ![Foremost] = "queued"]
            /\ UNCHANGED <<assembled, line, dropped, op, ghosts>>

(* The lane has answered, and what the host does after a turn is done.      *)
(* mutant: the answer is not waited for *)
SettlesUnanswered == Ready("lane") /\ Settles /\ UNCHANGED released
(* mutant: a submission that was rejected lets none behind it start *)
WaitsForSuccess ==
    /\ Ready("lane")
    /\ answer[Foremost] = "resolved"
    /\ Settles
    /\ UNCHANGED released
LaneAnswers ==
    /\ Ready("lane")
    /\ answer[Foremost] \in {"resolved", "rejected"}
    /\ Settles
    /\ UNCHANGED released

-----------------------------------------------------------------------------
(* What the lane does.  Each event syncs the rows: the first one finds the  *)
(* inputs that the step claims behind it still pending.                     *)

Noticed == [i \in Input |-> IF row[i] = "wait" /\ IsPending(i) THEN "queued" ELSE row[i]]

LaneStep ==
    /\ UNCHANGED <<assembled, line, at, dropped, op, ghosts>>
    /\ assembled
    /\ Pump \/ Turn \/ StepClaims
    /\ row' = IF log' # log THEN Synced(Noticed) ELSE row

-----------------------------------------------------------------------------
(* The gateway's calls. *)

Begins(call) == op = NoCall /\ op' = call /\ UNCHANGED <<vars, service, ghosts>>
Ends == op' = NoCall

(* What is in the log up to the event has been saved.                       *)
SavedUpTo(event) ==
    LET n == CHOOSE m \in DOMAIN log : log[m] = event
    IN  durable' = IF n > durable THEN n ELSE durable
OnlySaves ==
    UNCHANGED <<host, log, chain, current, phase, signals, aborted, stop, lastError, halted,
                answer, restarts, submitted, failed, done, strayed>>

BeginAdmit == Begins(Call("admit", NoInput, "assembly"))

AdmitInput ==
    /\ UNCHANGED <<assembled, line, at, dropped, ghosts>>
    /\ op.kind = "admit" /\ op.step = "assembly"
    /\ assembled
    /\ \E i \in Input :
          /\ i \in Steer => Running
          /\ Admit(i)
          /\ op' = Call("admit", i, "flush")
          /\ row' = Synced(row)

(* The client retries an admission: its input is found by its token.        *)
BeginRetry(i) == Has("admitted", i) /\ Begins(Call("retry", i, "flush"))

(* The admission is saved and acknowledged, and the pending inputs start.   *)
Acknowledges ==
    /\ UNCHANGED <<assembled, at, dropped, told, blind>>
    /\ op.kind \in {"admit", "retry"} /\ op.step = "flush"
    /\ SavedUpTo(Event("admitted", op.input)) /\ OnlySaves
    /\ accepted' = accepted \cup {op.input}
    /\ IF op.input \in Steer THEN UNCHANGED <<line, row, released>> ELSE SchedulesPending
    /\ Ends

BeginResume == Begins(Call("resume", NoInput, "assembly"))

Resumes ==
    /\ UNCHANGED <<vars, assembled, at, dropped, accepted, told, blind>>
    /\ op.kind = "resume"
    /\ assembled
    /\ Submits(Pending)
    /\ Ends

(* cancelQueued withdraws a submission that does not run: its controller is *)
(* aborted, which keeps it from the lane, and the lane cancels its input.   *)
(* An input without a row is left to the inbox, one wait later.             *)
CancelQueued(i) ==
    /\ UNCHANGED <<assembled, line, at, accepted, told, released>>
    /\ op = NoCall
    /\ IF i # current /\ row[i] \in {"wait", "queued"}
       THEN /\ dropped' = dropped \cup {i}
            /\ IF assembled /\ IsPending(i) THEN Cancel(i) ELSE UNCHANGED vars
            /\ row' = Synced([row EXCEPT ![i] = "cancelled"])
            /\ blind' = IF assembled THEN blind ELSE blind \cup {i}
            /\ op' = [Call("cancel", i, "flush") EXCEPT !.ok = TRUE]
       ELSE /\ op' = Call("cancel", i, "inbox")
            /\ UNCHANGED <<vars, row, dropped, blind>>

CancelInbox ==
    /\ UNCHANGED <<assembled, line, at, dropped, ghosts>>
    /\ op.step = "inbox"
    /\ IF IsPending(op.input) THEN Cancel(op.input) ELSE UNCHANGED vars
    /\ op' = [op EXCEPT !.step = "flush", !.ok = IsPending(op.input)]
    /\ row' = Synced(row)

(* mutant: the caller is told before the cancellation is saved *)
AnswersUnsaved ==
    /\ op.kind = "cancel" /\ op.step = "flush"
    /\ told' = IF op.ok THEN told \cup {op.input} ELSE told
    /\ Ends
    /\ UNCHANGED <<vars, service, accepted, blind, released>>
CancelAnswers ==
    /\ op.kind = "cancel" /\ op.step = "flush"
    /\ IF Has("cancelled", op.input)
       THEN SavedUpTo(Event("cancelled", op.input)) /\ OnlySaves
       ELSE UNCHANGED vars
    /\ told' = IF op.ok THEN told \cup {op.input} ELSE told
    /\ Ends
    /\ UNCHANGED <<service, accepted, blind, released>>

FlushFails == op.step = "flush" /\ Ends /\ UNCHANGED <<vars, service, ghosts>>

-----------------------------------------------------------------------------
(* Stop, and the process that dies. *)

(* cancelRunning: the running turn is told to stop; when there is none, the *)
(* first submission that has not reached the lane is dropped.               *)
CancelRunning ==
    /\ UNCHANGED <<assembled, line, at, op, accepted, told, blind>>
    /\ IF current # NoInput
       THEN CancelCurrent /\ UNCHANGED <<row, dropped, released>>
       ELSE LET waiting == Among(line, {i \in Input : row[i] = "wait" /\ i \notin dropped})
            IN  /\ waiting # <<>>
                /\ UNCHANGED <<vars, released>>
                /\ dropped' = dropped \cup {Head(waiting)}
                /\ row' = Synced([row EXCEPT ![Head(waiting)] = "cancelled"])

QueueRestart ==
    /\ Restart
    /\ assembled' = FALSE
    /\ line' = <<>>
    /\ at' = "start"
    /\ row' = [i \in Input |-> "none"]
    /\ dropped' = {}
    /\ op' = NoCall
    /\ released' = Input
    /\ UNCHANGED <<accepted, told, blind>>

Paces == StartTurn \/ AskLane \/ LaneAnswers
Assembles == Build \/ BuildFails
Proceeds == AdmitInput \/ Acknowledges \/ Resumes \/ CancelInbox \/ CancelAnswers \/ FlushFails
Works == LaneStep /\ (Pump \/ Turn)

QueueNext ==
    \/ Paces
    \/ Assembles
    \/ LaneStep
    \/ Proceeds
    \/ BeginAdmit \/ BeginResume
    \/ \E i \in Input : BeginRetry(i) \/ CancelQueued(i)
    \/ CancelRunning
    \/ QueueRestart

(* Promises settle: those of the assembly, of the lane, whose pump and turn *)
(* are as fair as ExecutorLane says, and of the store.                      *)
QueueFairness == WF_queueVars(Paces) /\ WF_queueVars(Assembles) /\ WF_queueVars(Works) /\ WF_queueVars(Proceeds)
QueueSpec == QueueInit /\ [][QueueNext]_queueVars /\ QueueFairness

-----------------------------------------------------------------------------
(* Properties. *)

QueueTypeOK ==
    /\ assembled \in BOOLEAN
    /\ line \in Seq(Input)
    /\ at \in {"start", "build", "lane"}
    /\ row \in [Input -> {"none", "wait", "queued", "running", "cancelled"}]
    /\ op.input \in Input \cup {NoInput}
    /\ dropped \cup accepted \cup told \cup blind \cup released \subseteq Input

(* The lane is asked for one input at a time, although its promise settles  *)
(* before the submission does and any number may be in line: what           *)
(* ExecutorLane takes for granted (service.ts:848, prev.then).              *)
LaneServesOne == Len(chain) <= 1

(* An acknowledged admission survives every restart, also one whose first   *)
(* flush failed and that a retry found in the live log (input.ts:54).       *)
AcceptedIsKept == \A i \in accepted : Has("admitted", i)

(* An input that a caller was told is cancelled never reaches the model,    *)
(* now or after a restart, when the session had its lane                    *)
(* (input.ts:143, service.ts:937).                                          *)
CancelledStaysCancelled == \A i \in told \ blind : ~Has("promoted", i)

(* The same of every input a caller was told is cancelled: "A canceled      *)
(* admission grants no delivery" (input.ts:104).                            *)
CancelledIsNotRun == \A i \in told : ~Has("promoted", i)

(* The rows know of a running turn for as long as it runs, whatever was     *)
(* cancelled and settled around it: a steer is admitted by what they say,   *)
(* and a stop must not find the row of the turn for a queued one            *)
(* (service.ts:895, 942).                                                   *)
RunningIsShown == current # NoInput => row[current] = "running"

(* An accepted queued input is run or withdrawn in the end, whatever        *)
(* becomes of those in front of it, unless it was stopped or its session    *)
(* did not start (service.ts:848, input.ts:48).  A steer is nobody's        *)
(* submission: one that the turn ended without claiming stays pending until *)
(* an admission or a resume finds nothing running.                          *)
AcceptedIsRun ==
    \A i \in Input \ Steer :
        i \in accepted /\ IsPending(i) ~> ~IsPending(i) \/ i \in released

=============================================================================
