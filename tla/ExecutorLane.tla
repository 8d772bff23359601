----------------------------- MODULE ExecutorLane -----------------------------
(***************************************************************************)
(* One session's turns.  Inputs are admitted to an inbox that is nothing   *)
(* but a projection of the session's log; a serial lane of pumps promotes  *)
(* them one after the other and runs a turn for each; a running turn       *)
(* claims the steers it finds at each of its step boundaries.              *)
(*                                                                         *)
(* Two hosts drive the lane.  The CLI submits: each submission admits its  *)
(* input and adds a pump that runs whatever is pending.  The service       *)
(* admits, and asks for one input at a time with runAdmitted.              *)
(*                                                                         *)
(* The log holds the events the inbox reads and the user messages of its   *)
(* inputs.  The first of them are on disk: those a flush waited for, and   *)
(* any more that the write-behind got to before the process died.          *)
(***************************************************************************)
EXTENDS Naturals, Sequences, FiniteSets, SequencesExt

CONSTANTS
    Input,      \* inputs, each admitted once: their ids are never used again
    Steer,      \* the inputs with delivery "steer", the others are "queue"
    Signalled,  \* the inputs handed over with an AbortSignal
    First,      \* what a pump without onlyId asks for: the first pending input
    NoInput,
    MaxRestarts \* bound: restarts

ASSUME LaneAssumption ==
    /\ Steer \subseteq Input
    /\ Signalled \subseteq Input
    /\ First \notin Input
    /\ NoInput \notin Input \cup {First}
    /\ MaxRestarts \in Nat

VARIABLES
    host,      \* "cli" or "service"
    log,       \* the session's events
    durable,   \* how many of them a flush has saved
    chain,     \* the pumps not yet ended, the first one is active
    current,   \* the input whose turn runs
    phase,     \* of that turn: its steps, or its last flush and what it reports
    signals,   \* turnSignals: the inputs whose signal waits for their turn
    aborted,   \* the inputs whose signal was aborted
    stop,      \* the running turn was told to stop
    lastError, \* the last turn to end failed
    halted,    \* the lane was disposed of or the host's signal aborted
    answer,    \* [Input -> answer] what the promise of runAdmitted told
    restarts,
    \* ghosts
    submitted, \* the inputs submitted since the last restart
    failed,    \* the inputs asked for whose turn failed since the last restart
    done,      \* the inputs whose turn was reported to have succeeded
    strayed    \* a submission's pump was ended by an input that had none: a
               \* reminder's, or one that was pending before a restart

vars == <<host, log, durable, chain, current, phase, signals, aborted, stop, lastError,
          halted, answer, restarts, submitted, failed, done, strayed>>
memory == <<chain, current, phase, signals, aborted, stop, lastError, halted, answer,
            submitted, failed, strayed>>

Event(kind, i) == [kind |-> kind, input |-> i]
Has(kind, i) == \E n \in DOMAIN log : log[n] = Event(kind, i)
Precedes(e, f) == \E n \in DOMAIN log : log[n] = f /\ \E m \in 1..n - 1 : log[m] = e
Mark(kind, inputs) == [n \in DOMAIN inputs |-> Event(kind, inputs[n])]

(* mutant: a steer is marked and never shown to the model *)
ReadsNothing(inputs) == Mark("promoted", inputs)

(* Each input's promoted marker, followed by its message. *)
Read(inputs) ==
    [n \in 1..2 * Len(inputs) |->
        Event(IF n % 2 = 1 THEN "promoted" ELSE "message", inputs[(n + 1) \div 2])]

(* The members of S in a sequence, in its order. *)
Among(seq, S) ==
    LET kept[n \in 0..Len(seq)] ==
            IF n = 0 THEN <<>>
            ELSE IF seq[n] \in S THEN Append(kept[n - 1], seq[n]) ELSE kept[n - 1]
    IN  kept[Len(seq)]

Idle == [at |-> "none", target |-> 0, ok |-> TRUE]
Steps == [Idle EXCEPT !.at = "steps"]
Saving(events, ok) == [at |-> "saving", target |-> Len(events), ok |-> ok]

-----------------------------------------------------------------------------
(* The inbox. *)

(* mutant: a cancelled input is taken for pending *)
ConsumedByTurns == {log[n].input : n \in {m \in DOMAIN log : log[m].kind = "promoted"}}
Consumed == {log[n].input : n \in {m \in DOMAIN log : log[m].kind \in {"promoted", "cancelled"}}}
Admissions ==
    [n \in DOMAIN log |-> IF log[n].kind = "admitted" THEN log[n].input ELSE NoInput]
Pending == Among(Admissions, Input \ Consumed)
IsPending(i) == Has("admitted", i) /\ i \notin Consumed
Steers(inputs) == Among(inputs, Steer)

(* The queue a pump looks at, and the aborted inputs it cancels before it   *)
(* comes to one it can run.                                                 *)
CutOff(i) == i \in signals \cap aborted
Dropped(queue) ==
    LET runnable == {n \in DOMAIN queue : ~CutOff(queue[n])}
    IN  IF Head(chain) # First THEN <<>>
        ELSE SubSeq(queue, 1, IF runnable = {} THEN Len(queue)
                              ELSE (CHOOSE n \in runnable : \A m \in runnable : n <= m) - 1)
(* mutant: the pump takes the last pending input *)
LatestFirst(queue) == IF Head(chain) = First THEN Reverse(queue) ELSE <<Head(chain)>>
Chosen(queue) ==
    IF Head(chain) = First THEN SubSeq(queue, Len(Dropped(queue)) + 1, Len(queue))
    ELSE Among(queue, {i \in {Head(chain)} : ~CutOff(i)})

Init ==
    /\ host \in {"cli", "service"}
    /\ log = <<>>
    /\ durable = 0
    /\ chain = <<>>
    /\ current = NoInput
    /\ phase = Idle
    /\ signals = {}
    /\ aborted = {}
    /\ stop = FALSE
    /\ lastError = FALSE
    /\ halted = FALSE
    /\ answer = [i \in Input |-> "none"]
    /\ restarts = 0
    /\ submitted = {}
    /\ failed = {}
    /\ done = {}
    /\ strayed = FALSE

-----------------------------------------------------------------------------
(* What the host calls. *)

Push(asked) == chain' = Append(chain, asked)
Hand(i) == signals' = signals \cup ({i} \cap Signalled)

Submit(i) ==
    /\ host = "cli"
    /\ ~Has("admitted", i)
    /\ log' = Append(log, Event("admitted", i))
    /\ Hand(i)
    /\ Push(First)
    /\ submitted' = submitted \cup {i}
    /\ UNCHANGED <<host, durable, current, phase, aborted, stop, lastError, halted, answer,
                   restarts, failed, done, strayed>>

(* The service admits every input this way; a schedule admits its reminder  *)
(* to the inbox of either host and wakes nobody.                            *)
Admit(i) ==
    /\ host = "service" \/ i \in Steer
    /\ ~Has("admitted", i)
    /\ log' = Append(log, Event("admitted", i))
    /\ UNCHANGED <<host, durable, memory, restarts, done>>

(* runAdmitted rejects an input that is no longer pending.  A new call brings *)
(* a new signal.                                                             *)
Ask(i) ==
    /\ host = "service"
    /\ IsPending(i)
    /\ Hand(i)
    /\ aborted' = aborted \ {i}
    /\ Push(i)
    /\ answer' = [answer EXCEPT ![i] = "waiting"]
    /\ UNCHANGED <<host, log, durable, current, phase, stop, lastError, halted, restarts,
                   submitted, failed, done, strayed>>

(* The service starts a turn when the one before it has settled              *)
(* (SessionQueue discharges this).                                           *)
RunAdmitted(i) == chain = <<>> /\ Ask(i)

Cancel(i) ==
    /\ IsPending(i)
    /\ log' = Append(log, Event("cancelled", i))
    /\ UNCHANGED <<host, durable, memory, restarts, done>>

(* cancelCurrent, or the caller aborts the signal of the running input.  A   *)
(* turn that is being saved looks at its signal no more.                     *)
CancelCurrent ==
    /\ phase.at = "steps"
    /\ stop' = TRUE
    /\ UNCHANGED <<host, log, durable, chain, current, phase, signals, aborted, lastError,
                   halted, answer, restarts, submitted, failed, done, strayed>>

(* The caller aborts a signal that waits in turnSignals. *)
AbortWaiting(i) ==
    /\ i \in signals \ aborted
    /\ aborted' = aborted \cup {i}
    /\ UNCHANGED <<host, log, durable, chain, current, phase, signals, stop, lastError,
                   halted, answer, restarts, submitted, failed, done, strayed>>

(* dispose(), or the signal the CLI made the lane with: it also stops a      *)
(* running turn that has no signal of its own.                               *)
Halt ==
    /\ host = "cli"
    /\ ~halted
    /\ halted' = TRUE
    /\ \/ UNCHANGED stop
       \/ stop' = (stop \/ (phase.at = "steps" /\ current \notin submitted \cap Signalled))
    /\ UNCHANGED <<host, log, durable, chain, current, phase, signals, aborted, lastError,
                   answer, restarts, submitted, failed, done, strayed>>

-----------------------------------------------------------------------------
(* The pump and its turns. *)

(* The pumps behind one that ended, also behind one whose turn failed.       *)
(* mutant: a pump that ends ends the whole chain *)
BehindNone == <<>>
Behind == Tail(chain)
(* mutant: a success does not clear the error of an earlier turn *)
RememberedForEver(ok) == lastError \/ ~ok
Remembered(ok) == ~ok

Answered(error) ==
    answer' = IF Head(chain) = First THEN answer
              ELSE [answer EXCEPT ![Head(chain)] = IF error THEN "rejected" ELSE "resolved"]

(* Nothing to run: the pump ends and the promise of its runAdmitted settles. *)
PumpEnds ==
    /\ chain # <<>>
    /\ current = NoInput
    /\ \E queue \in {Pending} :
           \/ halted /\ UNCHANGED <<log, signals>>
           \/ /\ ~halted
              /\ Chosen(queue) = <<>>
              /\ log' = log \o Mark("cancelled", Dropped(queue))
              /\ signals' = signals \ (ToSet(Dropped(queue))
                                          \cup (aborted \cap {Head(chain)} \cap ToSet(queue)))
    /\ Answered(lastError)
    /\ chain' = Behind
    /\ UNCHANGED <<host, durable, current, phase, aborted, stop, lastError, halted, restarts,
                   submitted, failed, done, strayed>>

(* The pump promotes an input and runs it: up to its first await the turn    *)
(* appends its message and claims the steers, unless the agent is out of     *)
(* steps and the turn fails at once.                                         *)
PumpRuns ==
    /\ chain # <<>>
    /\ current = NoInput
    /\ ~halted
    /\ \E queue \in {Pending} :
           LET dropped == Dropped(queue)
               next == Head(Chosen(queue))
               rest == Among(queue, Input \ ({next} \cup ToSet(dropped)))
               opening == log \o Mark("cancelled", dropped) \o Read(<<next>>)
           IN  /\ Chosen(queue) # <<>>
               /\ current' = next
               /\ signals' = signals \ (ToSet(dropped) \cup {next})
               /\ \/ /\ log' = opening \o Read(Steers(rest))
                     /\ phase' = Steps
                  \/ /\ log' = opening
                     /\ phase' = Saving(opening, FALSE)
    /\ UNCHANGED <<host, durable, chain, aborted, stop, lastError, halted, answer,
                   restarts, submitted, failed, done, strayed>>

StepClaims ==
    /\ phase.at = "steps"
    /\ ~stop
    /\ \E i \in Steer : IsPending(i)
    /\ log' = log \o Read(Steers(Pending))
    /\ UNCHANGED <<host, durable, memory, restarts, done>>

(* The turn ends, for whatever reason, and its events are flushed.  One that *)
(* is told to stop after its last look at the signal still succeeds.         *)
TurnCloses ==
    /\ phase.at = "steps"
    /\ \E ok \in BOOLEAN : phase' = Saving(log, ok)
    /\ UNCHANGED <<host, log, durable, chain, current, signals, aborted, stop, lastError,
                   halted, answer, restarts, submitted, failed, done, strayed>>

(* The turn's promise settles and the pump goes on, or ends after a failure  *)
(* or after the one input it was asked for.                                  *)
TurnSettles(ok) ==
    /\ current' = NoInput
    /\ phase' = Idle
    /\ stop' = FALSE
    /\ lastError' = Remembered(ok)
    /\ failed' = IF ok THEN failed ELSE failed \cup ({current} \cap {Head(chain)})
    /\ done' = IF ok THEN done \cup {current} ELSE done
    /\ IF ok /\ Head(chain) = First THEN UNCHANGED <<chain, answer>>
       ELSE chain' = Behind /\ Answered(lastError')
    /\ strayed' = (strayed \/ (~ok /\ Head(chain) = First /\ current \notin submitted))
    /\ UNCHANGED <<host, log, signals, aborted, halted, restarts, submitted>>

TurnSaved ==
    /\ phase.at = "saving"
    /\ durable' = IF phase.target > durable THEN phase.target ELSE durable
    /\ TurnSettles(phase.ok)

(* mutant: a failed flush is not reported *)
TurnNotSavedIgnored ==
    phase.at = "saving" /\ UNCHANGED durable /\ TurnSettles(phase.ok)

TurnNotSaved ==
    /\ phase.at = "saving"
    /\ UNCHANGED durable
    /\ TurnSettles(FALSE)

(* A stop hook throws after turn/end: the turn fails and flushes nothing. *)
StopHookThrows ==
    /\ phase.at = "steps"
    /\ UNCHANGED durable
    /\ TurnSettles(FALSE)

-----------------------------------------------------------------------------
(* The process dies and starts again. *)

(* What the process that starts again finds.                                *)
Kept == durable..Len(log)

Restart ==
    /\ restarts < MaxRestarts
    /\ restarts' = restarts + 1
    /\ durable' \in Kept
    /\ log' = SubSeq(log, 1, durable')
    /\ chain' = <<>>
    /\ current' = NoInput
    /\ phase' = Idle
    /\ signals' = {}
    /\ aborted' = {}
    /\ stop' = FALSE
    /\ lastError' = FALSE
    /\ halted' = FALSE
    /\ answer' = [i \in Input |-> "none"]
    /\ submitted' = {}
    /\ failed' = {}
    /\ strayed' = FALSE
    /\ UNCHANGED <<host, done>>

Turn == TurnCloses \/ TurnSaved \/ TurnNotSaved \/ StopHookThrows
Pump == PumpEnds \/ PumpRuns

Next ==
    \/ \E i \in Input : Submit(i) \/ Admit(i) \/ RunAdmitted(i) \/ Cancel(i) \/ AbortWaiting(i)
    \/ CancelCurrent
    \/ Halt
    \/ Pump
    \/ StepClaims
    \/ Turn
    \/ Restart

(* A pump is a microtask, and a turn is a bounded number of calls with      *)
(* timeouts.                                                                *)
Fairness == WF_vars(Pump) /\ WF_vars(Turn)
Spec == Init /\ [][Next]_vars /\ Fairness

-----------------------------------------------------------------------------
(* Properties. *)

TypeOK ==
    /\ host \in {"cli", "service"}
    /\ log \in Seq([kind : {"admitted", "promoted", "cancelled", "message"}, input : Input])
    /\ durable \in 0..Len(log)
    /\ chain \in Seq(Input \cup {First})
    /\ current \in Input \cup {NoInput}
    /\ phase \in [at : {"none", "steps", "saving"}, target : 0..Len(log), ok : BOOLEAN]
    /\ current = NoInput <=> phase.at = "none"
    /\ signals \in SUBSET Signalled
    /\ aborted \in SUBSET Signalled
    /\ {stop, lastError, halted, strayed} \subseteq BOOLEAN
    /\ answer \in [Input -> {"none", "waiting", "resolved", "rejected"}]
    /\ restarts \in 0..MaxRestarts
    /\ submitted \cup failed \cup done \subseteq Input

(* An input reaches the model at most once, whether a pump takes it or a     *)
(* step claims it, before or after a restart: it is promoted or cancelled    *)
(* once, and its message follows its promotion                               *)
(* (inbox.ts, promote, cancel, claimAtStepBoundary).                         *)
ReadOnce ==
    \A n \in DOMAIN log :
        LET e == log[n]
            earlier(kind) == \E m \in 1..n - 1 : log[m] = Event(kind, e.input)
        IN  CASE e.kind = "admitted" -> ~earlier("admitted")
              [] e.kind = "promoted" \/ e.kind = "cancelled" ->
                    earlier("admitted") /\ ~earlier("promoted") /\ ~earlier("cancelled")
              [] e.kind = "message" -> log[n - 1] = Event("promoted", e.input)

(* A restart that finds half of a write loses at most one input: an input    *)
(* that is neither pending nor cancelled nor in the conversation is one for  *)
(* each restart at most (executor.ts:135, the marker precedes the message).  *)
OneLostPerRestart ==
    Cardinality({i \in Input : Has("promoted", i) /\ ~Has("message", i)}) <= restarts

(* No queued input overtakes another on the CLI's lane: when one is read,    *)
(* those admitted before it have been promoted or cancelled, even by a pump  *)
(* that starts from a recovered log (executor.ts:123, pending()[0]).          *)
NoOvertaking ==
    host = "cli" =>
        \A i, j \in Input \ Steer :
            /\ Precedes(Event("admitted", i), Event("admitted", j))
            /\ Has("message", j)
            => \/ Precedes(Event("promoted", i), Event("message", j))
               \/ Precedes(Event("cancelled", i), Event("message", j))

(* A failed turn ends its pump, and still no submission is left behind by an *)
(* idle lane: there is a pump for each, unless an input that brought none    *)
(* failed in one of them (executor.ts:144 and 176).                          *)
IdleLaneIsServed ==
    chain = <<>> /\ ~halted /\ ~strayed => ~\E i \in submitted : IsPending(i)

(* What runAdmitted tells its caller is about the caller's own input: it     *)
(* resolves only if that turn did not fail, and it rejects only if it did,   *)
(* or if the input was withdrawn before its turn (executor.ts:165).          *)
AnswerIsOwn ==
    \A i \in Input :
        /\ answer[i] = "resolved" => i \notin failed
        /\ answer[i] = "rejected" => i \in failed \cup aborted \/ Has("cancelled", i)

(* A turn that was reported to have succeeded is never run again: its input  *)
(* is on disk with its message (agent index.ts, the flush at the end).       *)
DoneIsDurable ==
    \A i \in done : \E n \in 1..durable : log[n] = Event("message", i)

(* Again and again no submission waits, whatever turns fail: each is taken   *)
(* or cancelled, unless the lane halts or a pump strays: an input that has   *)
(* no pump, a reminder's or one left pending by a restart, takes a pump of a *)
(* submission and fails (executor.ts:153, a rejected pump must not break     *)
(* the chain).                                                               *)
SubmissionsAreServed ==
    []<>(halted \/ strayed \/ ~\E i \in submitted : IsPending(i))

=============================================================================
