------------------------------ MODULE ToolCalls ------------------------------
(***************************************************************************)
(* One step's tool calls.  The model's calls are started in its order, as  *)
(* many at a time as the pool allows, and answered in its order: a cursor  *)
(* over the slots appends a result as soon as every call before it has     *)
(* been answered.  Preparing a call, saving its dispatch marker, and the   *)
(* hooks around its answer are one lane, and only the bodies overlap.      *)
(*                                                                         *)
(* What ends a batch early is the owner's stop, a refusal, or a checkpoint *)
(* that could not be saved.  A process that dies leaves a part of the log, *)
(* and the repair of that log answers what is open.                        *)
(***************************************************************************)
EXTENDS Naturals, Sequences, FiniteSets

CONSTANTS
    N,          \* the calls of the step are 1..N, in the model's order
    Exclusive,  \* those whose tool is not declared safe to run beside others
    MaxParallel \* bodies in flight at once

ASSUME ToolCallsAssumption ==
    /\ N \in Nat \ {0}
    /\ Exclusive \subseteq 1..N
    /\ MaxParallel \in Nat \ {0}

Call == 1..N

VARIABLES
    checkpoint, \* the host gave a flush that makes the markers durable
    proven,     \* the log holds a dispatch marker of an earlier turn
    log,        \* the step's calls, markers and results, and the turn's end
    durable,    \* how many of them are known to be on disk
    pc,         \* what the lane waits for
    ending,     \* how the batch ends: "open" while the pool still runs
    next,       \* the calls before it have been looked at
    started,    \* startedUpTo
    committed,  \* the cursor
    slot,       \* [Call -> what it is to be answered]
    pool,       \* inFlight
    stop,       \* the owner's signal is aborted
    refused,    \* hasRefusal
    unsaved,    \* hasFlushError
    body,       \* [Call -> how far its body really got]
    threw       \* ghost: a hook threw while the last results were committed

vars == <<checkpoint, proven, log, durable, pc, ending, next, started, committed, slot,
          pool, stop, refused, unsaved, body, threw>>
host == <<checkpoint, proven, durable>>
cursor == <<log, committed, pc>>

Event(kind, i) == [kind |-> kind, call |-> i, verdict |-> ""]
Result(i, verdict) == [kind |-> "result", call |-> i, verdict |-> verdict]
End == Event("end", 0)

Synthetic == {"invalid", "failed", "undispatched", "midflight"}
(* What a result may say of a call whose body never ran.                    *)
NeverRan == {"invalid", "undispatched", "cancelled"}

(* The two stops of the batch's own signal: it is also aborted by the       *)
(* owner's.                                                                 *)
Stopped == refused \/ unsaved
BatchAborted == stop \/ Stopped

Active == {i \in Call : body[i] \in {"hooks", "running"}}

Init ==
    /\ checkpoint \in BOOLEAN
    /\ proven \in BOOLEAN
    /\ log = [i \in Call |-> Event("call", i)]
    /\ durable \in 0..N
    /\ stop \in BOOLEAN
    /\ pc = IF stop THEN "drain" ELSE "prepare"
    /\ ending = "open"
    /\ next = 1
    /\ started = 0
    /\ committed = 0
    /\ slot = [i \in Call |-> "none"]
    /\ pool = {}
    /\ refused = FALSE
    /\ unsaved = FALSE
    /\ body = [i \in Call |-> "none"]
    /\ threw = FALSE

-----------------------------------------------------------------------------
(* The lane: the cursor and the loop around it. *)

(* Groups: calls that are safe together share the pool, an exclusive one     *)
(* has it to itself, and a group starts when the one before has drained.     *)
MayStart(i, flying) ==
    /\ i <= N
    /\ Cardinality(flying) < MaxParallel
    /\ flying = {} \/ (i \notin Exclusive /\ flying \cap Exclusive = {})

(* Where the lane goes once nothing more can be committed.                  *)
(* mutant: the race is entered with nothing in flight *)
OnwardToRace(i, flying) ==
    IF ending' # "open" THEN "fill"
    ELSE IF ~BatchAborted' /\ MayStart(i, flying) THEN "prepare"
    ELSE IF ~BatchAborted' THEN "race"
    ELSE "drain"
Onward(i, flying) ==
    IF ending' # "open" THEN "fill"
    ELSE IF ~BatchAborted' /\ MayStart(i, flying) THEN "prepare"
    ELSE IF ~BatchAborted' /\ flying # {} THEN "race"
    ELSE "drain"

(* commitReady up to its first await, when `events` is the log and the first *)
(* `from` calls are answered: the synthetic slots at the cursor are appended *)
(* and a real one is handed to its hooks.                                    *)
CommitReady(events, from) ==
    \E upTo \in from..N :
        /\ \A i \in from + 1..upTo : slot'[i] \in Synthetic
        /\ upTo < N => slot'[upTo + 1] \notin Synthetic
        /\ log' = events \o [k \in 1..upTo - from |-> Result(from + k, slot'[from + k])]
        /\ committed' = upTo
        /\ pc' = IF upTo < N /\ slot'[upTo + 1] = "real" THEN "finalize"
                 ELSE Onward(next', pool')

(* A throw in the lane: a refusal while the pool runs; the endings go on.    *)
LaneThrows ==
    /\ pc' = IF ending = "open" THEN "drain" ELSE "fill"
    /\ refused' = (refused \/ ending = "open")
    /\ threw' = (ending # "open")
    /\ UNCHANGED <<checkpoint, proven, log, durable, committed, ending, next, started, slot,
                   pool, stop, unsaved, body>>

(* The hooks behind the tool, and its answer.  After a stop the observers of *)
(* the answer are not told.                                                  *)
Finalize ==
    /\ pc = "finalize"
    /\ UNCHANGED <<host, ending, next, started, slot, pool, stop, refused, unsaved, body, threw>>
    /\ LET answered == Append(log, Result(committed + 1, "real"))
       IN  IF stop THEN CommitReady(answered, committed + 1)
           ELSE log' = answered /\ committed' = committed + 1 /\ pc' = "observe"

FinalizeThrows == pc = "finalize" /\ LaneThrows

Observe ==
    /\ pc = "observe"
    /\ UNCHANGED <<host, ending, next, started, slot, pool, stop, refused, unsaved, body, threw>>
    /\ CommitReady(log, committed)

ObserveThrows == pc = "observe" /\ LaneThrows

-----------------------------------------------------------------------------
(* startCall *)

(* The body is handed to the hooks around it, in the step that found no     *)
(* stop.                                                                    *)
Dispatch(events) ==
    /\ next' = next + 1
    /\ body' = [body EXCEPT ![next] = "hooks"]
    /\ pool' = pool \cup {next}
    /\ UNCHANGED <<checkpoint, proven, ending, slot, stop, refused, unsaved, threw>>
    /\ CommitReady(events, committed)

(* The call was started and its body will not run.                          *)
Undispatched ==
    /\ next' = next + 1
    /\ slot' = [slot EXCEPT ![next] = "undispatched"]
    /\ UNCHANGED <<checkpoint, proven, ending, started, pool, stop, refused, body, threw>>
    /\ CommitReady(log, committed)

(* A call that was prepared before the batch was stopped is started: its    *)
(* marker is appended, and saved before the body runs.                      *)
(* mutant: the marker is left to the background writes *)
MarkedOnly ==
    /\ pc = "prepare"
    /\ ~BatchAborted
    /\ started' = next
    /\ UNCHANGED durable
    /\ Dispatch(Append(log, Event("dispatch", next)))
PrepareStarts ==
    /\ pc = "prepare"
    /\ ~BatchAborted
    /\ started' = next
    /\ LET marked == Append(log, Event("dispatch", next))
       IN  IF ~checkpoint THEN UNCHANGED durable /\ Dispatch(marked)
           ELSE /\ log' = marked
                /\ pc' = "save"
                /\ UNCHANGED <<host, committed, ending, next, slot, pool, stop, refused,
                               unsaved, body, threw>>

PrepareTooLate ==
    /\ pc = "prepare"
    /\ BatchAborted
    /\ next' = next + 1
    /\ UNCHANGED <<host, ending, started, slot, pool, stop, refused, unsaved, body, threw>>
    /\ CommitReady(log, committed)

(* The tool is unknown or its arguments are malformed: the model is told,   *)
(* and the other calls go on.                                               *)
PrepareInvalid ==
    /\ pc = "prepare"
    /\ next' = next + 1
    /\ slot' = [slot EXCEPT ![next] = "invalid"]
    /\ UNCHANGED <<host, ending, started, pool, stop, refused, unsaved, body, threw>>
    /\ CommitReady(log, committed)

PrepareRefused == pc = "prepare" /\ LaneThrows

(* mutant: the signal is not looked at again after the checkpoint *)
SavedAnyhow == pc = "save" /\ durable' = Len(log) /\ UNCHANGED started /\ Dispatch(log)
Saved ==
    /\ pc = "save"
    /\ durable' = Len(log)
    /\ IF BatchAborted THEN UNCHANGED unsaved /\ Undispatched
       ELSE UNCHANGED started /\ Dispatch(log)

SaveFails ==
    /\ pc = "save"
    /\ unsaved' = TRUE
    /\ UNCHANGED durable
    /\ Undispatched

-----------------------------------------------------------------------------
(* The bodies, and the owner. *)

Alive == pc \notin {"down", "repaired"}

BodyRuns(i) ==
    /\ Alive
    /\ body[i] = "hooks"
    /\ body' = [body EXCEPT ![i] = "running"]
    /\ UNCHANGED <<host, cursor, ending, next, started, slot, pool, stop, refused, unsaved,
                   threw>>

Succeeds(i) ==
    /\ Alive
    /\ body[i] = "running"
    /\ body' = [body EXCEPT ![i] = "ok"]
    /\ slot' = [slot EXCEPT ![i] = "real"]
    /\ UNCHANGED <<host, cursor, ending, next, started, pool, stop, refused, unsaved, threw>>

Unfinished(i) == IF body[i] = "hooks" THEN "unran" ELSE "failed"

Fails(i) ==
    /\ Alive
    /\ i \in Active
    /\ body' = [body EXCEPT ![i] = Unfinished(i)]
    /\ slot' = [slot EXCEPT ![i] = IF stop THEN "none" ELSE "failed"]
    /\ UNCHANGED <<host, cursor, ending, next, started, pool, stop, refused, unsaved, threw>>

(* A hook around the body, or the last check of its permission, vetoes it.  *)
Vetoed(i) ==
    /\ Alive
    /\ i \in Active
    /\ body' = [body EXCEPT ![i] = Unfinished(i)]
    /\ refused' = TRUE
    /\ UNCHANGED <<host, cursor, ending, next, started, slot, pool, stop, unsaved, threw>>

Stop ==
    /\ ~stop
    /\ pc \in {"prepare", "save", "finalize", "observe", "race", "drain"}
    /\ stop' = TRUE
    /\ UNCHANGED <<host, cursor, ending, next, started, slot, pool, refused, unsaved, body,
                   threw>>

-----------------------------------------------------------------------------
(* The pool drains and the batch ends. *)

(* mutant: each answer is appended when its body has finished *)
AnsweredAtOnce(i) ==
    /\ pc = "race"
    /\ i \in pool \ Active
    /\ pool' = pool \ {i}
    /\ log' = Append(log, Result(i, slot[i]))
    /\ committed' = committed + 1
    /\ UNCHANGED <<host, ending, next, started, slot, stop, refused, unsaved, body, threw>>
    /\ pc' = Onward(next, pool')
Race(i) ==
    /\ pc = "race"
    /\ i \in pool \ Active
    /\ pool' = pool \ {i}
    /\ UNCHANGED <<host, ending, next, started, slot, stop, refused, unsaved, body, threw>>
    /\ CommitReady(log, committed)

Drained == pc = "drain" /\ pool \cap Active = {}

(* The started calls that have no slot, in the branches that end the batch. *)
(* mutant: they are not filled *)
NotFilled(verdict) == slot
Filled(verdict) ==
    [i \in Call |-> IF i \in committed + 1..started /\ slot[i] = "none" THEN verdict ELSE slot[i]]

Ends(how, verdict) ==
    /\ ending' = how
    /\ pool' = {}
    /\ slot' = Filled(verdict)
    /\ UNCHANGED <<host, next, started, stop, refused, unsaved, body, threw>>
    /\ CommitReady(log, committed)

EndsAborted == Drained /\ stop /\ Ends("aborted", "midflight")
EndsUnsaved == Drained /\ ~stop /\ ~refused /\ unsaved /\ Ends("unsaved", "failed")

(* A refusal is thrown as it is, and the batch has nothing more to answer   *)
(* when nothing stopped it.                                                 *)
EndsPlain ==
    /\ Drained
    /\ ~stop
    /\ unsaved => refused
    /\ pc' = "ended"
    /\ ending' = IF refused THEN "refused" ELSE "answered"
    /\ pool' = {}
    /\ UNCHANGED <<host, log, committed, next, started, slot, stop, refused, unsaved, body,
                   threw>>

(* The calls that never started are answered behind the cursor, unless they *)
(* have a slot.                                                             *)
(* mutant: also those that have one *)
EveryUnstarted == started + 1..N
Unstarted == {i \in started + 1..N : slot[i] = "none"}

(* Calls in the model's order. *)
InOrder(calls) ==
    {s \in [1..Cardinality(calls) -> calls] :
        /\ \A j, k \in DOMAIN s : j < k => s[j] < s[k]
        /\ \A i \in calls : \E k \in DOMAIN s : s[k] = i}

Fill ==
    /\ pc = "fill"
    /\ \E order \in InOrder(Unstarted) :
          LET verdict == IF ending = "aborted" THEN "undispatched" ELSE "cancelled"
          IN  log' = log \o [k \in DOMAIN order |-> Result(order[k], verdict)]
    /\ pc' = "ended"
    /\ UNCHANGED <<host, committed, ending, next, started, slot, pool, stop, refused, unsaved,
                   body, threw>>

(* The turn closes and flushes, which may fail.                             *)
TurnEnds ==
    /\ pc = "ended"
    /\ log' = Append(log, End)
    /\ pc' = "closed"
    /\ durable' \in {durable, Len(log')}
    /\ UNCHANGED <<checkpoint, proven, committed, ending, next, started, slot, pool, stop,
                   refused, unsaved, body, threw>>

-----------------------------------------------------------------------------
(* The process dies, and the log it leaves is repaired. *)

Died ==
    /\ pc # "down"
    /\ pc' = "down"
    /\ durable' \in durable..Len(log)
    /\ log' = SubSeq(log, 1, durable')
    /\ body' = [i \in Call |-> CASE body[i] = "hooks" -> "unran"
                                 [] body[i] = "running" -> "failed"
                                 [] OTHER -> body[i]]
    /\ ending' = "died"
    /\ next' = 1 /\ started' = 0 /\ committed' = 0
    /\ slot' = [i \in Call |-> "none"]
    /\ pool' = {}
    /\ stop' = FALSE /\ refused' = FALSE /\ unsaved' = FALSE /\ threw' = FALSE
    /\ UNCHANGED <<checkpoint, proven>>

Has(kind, i) == \E k \in DOMAIN log : log[k].kind = kind /\ log[k].call = i

RepairVerdict(i) ==
    CASE Has("dispatch", i) -> "unknown"
      [] ~Has("dispatch", i) /\ (proven \/ \E j \in Call : Has("dispatch", j)) -> "undispatched"
      [] OTHER -> "unmarked"

(* The open calls of the last turn are answered before its end, which is    *)
(* added when the log lacks it.                                             *)
Open == {i \in Call : Has("call", i) /\ ~Has("result", i)}

BeforeEnd ==
    IF log # <<>> /\ log[Len(log)] = End THEN SubSeq(log, 1, Len(log) - 1) ELSE log

RepairTurnTail ==
    /\ pc = "down"
    /\ \E order \in InOrder(Open) :
          LET answers == [k \in DOMAIN order |-> Result(order[k], RepairVerdict(order[k]))]
          IN  log' = Append(BeforeEnd \o answers, End)
    /\ durable' = Len(log')
    /\ pc' = "repaired"
    /\ UNCHANGED <<checkpoint, proven, committed, ending, next, started, slot, pool, stop,
                   refused, unsaved, body, threw>>

Lane ==
    \/ PrepareStarts \/ PrepareTooLate \/ PrepareInvalid \/ PrepareRefused
    \/ Saved \/ SaveFails
    \/ Finalize \/ FinalizeThrows \/ Observe \/ ObserveThrows
    \/ \E i \in Call : Race(i)
    \/ EndsAborted \/ EndsUnsaved \/ EndsPlain
    \/ Fill
Settles(i) == Succeeds(i) \/ Fails(i) \/ Vetoed(i)

Next ==
    \/ Lane
    \/ \E i \in Call : BodyRuns(i) \/ Settles(i)
    \/ Stop
    \/ TurnEnds
    \/ Died
    \/ RepairTurnTail

(* Hooks, approvals and flushes settle; so do the bodies, each of which has *)
(* a deadline (guard-timeout) or obeys the batch's signal.                  *)
Fairness == WF_vars(Lane) /\ \A i \in Call : WF_vars(BodyRuns(i)) /\ WF_vars(Settles(i))
Spec == Init /\ [][Next]_vars /\ Fairness

-----------------------------------------------------------------------------
(* Properties. *)

Verdicts == {"", "real", "unknown", "unmarked", "cancelled"} \cup Synthetic

TypeOK ==
    /\ {checkpoint, proven, stop, refused, unsaved, threw} \subseteq BOOLEAN
    /\ log \in Seq([kind : {"call", "dispatch", "result", "end"}, call : 0..N, verdict : Verdicts])
    /\ durable \in 0..Len(log)
    /\ pc \in {"prepare", "save", "finalize", "observe", "race", "drain", "fill", "ended",
              "closed", "down", "repaired"}
    /\ ending \in {"open", "aborted", "unsaved", "refused", "answered", "died"}
    /\ next \in 1..N + 1
    /\ started \in 0..N
    /\ committed \in 0..N
    /\ slot \in [Call -> {"none", "real"} \cup Synthetic]
    /\ pool \subseteq Call
    /\ body \in [Call -> {"none", "hooks", "running", "ok", "failed", "unran"}]

Results == {k \in DOMAIN log : log[k].kind = "result"}
ResultsOf(i) == {k \in Results : log[k].call = i}

(* No call is ever answered twice, by the pool's cursor, by the fills that  *)
(* end a batch, and by repairs of the log of a dead process: an interface   *)
(* refuses a tool_use with two results (execute-tool-calls.ts:166, 449).    *)
AnsweredOnce == \A j, k \in Results : log[j].call = log[k].call => j = k

(* The pool's answers are in the model's order, however the bodies finish,  *)
(* also when a hook throws and leaves gaps (execute-tool-calls.ts, the      *)
(* head-of-line cursor).                                                    *)
InModelOrder ==
    Alive => \A j, k \in Results : j < k => log[j].call < log[k].call

(* Who tells the model that a call was not run is right: the stops of a     *)
(* batch, and the repair after a crash when the host saves its markers.     *)
(* Otherwise a side effect would be repeated (repair.ts, the verdicts).     *)
NeverRanIsTrue ==
    checkpoint \/ Alive =>
        \A k \in Results : log[k].verdict \in NeverRan => body[log[k].call] \in {"none", "unran"}

(* Nothing goes unanswered: a batch that was answered, stopped by its owner *)
(* or by a checkpoint has a result for each call, and the real one for each *)
(* body that succeeded, unless a hook threw on the way out; and a repaired  *)
(* log has one for each call it holds (execute-tool-calls.ts:426, 482).     *)
EverythingIsAnswered ==
    \/ pc \notin {"ended", "closed", "repaired"}
    \/ Alive /\ (ending = "refused" \/ threw)
    \/ \A i \in Call :
          /\ Has("call", i) => ResultsOf(i) # {}
          /\ Alive /\ body[i] = "ok" => \A k \in ResultsOf(i) : log[k].verdict = "real"

(* Bodies overlap only as declared, and none outlives its batch: what an    *)
(* exclusive call sees is not disturbed by a sibling, nor is a next step    *)
(* (execute-tool-calls.ts, the groups and the drain).                       *)
NoBodyDisturbsAnother ==
    /\ Cardinality(Active) <= MaxParallel
    /\ Active \cap Exclusive # {} => Cardinality(Active) = 1
    /\ pc \in {"ended", "closed"} => Active = {}

(* Once the owner stopped the batch, or a refusal or a failed checkpoint     *)
(* did, no call is handed over to run, although the lane had looked at the   *)
(* signal before an approval or a flush it waited for                        *)
(* (execute-tool-calls.ts:230, 298).                                         *)
StopIsObeyed ==
    [][BatchAborted => \A i \in Call : body[i] = "none" => body'[i] # "hooks"]_vars

(* Whatever fails, a batch comes to its end.                                *)
BatchEnds == <>(pc \in {"ended", "closed", "down", "repaired"})

=============================================================================
