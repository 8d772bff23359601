----------------------------- MODULE TeamTaskBoard -----------------------------
(***************************************************************************)
(* The task board a lead agent and its teammates share, and the            *)
(* transaction every change of it goes through: checked and applied in one *)
(* step, appended to the lead's log, and answered once that log is flushed.*)
(*                                                                         *)
(* A log entry is the whole snapshot of one task, so the log is modelled   *)
(* by the boards it folds to: the first is what is durable, the last is    *)
(* the live state.  Subject, description and write scopes are advisory     *)
(* text; an edit is a new revision.                                        *)
(***************************************************************************)
EXTENDS Naturals, Sequences, FiniteSets, SequencesExt

CONSTANTS
    Task,        \* task ids, each created at most once
    Lead,
    Member,      \* teammates
    NoOwner, NoTask, NoCall,
    MaxTasks,    \* deps.maxTasks
    MaxRevision, \* bound: [Task -> Nat] the last revision of a task
    MaxUnsaved,  \* bound: events appended and not yet durable
    MaxCrashes,  \* bound: restarts of the process
    Watched      \* bound: <<caller, task>> whose earlier looks and answers are followed

Caller == Member \cup {Lead}

ASSUME BoardAssumption ==
    /\ Lead \notin Member
    /\ NoOwner \notin Caller
    /\ Watched \subseteq Caller \X Task
    /\ MaxRevision \in [Task -> Nat]
    /\ MaxTasks \in Nat /\ MaxUnsaved \in Nat /\ MaxCrashes \in Nat

VARIABLES
    boards,  \* the durable board, then the one after each event since
    call,    \* whose transaction awaits lead.flush(), and what it will answer
    view,    \* what one of the callers saw of a task, or was told, a while ago;
             \* `told` and `lost` are ghosts
    crashes

vars == <<boards, call, view, crashes>>

tasks == boards[Len(boards)]

Status == {"pending", "in_progress", "completed", "deleted"}
TaskRecord == [status : Status, owner : Caller \cup {NoOwner}, blockedBy : SUBSET Task, revision : Nat \ {0}]

EmptyBoard == [t \in {} |-> NoTask]

Put(board, t, task) == [x \in DOMAIN board \cup {t} |-> IF x = t THEN task ELSE board[x]]

Exists(board, t)  == t \in DOMAIN board /\ board[t].status # "deleted"
Ready(board, t)   == \A b \in board[t].blockedBy : b \in DOMAIN board /\ board[b].status = "completed"
LiveTasks(board)  == {t \in DOMAIN board : board[t].status # "deleted"}

Init ==
    /\ boards = <<EmptyBoard>>
    /\ call = NoCall
    /\ view = NoCall
    /\ crashes = 0

-----------------------------------------------------------------------------
(* transact: one at a time; the new snapshot is applied and appended, then   *)
(* the flush is awaited.                                                     *)
Commit(c, t, task) ==
    /\ call = NoCall
    /\ Len(boards) <= MaxUnsaved
    /\ boards' = Append(boards, Put(tasks, t, task))
    /\ call' = [caller |-> c, id |-> t, task |-> task, told |-> FALSE, lost |-> FALSE]
    /\ UNCHANGED <<view, crashes>>

(* getTask, listTasks: the live state, flushed or not.  One caller acts on   *)
(* what it saw earlier, the others look right before they act.               *)
Look(c, t) ==
    /\ <<c, t>> \in Watched
    /\ t \in DOMAIN tasks
    /\ view' = [caller |-> c, id |-> t, task |-> tasks[t], told |-> FALSE, lost |-> FALSE]
    /\ UNCHANGED <<boards, call, crashes>>

CreateTask(c, t, blockers) ==
    /\ t \notin DOMAIN tasks
    /\ Cardinality(LiveTasks(tasks)) < MaxTasks
    /\ t \notin blockers
    /\ \A b \in blockers : Exists(tasks, b)
    /\ Commit(c, t, [status |-> "pending", owner |-> NoOwner, blockedBy |-> blockers, revision |-> 1])

Told == view # NoCall /\ view.told

Saw(c, t) == IF view # NoCall /\ view.caller = c /\ view.id = t THEN view.task ELSE tasks[t]

(* mutant: the expected revision is not compared *)
AnyRevision(c, t) == TRUE

(* expectedRevision is that of the snapshot the caller saw. *)
ExpectsRevision(c, t) == Saw(c, t).revision = tasks[t].revision

MayChange(c, t) == c = Lead \/ tasks[t].owner = c

(* updateTask, the part all its actions share. *)
Update(c, t, next) ==
    /\ Exists(tasks, t)
    /\ ExpectsRevision(c, t)
    /\ tasks[t].revision < MaxRevision[t]
    /\ Commit(c, t, [next EXCEPT !.revision = tasks[t].revision + 1])

Claim(c, t) ==
    /\ Exists(tasks, t)
    /\ tasks[t].owner = NoOwner
    /\ tasks[t].status = "pending"
    /\ Ready(tasks, t)
    /\ Update(c, t, [tasks[t] EXCEPT !.status = "in_progress", !.owner = c])

(* release and reopen do the same. *)
Release(c, t) ==
    /\ Exists(tasks, t)
    /\ MayChange(c, t)
    /\ Update(c, t, [tasks[t] EXCEPT !.status = "pending", !.owner = NoOwner])

Complete(c, t) ==
    /\ Exists(tasks, t)
    /\ MayChange(c, t)
    /\ Update(c, t, [tasks[t] EXCEPT !.status = "completed"])

Edit(c, t) ==
    /\ Exists(tasks, t)
    /\ MayChange(c, t)
    /\ Update(c, t, tasks[t])

(* mutant: only a task's own blockers are looked at *)
NoDirectCycle(board, t, blockers) ==
    \A b \in blockers : b # t /\ (b \in DOMAIN board => t \notin board[b].blockedBy)

(* createsCycle is false: the search from the blockers, which visits what    *)
(* lies in every set that has them and the blockers of its members, does not *)
(* come to t.                                                                *)
NoCycleThrough(board, t, blockers) ==
    \E visited \in SUBSET Task :
        /\ blockers \subseteq visited
        /\ t \notin visited
        /\ \A x \in visited : x \in DOMAIN board => board[x].blockedBy \subseteq visited

SetDependencies(c, t, blockers) ==
    /\ Exists(tasks, t)
    /\ MayChange(c, t)
    /\ \A b \in blockers : Exists(tasks, b)
    /\ t \notin blockers
    /\ NoCycleThrough(tasks, t, blockers)
    /\ Update(c, t, [tasks[t] EXCEPT !.blockedBy = blockers])

(* The owner is a member's id, or nobody; the status stays. *)
Reassign(c, t, owner) ==
    /\ Exists(tasks, t)
    /\ c = Lead
    /\ Update(c, t, [tasks[t] EXCEPT !.owner = owner])

(* mutant: dependents are not looked for *)
DependentsIgnored(board, t) == TRUE

NoDependents(board, t) == \A x \in LiveTasks(board) : t \notin board[x].blockedBy

Delete(c, t) ==
    /\ Exists(tasks, t)
    /\ MayChange(c, t)
    /\ NoDependents(tasks, t)
    /\ Update(c, t, [tasks[t] EXCEPT !.status = "deleted"])

-----------------------------------------------------------------------------
(* mutant: the caller is answered before the flush has ended *)
AnsweredEarly == boards

Durable == <<tasks>>

(* lead.flush() resolves: the log is durable and the caller gets its answer. *)
FlushResolves ==
    /\ call # NoCall
    /\ boards' = Durable
    /\ \/ UNCHANGED view
       \/ <<call.caller, call.id>> \in Watched /\ view' = [call EXCEPT !.told = TRUE]
    /\ call' = NoCall
    /\ UNCHANGED crashes

(* It rejects: the caller gets an error, state and log keep the event. *)
FlushRejects ==
    /\ call # NoCall
    /\ call' = NoCall
    /\ UNCHANGED <<boards, view, crashes>>

Unsaved == Len(boards) > 1

(* The lead's write-behind makes a prefix of the log durable. *)
LogAdvances ==
    /\ Unsaved
    /\ boards' = Tail(boards)
    /\ UNCHANGED <<call, view, crashes>>

(* The snapshot somebody looked at is on a board, or a later one of its task. *)
Keeps(board, look) ==
    /\ look.id \in DOMAIN board
    /\ \/ board[look.id] = look.task
       \/ board[look.id].revision > look.task.revision

(* What a caller's own log, which is restored with it, may tell of the look. *)
(* The lead's is the log of the board: its looks come after what they show.  *)
Remembered(board) ==
    IF view = NoCall THEN {NoCall}
    ELSE LET look == [view EXCEPT !.lost = view.lost \/ ~Keeps(board, view)]
         IN  {NoCall} \cup (IF view.caller = Lead /\ ~view.told /\ look.lost THEN {} ELSE {look})

(* The process dies; the team is mounted again from the durable log.         *)
Restart ==
    /\ crashes < MaxCrashes
    /\ crashes' = crashes + 1
    /\ boards' = <<Head(boards)>>
    /\ call' = NoCall
    /\ view' \in Remembered(Head(boards))

UpdateTask(c, t) ==
    \/ Claim(c, t)
    \/ Release(c, t)
    \/ Complete(c, t)
    \/ Edit(c, t)
    \/ \E blockers \in SUBSET Task : SetDependencies(c, t, blockers)
    \/ \E owner \in Member \cup {NoOwner} : Reassign(c, t, owner)
    \/ Delete(c, t)

Next ==
    \/ \E c \in Caller, t \in Task :
              \/ Look(c, t)
              \/ \E blockers \in SUBSET Task : CreateTask(c, t, blockers)
              \/ UpdateTask(c, t)
    \/ FlushResolves
    \/ FlushRejects
    \/ LogAdvances
    \/ Restart

Spec == Init /\ [][Next]_vars

-----------------------------------------------------------------------------
IsBoard(board) == DOMAIN board \subseteq Task /\ board \in [DOMAIN board -> TaskRecord]

Answer == [caller : Caller, id : Task, task : TaskRecord, told : BOOLEAN, lost : BOOLEAN]

TypeOK ==
    /\ boards # <<>>
    /\ \A i \in 1 .. Len(boards) : IsBoard(boards[i])
    /\ {call, view} \subseteq Answer \cup {NoCall}
    /\ crashes \in 0 .. MaxCrashes

(* What a live task waits for exists: create and set_dependencies look, and  *)
(* delete refuses a task with dependents, in whatever order they come and    *)
(* wherever a restart cuts the log.                                          *)
BlockersLive(board) == \A t \in LiveTasks(board) : \A b \in board[t].blockedBy : Exists(board, b)

BlockersAreLive == \A i \in DOMAIN boards : BlockersLive(boards[i])

(* The board never waits for itself: as long as a task is open, one of the   *)
(* open tasks is ready, so somebody can go on (the purpose of createsCycle,  *)
(* task-board.ts:118-132).                                                   *)
OpenTasks(board) == {t \in DOMAIN board : board[t].status \in {"pending", "in_progress"}}

NoDependencyDeadlock ==
    \A i \in DOMAIN boards :
        OpenTasks(boards[i]) # {} => \E t \in OpenTasks(boards[i]) : Ready(boards[i], t)

(* An update is applied only on top of the very snapshot its caller saw:     *)
(* "a concurrent update bumps the revision and the CAS re-check wins"        *)
(* (task-board.ts:139-142).  The looks at a revision that a crash took from  *)
(* the board are left out: a teammate's log keeps them, and the revision is  *)
(* given again to another snapshot (task-board.ts:147).                      *)
Updates(c, t) ==
    call = NoCall /\ call' # NoCall /\ call'.caller = c /\ call'.id = t /\ t \in DOMAIN tasks
RemembersLost(c, t) == view # NoCall /\ view.caller = c /\ view.id = t /\ view.lost
NoLostUpdate ==
    [][\A c \in Caller, t \in Task :
          Updates(c, t) /\ ~RemembersLost(c, t) => Saw(c, t) = tasks[t]]_vars

(* The same of every update, which is not so.                                *)
UpdatesWhatWasSeen ==
    [][\A c \in Caller, t \in Task : Updates(c, t) => Saw(c, t) = tasks[t]]_vars

(* A revision a caller was told of is on every board a restart can come back *)
(* to, as the caller was told or replaced by a later one (transact.ts:58-62).*)
AckedSurvives == Told => \A i \in DOMAIN boards : Keeps(boards[i], view)
=============================================================================
