------------------------- MODULE TeamTaskBoardProofs -------------------------
(***************************************************************************)
(* What holds of the task board for any number of tasks, members, updates  *)
(* and restarts.  The dependencies are acyclic in a form that needs no     *)
(* induction: every nonempty set of tasks has one that waits for none of   *)
(* them.  A search that does not find t gives the closed set that shows    *)
(* that new dependencies of t keep it so.                                  *)
(***************************************************************************)
EXTENDS TeamTaskBoard, TLAPS

BoardType(board) == DOMAIN board \subseteq Task /\ \A t \in DOMAIN board : board[t] \in TaskRecord

BlockersKnown(board) == \A t \in DOMAIN board : board[t].blockedBy \subseteq DOMAIN board

Acyclic(board) ==
    \A S \in SUBSET DOMAIN board : S # {} => \E t \in S : board[t].blockedBy \cap S = {}

Good(board) ==
    /\ BoardType(board)
    /\ BlockersKnown(board)
    /\ BlockersLive(board)
    /\ Acyclic(board)

-----------------------------------------------------------------------------
LEMMA PutType ==
    ASSUME NEW board, BoardType(board), NEW t \in Task, NEW task \in TaskRecord
    PROVE  BoardType(Put(board, t, task))
BY DEF BoardType, Put

(* A live task that keeps its dependencies and stays live. *)
LEMMA PutSameBlockers ==
    ASSUME NEW board, Good(board), NEW t \in Task, Exists(board, t), NEW task \in TaskRecord,
           task.blockedBy = board[t].blockedBy, task.status # "deleted"
    PROVE  Good(Put(board, t, task))
<1> DEFINE new == Put(board, t, task)
<1>0. /\ DOMAIN new = DOMAIN board
      /\ new[t] = task
      /\ \A x \in DOMAIN board : new[x].blockedBy = board[x].blockedBy
      /\ \A x \in DOMAIN board : Exists(board, x) <=> Exists(new, x)
  <2>1. /\ DOMAIN new = DOMAIN board \cup {t}
        /\ new[t] = task
        /\ \A x \in DOMAIN board : x # t => new[x] = board[x]
    BY DEF Put
  <2>2. t \in DOMAIN board /\ board[t].status # "deleted"
    BY DEF Exists
  <2> QED  BY <2>1, <2>2 DEF Exists
<1> HIDE DEF new
<1>1. BoardType(new)
  BY PutType DEF new, Good
<1>2. BlockersKnown(new)
  BY <1>0 DEF BlockersKnown, Good
<1>3. BlockersLive(new)
  BY <1>0 DEF BlockersLive, BlockersKnown, LiveTasks, Exists, Good
<1>4. Acyclic(new)
  BY <1>0 DEF Acyclic, Good
<1> QED  BY <1>1, <1>2, <1>3, <1>4 DEF Good, new

(* Deleting a task without live dependents. *)
LEMMA PutDeleted ==
    ASSUME NEW board, Good(board), NEW t \in Task, Exists(board, t), NEW task \in TaskRecord,
           task.blockedBy = board[t].blockedBy, task.status = "deleted",
           NoDependents(board, t)
    PROVE  Good(Put(board, t, task))
<1> DEFINE new == Put(board, t, task)
<1>0. /\ DOMAIN new = DOMAIN board
      /\ new[t] = task
      /\ \A x \in DOMAIN board : x # t => new[x] = board[x]
      /\ \A x \in DOMAIN board : new[x].blockedBy = board[x].blockedBy
  <2>1. /\ DOMAIN new = DOMAIN board \cup {t}
        /\ new[t] = task
        /\ \A x \in DOMAIN board : x # t => new[x] = board[x]
    BY DEF Put
  <2>2. t \in DOMAIN board
    BY DEF Exists
  <2> QED  BY <2>1, <2>2
<1> HIDE DEF new
<1>1. BoardType(new)
  BY PutType DEF new, Good
<1>2. BlockersKnown(new)
  BY <1>0 DEF BlockersKnown, Good
<1>3. BlockersLive(new)
  <2> SUFFICES ASSUME NEW x \in LiveTasks(new), NEW b \in new[x].blockedBy
               PROVE  Exists(new, b)
    BY DEF BlockersLive
  <2>1. x # t /\ x \in LiveTasks(board) /\ new[x] = board[x]
    BY <1>0 DEF LiveTasks
  <2>2. b # t /\ Exists(board, b)
    BY <2>1 DEF NoDependents, Good, BlockersLive
  <2> QED  BY <2>2, <1>0 DEF Exists
<1>4. Acyclic(new)
  BY <1>0 DEF Acyclic, Good
<1> QED  BY <1>1, <1>2, <1>3, <1>4 DEF Good, new

(* A new task that waits for live ones. *)
LEMMA PutCreated ==
    ASSUME NEW board, Good(board), NEW t \in Task, t \notin DOMAIN board, NEW task \in TaskRecord,
           \A b \in task.blockedBy : Exists(board, b)
    PROVE  Good(Put(board, t, task))
<1> DEFINE new == Put(board, t, task)
<1>0. /\ DOMAIN new = DOMAIN board \cup {t}
      /\ new[t] = task
      /\ \A x \in DOMAIN board : new[x] = board[x]
  BY DEF Put
<1> HIDE DEF new
<1>a. task.blockedBy \subseteq DOMAIN board
  BY DEF Exists
<1>1. BoardType(new)
  BY PutType DEF new, Good
<1>2. BlockersKnown(new)
  BY <1>0, <1>a DEF BlockersKnown, Good
<1>3. BlockersLive(new)
  <2> SUFFICES ASSUME NEW x \in LiveTasks(new), NEW b \in new[x].blockedBy
               PROVE  Exists(new, b)
    BY DEF BlockersLive
  <2>1. Exists(board, b)
    BY <1>0 DEF LiveTasks, Good, BlockersLive
  <2> QED  BY <2>1, <1>0 DEF Exists
<1>4. Acyclic(new)
  <2> SUFFICES ASSUME NEW S \in SUBSET DOMAIN new, S # {}
               PROVE  \E x \in S : new[x].blockedBy \cap S = {}
    BY DEF Acyclic
  <2>1. CASE S \subseteq {t}
    BY <2>1, <1>0, <1>a
  <2>2. CASE S \ {t} # {}
    <3>1. PICK x \in S \ {t} : board[x].blockedBy \cap (S \ {t}) = {}
      BY <2>2, <1>0 DEF Acyclic, Good
    <3>2. x \in DOMAIN board /\ t \notin board[x].blockedBy
      BY <1>0 DEF BlockersKnown, Good
    <3> QED  BY <3>1, <3>2, <1>0
  <2> QED  BY <2>1, <2>2
<1> QED  BY <1>1, <1>2, <1>3, <1>4 DEF Good, new

(* New dependencies of a live task whose search did not come back to it. *)
LEMMA PutNewBlockers ==
    ASSUME NEW board, Good(board), NEW t \in Task, Exists(board, t), NEW task \in TaskRecord,
           \A b \in task.blockedBy : Exists(board, b),
           task.status # "deleted",
           NoCycleThrough(board, t, task.blockedBy)
    PROVE  Good(Put(board, t, task))
<1> DEFINE new == Put(board, t, task)
<1>0. /\ DOMAIN new = DOMAIN board
      /\ new[t] = task
      /\ \A x \in DOMAIN board : x # t => new[x] = board[x]
      /\ \A x \in DOMAIN board : Exists(board, x) <=> Exists(new, x)
  <2>1. /\ DOMAIN new = DOMAIN board \cup {t}
        /\ new[t] = task
        /\ \A x \in DOMAIN board : x # t => new[x] = board[x]
    BY DEF Put
  <2>2. t \in DOMAIN board /\ board[t].status # "deleted"
    BY DEF Exists
  <2> QED  BY <2>1, <2>2 DEF Exists
<1> HIDE DEF new
<1>1. BoardType(new)
  BY PutType DEF new, Good
<1>2. BlockersKnown(new)
  BY <1>0 DEF BlockersKnown, Good, Exists
<1>3. BlockersLive(new)
  <2> SUFFICES ASSUME NEW x \in LiveTasks(new), NEW b \in new[x].blockedBy
               PROVE  Exists(new, b)
    BY DEF BlockersLive
  <2>1. CASE x = t
    BY <2>1, <1>0 DEF Exists
  <2>2. CASE x # t
    <3>1. x \in LiveTasks(board) /\ new[x] = board[x]
      BY <2>2, <1>0 DEF LiveTasks
    <3> QED  BY <3>1, <1>0 DEF Good, BlockersLive, Exists
  <2> QED  BY <2>1, <2>2
<1>4. Acyclic(new)
  <2> SUFFICES ASSUME NEW S \in SUBSET DOMAIN new, S # {}
               PROVE  \E x \in S : new[x].blockedBy \cap S = {}
    BY DEF Acyclic
  <2>1. PICK visited \in SUBSET Task :
            /\ task.blockedBy \subseteq visited
            /\ t \notin visited
            /\ \A x \in visited : x \in DOMAIN board => board[x].blockedBy \subseteq visited
    BY DEF NoCycleThrough
  <2>2. CASE t \notin S
    <3>1. PICK x \in S : board[x].blockedBy \cap S = {}
      BY <1>0 DEF Acyclic, Good
    <3> QED  BY <3>1, <2>2, <1>0
  <2>3. CASE S \cap visited # {}
    <3>1. PICK x \in S \cap visited : board[x].blockedBy \cap (S \cap visited) = {}
      BY <2>3, <1>0 DEF Acyclic, Good
    <3>2. x # t /\ board[x].blockedBy \subseteq visited
      BY <2>1, <1>0
    <3> QED  BY <3>1, <3>2, <1>0
  <2>4. CASE t \in S /\ S \cap visited = {}
    BY <2>4, <2>1, <1>0
  <2> QED  BY <2>2, <2>3, <2>4
<1> QED  BY <1>1, <1>2, <1>3, <1>4 DEF Good, new

(* The invariant carried through a proof of the specification. *)
CallIsOnBoard == call # NoCall => call.id \in DOMAIN tasks /\ tasks[call.id] = call.task

ViewIsOfThePast == view # NoCall /\ ~view.lost => Keeps(tasks, view)

Board == UNION {[known -> TaskRecord] : known \in SUBSET Task}

TypeInv ==
    /\ boards \in Seq(Board) \ {<<>>}
    /\ {call, view} \subseteq Answer \cup {NoCall}
    /\ crashes \in 0 .. MaxCrashes

GoodBoards == \A i \in 1 .. Len(boards) : Good(boards[i])

IInv ==
    /\ TypeInv
    /\ GoodBoards
    /\ CallIsOnBoard
    /\ ViewIsOfThePast
    /\ AckedSurvives

LEMMA PutInBoard ==
    ASSUME NEW board \in Board, NEW t \in Task, NEW task \in TaskRecord
    PROVE  Put(board, t, task) \in Board
<1>1. PICK known \in SUBSET Task : board \in [known -> TaskRecord]
  BY DEF Board
<1>2. Put(board, t, task) \in [known \cup {t} -> TaskRecord]
  BY <1>1 DEF Put
<1> QED  BY <1>1, <1>2 DEF Board

LEMMA TasksFacts ==
    ASSUME IInv
    PROVE  /\ Len(boards) \in Nat \ {0}
           /\ tasks \in Board
           /\ Good(tasks)
           /\ \A t \in DOMAIN tasks : t \in Task /\ tasks[t] \in TaskRecord
BY DEF IInv, TypeInv, GoodBoards, Good, BoardType, tasks

(* An update commits a revised snapshot that keeps the board good. *)
LEMMA UpdateCommits ==
    ASSUME IInv, NEW c \in Caller, NEW t \in Task, UpdateTask(c, t)
    PROVE  \E task \in TaskRecord :
               /\ Commit(c, t, task)
               /\ t \in DOMAIN tasks
               /\ ExpectsRevision(c, t)
               /\ task.revision = tasks[t].revision + 1
               /\ Good(Put(tasks, t, task))
<1> DEFINE old == tasks[t]
           revised(next) == [next EXCEPT !.revision = tasks[t].revision + 1]
<1>0. /\ Exists(tasks, t)
      /\ Good(tasks)
      /\ old \in TaskRecord
      /\ t \in DOMAIN tasks
      /\ old.status # "deleted"
  BY TasksFacts DEF UpdateTask, Claim, Release, Complete, Edit, SetDependencies, Reassign, Delete, Exists
<1>1. ASSUME NEW next \in TaskRecord, Update(c, t, next), Good(Put(tasks, t, revised(next)))
      PROVE  \E task \in TaskRecord :
                 /\ Commit(c, t, task)
                 /\ t \in DOMAIN tasks
                 /\ ExpectsRevision(c, t)
                 /\ task.revision = tasks[t].revision + 1
                 /\ Good(Put(tasks, t, task))
  <2>1. revised(next) \in TaskRecord /\ revised(next).revision = tasks[t].revision + 1
    BY <1>0 DEF TaskRecord
  <2>2. Commit(c, t, revised(next)) /\ ExpectsRevision(c, t)
    BY <1>1 DEF Update
  <2> QED  BY <2>1, <2>2, <1>0, <1>1
<1>2. ASSUME NEW next \in TaskRecord
      PROVE  /\ revised(next) \in TaskRecord
             /\ revised(next).blockedBy = next.blockedBy
             /\ revised(next).status = next.status
  BY <1>0 DEF TaskRecord
<1>3. ASSUME NEW next \in TaskRecord, next.blockedBy = old.blockedBy, next.status # "deleted"
      PROVE  Good(Put(tasks, t, revised(next)))
  BY <1>0, <1>2, <1>3, PutSameBlockers
<1> HIDE DEF revised, old
<1>4. CASE Claim(c, t)
  <2> DEFINE next == [tasks[t] EXCEPT !.status = "in_progress", !.owner = c]
  <2>1. next \in TaskRecord /\ next.blockedBy = old.blockedBy /\ next.status # "deleted"
    BY <1>0 DEF TaskRecord, Status, old
  <2>2. Update(c, t, next)
    BY <1>4 DEF Claim
  <2> QED  BY <2>1, <2>2, <1>1, <1>3
<1>5. CASE Release(c, t)
  <2> DEFINE next == [tasks[t] EXCEPT !.status = "pending", !.owner = NoOwner]
  <2>1. next \in TaskRecord /\ next.blockedBy = old.blockedBy /\ next.status # "deleted"
    BY <1>0 DEF TaskRecord, Status, old
  <2>2. Update(c, t, next)
    BY <1>5 DEF Release
  <2> QED  BY <2>1, <2>2, <1>1, <1>3
<1>6. CASE Complete(c, t)
  <2> DEFINE next == [tasks[t] EXCEPT !.status = "completed"]
  <2>1. next \in TaskRecord /\ next.blockedBy = old.blockedBy /\ next.status # "deleted"
    BY <1>0 DEF TaskRecord, Status, old
  <2>2. Update(c, t, next)
    BY <1>6 DEF Complete
  <2> QED  BY <2>1, <2>2, <1>1, <1>3
<1>7. CASE Edit(c, t)
  <2>1. Update(c, t, old)
    BY <1>7 DEF Edit, old
  <2> QED  BY <2>1, <1>0, <1>1, <1>3
<1>8. ASSUME NEW blockers \in SUBSET Task, SetDependencies(c, t, blockers)
      PROVE  \E next \in TaskRecord : Update(c, t, next) /\ Good(Put(tasks, t, revised(next)))
  <2> DEFINE next == [tasks[t] EXCEPT !.blockedBy = blockers]
  <2>1. next \in TaskRecord /\ next.blockedBy = blockers /\ next.status # "deleted"
    BY <1>0 DEF TaskRecord, Status, old
  <2>2. Update(c, t, next) /\ (\A b \in blockers : Exists(tasks, b)) /\ NoCycleThrough(tasks, t, blockers)
    BY <1>8 DEF SetDependencies
  <2> HIDE DEF next
  <2>3. Good(Put(tasks, t, revised(next)))
    BY <2>1, <2>2, <1>0, <1>2, PutNewBlockers
  <2> QED  BY <2>1, <2>2, <2>3
<1>9. ASSUME NEW owner \in Member \cup {NoOwner}, Reassign(c, t, owner)
      PROVE  \E next \in TaskRecord : Update(c, t, next) /\ Good(Put(tasks, t, revised(next)))
  <2> DEFINE next == [tasks[t] EXCEPT !.owner = owner]
  <2>1. next \in TaskRecord /\ next.blockedBy = old.blockedBy /\ next.status # "deleted"
    BY <1>0 DEF TaskRecord, Caller, old
  <2>2. Update(c, t, next)
    BY <1>9 DEF Reassign
  <2> QED  BY <2>1, <2>2, <1>3
<1>10. CASE Delete(c, t)
  <2> DEFINE next == [tasks[t] EXCEPT !.status = "deleted"]
  <2>1. next \in TaskRecord /\ next.blockedBy = old.blockedBy /\ next.status = "deleted"
    BY <1>0 DEF TaskRecord, Status, old
  <2>2. Update(c, t, next) /\ NoDependents(tasks, t)
    BY <1>10 DEF Delete
  <2> HIDE DEF next
  <2>3. Good(Put(tasks, t, revised(next)))
    BY <2>1, <2>2, <1>0, <1>2, PutDeleted DEF old
  <2> QED  BY <2>1, <2>2, <2>3, <1>1
<1> QED  BY <1>1, <1>4, <1>5, <1>6, <1>7, <1>8, <1>9, <1>10 DEF UpdateTask

LEMMA CreateCommits ==
    ASSUME IInv, NEW c \in Caller, NEW t \in Task, NEW blockers \in SUBSET Task, CreateTask(c, t, blockers)
    PROVE  \E task \in TaskRecord :
               /\ Commit(c, t, task)
               /\ t \notin DOMAIN tasks
               /\ Good(Put(tasks, t, task))
<1> DEFINE task == [status |-> "pending", owner |-> NoOwner, blockedBy |-> blockers, revision |-> 1]
<1>1. task \in TaskRecord /\ task.blockedBy = blockers
  BY DEF TaskRecord, Status
<1>2. /\ Commit(c, t, task)
      /\ t \notin DOMAIN tasks
      /\ \A b \in blockers : Exists(tasks, b)
  BY DEF CreateTask
<1> HIDE DEF task
<1>3. Good(Put(tasks, t, task))
  BY <1>1, <1>2, TasksFacts, PutCreated
<1> QED  BY <1>1, <1>2, <1>3

(* A commit of a new task or of a revision keeps the invariant. *)
LEMMA CommitKeeps ==
    ASSUME IInv, NEW c \in Caller, NEW t \in Task, NEW task \in TaskRecord,
           Commit(c, t, task), Good(Put(tasks, t, task)),
           t \in DOMAIN tasks => task.revision = tasks[t].revision + 1
    PROVE  IInv'
<1> DEFINE new == Put(tasks, t, task)
<1>0. /\ boards \in Seq(Board) \ {<<>>}
      /\ Len(boards) \in Nat
      /\ new \in Board
  BY TasksFacts, PutInBoard DEF IInv, TypeInv
<1>1. /\ boards' = Append(boards, new)
      /\ call' = [caller |-> c, id |-> t, task |-> task, told |-> FALSE, lost |-> FALSE]
      /\ view' = view /\ crashes' = crashes
  BY DEF Commit
<1>2. /\ DOMAIN new = DOMAIN tasks \cup {t}
      /\ new[t] = task
      /\ \A x \in DOMAIN tasks : x # t => new[x] = tasks[x]
  BY DEF Put
<1>a. Good(new)
  OBVIOUS
<1> HIDE DEF new
<1>3. /\ Len(boards') = Len(boards) + 1
      /\ boards' \in Seq(Board) \ {<<>>}
      /\ boards'[Len(boards) + 1] = new
      /\ \A i \in 1 .. Len(boards) : boards'[i] = boards[i]
  BY <1>0, <1>1
<1>4. tasks' = new
  BY <1>3 DEF tasks
<1>b. \A x \in DOMAIN tasks : tasks[x].revision \in Nat /\ (x = t => task.revision > tasks[x].revision)
  BY TasksFacts DEF TaskRecord
<1>5. TypeInv'
  <2>1. call' \in Answer
    BY <1>1 DEF Answer
  <2> QED  BY <2>1, <1>1, <1>3 DEF IInv, TypeInv
<1>6. GoodBoards'
  BY <1>0, <1>a, <1>3 DEF IInv, GoodBoards
<1>7. CallIsOnBoard'
  BY <1>1, <1>2, <1>4 DEF CallIsOnBoard
<1>8. ASSUME view # NoCall, Keeps(tasks, view)
      PROVE  Keeps(new, view)
  <2>1. /\ view.id \in DOMAIN tasks
        /\ tasks[view.id] = view.task \/ tasks[view.id].revision > view.task.revision
        /\ view.task.revision \in Nat
    BY <1>8 DEF Keeps, IInv, TypeInv, Answer, TaskRecord
  <2>2. CASE view.id = t
    <3>1. new[view.id].revision \in Nat
      BY <2>2, <1>2 DEF TaskRecord
    <3> QED  BY <2>1, <2>2, <3>1, <1>2, <1>b DEF Keeps
  <2>3. CASE view.id # t
    BY <2>1, <2>3, <1>2 DEF Keeps
  <2> QED  BY <2>2, <2>3
<1>9. ViewIsOfThePast'
  BY <1>1, <1>4, <1>8 DEF ViewIsOfThePast, IInv
<1>10. AckedSurvives'
  <2> SUFFICES ASSUME Told, NEW i \in 1 .. Len(boards) + 1
               PROVE  Keeps(boards'[i], view)
    BY <1>0, <1>1, <1>3 DEF AckedSurvives, Told
  <2>1. CASE i \in 1 .. Len(boards)
    BY <2>1, <1>0, <1>3 DEF IInv, AckedSurvives
  <2>2. CASE i = Len(boards) + 1
    <3>1. Keeps(tasks, view)
      BY <1>0 DEF IInv, AckedSurvives, tasks
    <3> QED  BY <2>2, <3>1, <1>3, <1>8 DEF Told
  <2> QED  BY <1>0, <2>1, <2>2
<1> QED  BY <1>5, <1>6, <1>7, <1>9, <1>10 DEF IInv

LEMMA InitIInv == Init => IInv
<1> SUFFICES ASSUME Init PROVE IInv
  OBVIOUS
<1>1. EmptyBoard \in [{} -> TaskRecord] /\ DOMAIN EmptyBoard = {}
  BY DEF EmptyBoard
<1>2. EmptyBoard \in Board
  BY <1>1 DEF Board
<1>3. /\ boards \in Seq(Board) \ {<<>>}
      /\ Len(boards) = 1 /\ boards[1] = EmptyBoard
  BY <1>2 DEF Init
<1>4. TypeInv
  BY <1>3, BoardAssumption DEF Init, TypeInv
<1>5. Good(EmptyBoard)
  BY <1>1 DEF Good, BoardType, BlockersKnown, BlockersLive, LiveTasks, Acyclic
<1>6. GoodBoards
  BY <1>3, <1>5 DEF GoodBoards
<1> QED  BY <1>4, <1>6 DEF IInv, Init, CallIsOnBoard, ViewIsOfThePast, AckedSurvives, Told

LEMMA NextIInv == IInv /\ [Next]_vars => IInv'
<1> SUFFICES ASSUME IInv, [Next]_vars PROVE IInv'
  OBVIOUS
<1> USE DEF tasks
<1>0. /\ boards \in Seq(Board) \ {<<>>}
      /\ Len(boards) \in Nat \ {0}
      /\ tasks \in Board
  BY TasksFacts DEF IInv, TypeInv
<1>1. ASSUME NEW c \in Caller, NEW t \in Task, Look(c, t)
      PROVE  IInv'
  <2>1. /\ view' = [caller |-> c, id |-> t, task |-> tasks[t], told |-> FALSE, lost |-> FALSE]
        /\ t \in DOMAIN tasks /\ tasks[t] \in TaskRecord
        /\ boards' = boards /\ call' = call /\ crashes' = crashes
    BY <1>1, TasksFacts DEF Look
  <2>2. TypeInv'
    BY <2>1 DEF IInv, TypeInv, Answer
  <2>3. ViewIsOfThePast'
    BY <2>1 DEF ViewIsOfThePast, Keeps
  <2> QED  BY <2>1, <2>2, <2>3 DEF IInv, GoodBoards, CallIsOnBoard, AckedSurvives, Told
<1>2. ASSUME NEW c \in Caller, NEW t \in Task, NEW blockers \in SUBSET Task, CreateTask(c, t, blockers)
      PROVE  IInv'
  BY <1>2, CreateCommits, CommitKeeps
<1>3. ASSUME NEW c \in Caller, NEW t \in Task, UpdateTask(c, t)
      PROVE  IInv'
  BY <1>3, UpdateCommits, CommitKeeps
<1>4. CASE FlushResolves
  <2>1. /\ call # NoCall /\ call' = NoCall
        /\ boards' = <<tasks>>
        /\ view' = view \/ view' = [call EXCEPT !.told = TRUE]
        /\ crashes' = crashes
    BY <1>4 DEF FlushResolves, Durable
  <2>2. Len(boards') = 1 /\ boards'[1] = tasks /\ boards' \in Seq(Board) \ {<<>>}
    BY <2>1, <1>0
  <2>3. tasks' = tasks
    BY <2>2
  <2>4. GoodBoards'
    BY <2>2, TasksFacts DEF GoodBoards
  <2>5. CASE view' = view
    <3>1. TypeInv'
      BY <2>1, <2>2, <2>5 DEF IInv, TypeInv
    <3>2. AckedSurvives'
      BY <2>1, <2>2, <2>5, <1>0 DEF IInv, AckedSurvives, Told
    <3> QED  BY <2>1, <2>3, <2>4, <2>5, <3>1, <3>2 DEF IInv, CallIsOnBoard, ViewIsOfThePast
  <2>6. CASE view' = [call EXCEPT !.told = TRUE]
    <3>1. call \in Answer
      BY <2>1 DEF IInv, TypeInv
    <3>2. view' \in Answer /\ view'.id = call.id /\ view'.task = call.task
      BY <2>6, <3>1 DEF Answer
    <3>3. call.id \in DOMAIN tasks /\ tasks[call.id] = call.task
      BY <2>1 DEF IInv, CallIsOnBoard
    <3>4. TypeInv'
      BY <2>1, <2>2, <3>2 DEF IInv, TypeInv
    <3>5. AckedSurvives'
      BY <2>2, <3>2, <3>3 DEF AckedSurvives, Keeps
    <3>6. ViewIsOfThePast'
      BY <2>3, <3>2, <3>3 DEF ViewIsOfThePast, Keeps
    <3> QED  BY <2>1, <2>4, <3>4, <3>5, <3>6 DEF IInv, CallIsOnBoard
  <2> QED  BY <2>1, <2>5, <2>6
<1>5. CASE FlushRejects
  BY <1>5 DEF FlushRejects, IInv, TypeInv, GoodBoards, CallIsOnBoard, ViewIsOfThePast, AckedSurvives, Told
<1>6. CASE LogAdvances
  <2>1. /\ boards' = Tail(boards) /\ Len(boards) > 1
        /\ call' = call /\ view' = view /\ crashes' = crashes
    BY <1>6 DEF LogAdvances, Unsaved
  <2>2. /\ boards' \in Seq(Board) \ {<<>>}
        /\ Len(boards') = Len(boards) - 1
        /\ \A i \in 1 .. Len(boards) - 1 : boards'[i] = boards[i + 1]
    <3>1. Tail(boards) \in Seq(Board) /\ Len(Tail(boards)) = Len(boards) - 1
      BY <2>1, <1>0
    <3>0. Len(<<>>) = 0
      OBVIOUS
    <3>2. Tail(boards) # <<>>
      <4>1. Len(Tail(boards)) # 0
        BY <2>1, <3>1, <1>0
      <4> QED  BY <4>1, <3>0
    <3>3. \A i \in 1 .. Len(boards) - 1 : Tail(boards)[i] = boards[i + 1]
      BY <2>1, <3>1, <1>0
    <3> QED  BY <2>1, <3>1, <3>2, <3>3
  <2>3. tasks' = tasks
    BY <2>1, <2>2, <1>0
  <2>4. TypeInv'
    BY <2>1, <2>2 DEF IInv, TypeInv
  <2>5. GoodBoards'
    BY <2>2, <1>0 DEF IInv, GoodBoards
  <2>6. AckedSurvives'
    BY <2>1, <2>2, <1>0 DEF IInv, AckedSurvives, Told
  <2> QED  BY <2>1, <2>3, <2>4, <2>5, <2>6 DEF IInv, CallIsOnBoard, ViewIsOfThePast
<1>7. CASE Restart
  <2>1. /\ boards' = <<Head(boards)>>
        /\ call' = NoCall
        /\ view' \in Remembered(boards[1])
        /\ crashes' \in 0 .. MaxCrashes
    BY <1>7, <1>0, BoardAssumption DEF Restart, IInv, TypeInv
  <2>2. /\ boards' \in Seq(Board) \ {<<>>}
        /\ Len(boards') = 1 /\ boards'[1] = boards[1]
    BY <2>1, <1>0
  <2>3. \/ view' = NoCall
        \/ view # NoCall /\ view' = [view EXCEPT !.lost = view.lost \/ ~Keeps(boards[1], view)]
    BY <2>1 DEF Remembered
  <2>4. view' \in Answer \cup {NoCall}
    BY <2>3 DEF IInv, TypeInv, Answer
  <2>5. TypeInv'
    BY <2>1, <2>2, <2>4 DEF IInv, TypeInv
  <2>6. GoodBoards'
    BY <2>2, <1>0 DEF IInv, GoodBoards
  <2>7. ASSUME view' # NoCall
        PROVE  /\ view \in Answer /\ view # NoCall
               /\ view'.id = view.id /\ view'.task = view.task /\ view'.told = view.told
               /\ ~view'.lost => Keeps(boards[1], view)
    <3>1. view \in Answer
      BY <2>3, <2>7 DEF IInv, TypeInv
    <3> QED  BY <2>3, <2>7, <3>1 DEF Answer
  <2>8. ViewIsOfThePast'
    BY <2>2, <2>7 DEF ViewIsOfThePast, Keeps
  <2>9. AckedSurvives'
    <3> SUFFICES ASSUME Told' PROVE Keeps(boards[1], view)
      BY <2>2, <2>7 DEF AckedSurvives, Keeps, Told
    <3>1. Told
      BY <2>7 DEF Told
    <3> QED  BY <3>1, <1>0 DEF IInv, AckedSurvives
  <2> QED  BY <2>1, <2>5, <2>6, <2>8, <2>9 DEF IInv, CallIsOnBoard
<1>8. CASE UNCHANGED vars
  BY <1>8 DEF vars, IInv, TypeInv, GoodBoards, CallIsOnBoard, ViewIsOfThePast, AckedSurvives, Told
<1> QED  BY <1>1, <1>2, <1>3, <1>4, <1>5, <1>6, <1>7, <1>8 DEF Next

(* The inductive invariant holds of every behaviour of the board. *)
THEOREM BoardInvariance == Spec => []IInv
<1> QED  BY InitIInv, NextIInv, PTL DEF Spec

-----------------------------------------------------------------------------
(* Boards, answers and looks keep their types. *)
THEOREM BoardTypeCorrect == Spec => []TypeOK
<1>1. ASSUME NEW board \in Board PROVE IsBoard(board)
  BY DEF Board, IsBoard
<1>2. IInv => TypeOK
  BY <1>1 DEF IInv, TypeInv, TypeOK
<1> QED  BY <1>2, BoardInvariance, PTL

(* Nothing a live task waits for is missing or deleted, however create,      *)
(* set_dependencies, delete and restarts interleave.                         *)
THEOREM BlockersStayAlive == Spec => []BlockersAreLive
<1>1. IInv => BlockersAreLive
  BY DEF IInv, GoodBoards, Good, TypeInv, BlockersAreLive
<1> QED  BY <1>1, BoardInvariance, PTL

(* The open tasks never all wait for each other.  Among them is one that     *)
(* waits for no open task; its blockers are alive, so they are completed.    *)
THEOREM OpenTasksGoOn == Spec => []NoDependencyDeadlock
<1>1. ASSUME NEW board, Good(board), OpenTasks(board) # {}
      PROVE  \E t \in OpenTasks(board) : Ready(board, t)
  <2>1. OpenTasks(board) \in SUBSET DOMAIN board
    BY DEF OpenTasks
  <2>2. PICK t \in OpenTasks(board) : board[t].blockedBy \cap OpenTasks(board) = {}
    BY <1>1, <2>1 DEF Good, Acyclic
  <2>3. ASSUME NEW b \in board[t].blockedBy
        PROVE  b \in DOMAIN board /\ board[b].status = "completed"
    <3>1. b \in DOMAIN board /\ board[b].status # "deleted"
      BY <1>1, <2>2 DEF Good, BlockersLive, LiveTasks, OpenTasks, Exists
    <3>2. board[b].status \in Status /\ board[b].status \notin {"pending", "in_progress"}
      BY <1>1, <2>2, <3>1 DEF Good, BoardType, TaskRecord, OpenTasks
    <3> QED  BY <3>1, <3>2 DEF Status
  <2> QED  BY <2>3 DEF Ready
<1>2. IInv => NoDependencyDeadlock
  BY <1>1 DEF IInv, GoodBoards, TypeInv, NoDependencyDeadlock
<1> QED  BY <1>2, BoardInvariance, PTL

(* What a caller was told of survives every restart. *)
THEOREM AnswersSurvive == Spec => []AckedSurvives
<1>1. IInv => AckedSurvives
  BY DEF IInv
<1> QED  BY <1>1, BoardInvariance, PTL

(* The comparison of revisions lets no update through that was computed from *)
(* a snapshot other than the current one, as long as no crash has taken that *)
(* snapshot from the board (task-board.ts:147).                              *)
THEOREM UpdatesAreSeen == Spec => NoLostUpdate
<1> DEFINE Seen == \A c \in Caller, t \in Task :
          Updates(c, t) /\ ~RemembersLost(c, t) => Saw(c, t) = tasks[t]
<1>1. IInv /\ [Next]_vars => [Seen]_vars
  <2> SUFFICES ASSUME IInv, Next,
                      NEW c \in Caller, NEW t \in Task,
                      call = NoCall, call' # NoCall, call'.caller = c, call'.id = t, t \in DOMAIN tasks,
                      ~RemembersLost(c, t)
               PROVE  Saw(c, t) = tasks[t]
    BY DEF Updates
  <2>1. ASSUME NEW d \in Caller, NEW x \in Task, UpdateTask(d, x)
        PROVE  Saw(c, t) = tasks[t]
    <3>1. ExpectsRevision(d, x) /\ call' = [caller |-> d, id |-> x, task |-> call'.task, told |-> FALSE, lost |-> FALSE]
      <4>1. PICK task \in TaskRecord : Commit(d, x, task) /\ ExpectsRevision(d, x)
        BY <2>1, UpdateCommits
      <4> QED  BY <4>1 DEF Commit
    <3>2. Saw(c, t).revision = tasks[t].revision
      BY <3>1 DEF ExpectsRevision
    <3>3. tasks[t].revision \in Nat
      BY TasksFacts DEF TaskRecord
    <3>4. view # NoCall /\ view.caller = c /\ view.id = t => Keeps(tasks, view)
      BY DEF RemembersLost, IInv, ViewIsOfThePast
    <3> QED  BY <3>2, <3>3, <3>4 DEF Saw, Keeps
  <2>2. ASSUME NEW d \in Caller, NEW x \in Task, NEW blockers \in SUBSET Task, CreateTask(d, x, blockers)
        PROVE  FALSE
    BY <2>2 DEF CreateTask, Commit
  <2>3. ASSUME NEW d \in Caller, NEW x \in Task, Look(d, x)
        PROVE  FALSE
    BY <2>3 DEF Look
  <2> QED  BY <2>1, <2>2, <2>3 DEF Next, FlushResolves, FlushRejects, LogAdvances, Restart
<1> QED  BY <1>1, BoardInvariance, PTL DEF Spec, NoLostUpdate
=============================================================================
