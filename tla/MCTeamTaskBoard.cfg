CONSTANTS
    t1 = t1
    t2 = t2
    t3 = t3
    m1 = m1
    Lead = Lead
    NoOwner = NoOwner
    NoTask = NoTask
    NoCall = NoCall
    Task = {t1, t2, t3}
    Member = {m1}
    MaxTasks = 3
    MaxRevision <- Revisions
    MaxUnsaved = 2
    MaxCrashes = 1
    Watched <- Followed
SPECIFICATION MCSpec
INVARIANTS
    BlockersAreLive
    NoDependencyDeadlock
    AckedSurvives
PROPERTY NoLostUpdate
CHECK_DEADLOCK FALSE
