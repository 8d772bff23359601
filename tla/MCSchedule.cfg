CONSTANTS
    MaxTime = 5
    MaxCreates = 2
    MaxCrashes = 1
    Delays = {1}
    Interval = 2
SPECIFICATION Spec
INVARIANTS
    StreamStaysFoldable
    DispatchedIsAdmitted
    KeepsItsAnchor
PROPERTY DueReachesModel
CHECK_DEADLOCK FALSE
