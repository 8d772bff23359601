CONSTANTS
    a = a
    b = b
    o1 = o1
    o2 = o2
    NoProc = NoProc
    Proc = {a, b}
    Locking = {a, b}
    Op = {o1, o2}
    MaxSeq = 2
    MaxCrashes = 1
    Calls <- RunCalls
    LiveLoads = FALSE
    MayClose = {a}
    LateCalls = FALSE
SPECIFICATION Spec
INVARIANTS
    LeaseCoversWork
    SavedStaysSaved
    LogStaysLoadable
PROPERTIES
    BorrowedLeaseComesBack
    OperationsEnd
CHECK_DEADLOCK FALSE
