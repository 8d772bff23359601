CONSTANTS
    a = a
    b = b
    o1 = o1
    o2 = o2
    NoProc = NoProc
    Proc = {a}
    Locking = {a}
    Op = {o1, o2}
    MaxSeq = 3
    MaxCrashes = 0
    Calls <- WriterCalls
    LiveLoads = TRUE
    MayClose = {}
    LateCalls = FALSE
SPECIFICATION Spec
INVARIANT LogStaysLoadable
CHECK_DEADLOCK FALSE
