CONSTANTS
    q = q
    p = p
    s = s
    First = First
    NoInput = NoInput
    Input = {q, p, s}
    Steer = {s}
    Signalled = {q, p, s}
    MaxRestarts = 2
SPECIFICATION MCSpec
INVARIANTS
    LaneServesOne
    CancelledStaysCancelled
    RunningIsShown
PROPERTY
    AcceptedIsRun
CHECK_DEADLOCK FALSE
