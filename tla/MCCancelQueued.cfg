CONSTANTS
    q = q
    p = p
    s = s
    First = First
    NoInput = NoInput
    Input = {q, s}
    Steer = {s}
    Signalled = {q, s}
    MaxRestarts = 1
SPECIFICATION QueueSpec
INVARIANT
    CancelledIsNotRun
CHECK_DEADLOCK FALSE
