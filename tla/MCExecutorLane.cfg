CONSTANTS
    q = q
    r = r
    s = s
    First = First
    NoInput = NoInput
    Input = {q, r, s}
    Steer = {s}
    Signalled = {q}
    MaxRestarts = 1
SPECIFICATION Spec
INVARIANTS
    ReadOnce
    OneLostPerRestart
    NoOvertaking
    AnswerIsOwn
    DoneIsDurable
PROPERTY
    SubmissionsAreServed
CHECK_DEADLOCK FALSE
