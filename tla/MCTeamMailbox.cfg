CONSTANTS
    x = x
    y = y
    z = z
    m1 = m1
    Lead = Lead
    Sweep = Sweep
    NoActor = NoActor
    Msg = {x, y, z}
    Member = {m1}
    Quiet = {}
    MaxPending = 1
    MaxCrashes = 2
SYMMETRY AnyMessage
SPECIFICATION MCSpec
INVARIANTS
    DeliveredIsHeld
    AnsweredSurvives
    MailboxBounded
    LogReplays
CHECK_DEADLOCK FALSE
