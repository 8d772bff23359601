CONSTANTS
    MaxTime = 5
    MaxCreates = 2
    MaxCrashes = 1
    Delays = {1}
    Interval = 2
SPECIFICATION Spec
INVARIANT NoReminderLost
CHECK_DEADLOCK FALSE
