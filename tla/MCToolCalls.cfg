CONSTANTS
    N = 4
    Exclusive = {3}
    MaxParallel = 2
SPECIFICATION Spec
INVARIANTS
    AnsweredOnce
    InModelOrder
    NeverRanIsTrue
    EverythingIsAnswered
PROPERTIES
    StopIsObeyed
    BatchEnds
CHECK_DEADLOCK FALSE
