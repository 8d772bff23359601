CONSTANTS
    MaxSeq = 4
    MaxBatch = 3
    MaxCrashes = 2
    Faults = {"stat", "short", "truncate", "unterminated"}
SPECIFICATION Spec
INVARIANTS
    AcknowledgedStaysReadable
    SeqsArePositional
CHECK_DEADLOCK FALSE
