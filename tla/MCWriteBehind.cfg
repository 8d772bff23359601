CONSTANT MaxEvents = 4
SPECIFICATION Spec
INVARIANTS
    NothingLostOrReordered
    NoLostWakeup
    FlushedIsDurable
PROPERTIES
    EventuallyDurable
    LogSpec
CHECK_DEADLOCK FALSE
