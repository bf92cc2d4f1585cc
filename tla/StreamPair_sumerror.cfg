\* The assertion of pipe.c:54 on messages longer than an atomic write.
SPECIFICATION Spec
CONSTANTS
    Size = 3
    Count = 2
    AtomicSizes = {2}
    Capacity = 4
    MaxKills = 0
    MaxErrors = 0
    ForkMayFail = FALSE
INVARIANT
    SumCheckPasses
CHECK_DEADLOCK FALSE
