\* The writer may wake up at any moment of the reader's set-up, which may fail up to its shmget.
SPECIFICATION Spec
CONSTANTS
    Sizes <- TwoSizes
    Count = 2
    MaxRuns = 3
    MaxKills = 1
    Faults <- NotShmat
    SleepCoversSetup = FALSE
INVARIANTS
    SafeWithoutSleep
\* A writer that wakes too early fails and leaves the reader waiting for ever.
CHECK_DEADLOCK FALSE
