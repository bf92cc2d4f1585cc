\* Kills, failing set-up calls and the leftovers of earlier runs; sleep(1) suffices.
SPECIFICATION FairSpec
CONSTANTS
    Sizes <- TwoSizes
    Count = 3
    MaxRuns = 3
    MaxKills = 2
    Faults <- AnyFault
    SleepCoversSetup = TRUE
INVARIANTS
    MutualExclusion
    Intact
    RemovalWaits
    NothingLeft
    NoMutualWait
PROPERTIES
    TransfersInTurn
    EveryRunCompletes
\* A process whose peer was killed waits in semop for ever.
CHECK_DEADLOCK FALSE
