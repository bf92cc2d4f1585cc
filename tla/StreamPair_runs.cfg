\* Messages that fit into one atomic write and longer ones; kills, errors, a failed fork.
SPECIFICATION FairSpec
CONSTANTS
    Size = 3
    Count = 4
    AtomicSizes = {2, 3}
    Capacity = 7
    MaxKills = 1
    MaxErrors = 1
    ForkMayFail = TRUE
INVARIANTS
    Accounting
    CheckIsRight
    HangHasCause
PROPERTIES
    TransfersWhole
    Completes
\* A process whose peer is gone stays blocked: it holds both ends itself.
CHECK_DEADLOCK FALSE
