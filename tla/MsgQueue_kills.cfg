\* As many messages as the queue holds, and more; kills; sizes that change.
SPECIFICATION FairSpec
CONSTANTS
    Sizes <- ThreeSizes
    Counts = {2, 3}
    MaxMessages = 2
    SizeLimit = 2
    MaxRuns = 3
    MaxKills = 2
INVARIANTS
    SameQueue
    InOrder
    NothingLeft
    HangHasCause
PROPERTIES
    EveryRunCompletes
    TransfersThroughQueue
\* A process whose peer was killed, or has another queue, waits for ever.
CHECK_DEADLOCK FALSE
