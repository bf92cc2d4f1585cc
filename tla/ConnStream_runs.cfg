\* Two runs whose processes may overlap, kills, errors and sleeps that are too short.
SPECIFICATION FairSpec
CONSTANTS
    Size = 2
    Counts = {1, 2}
    Capacity = 3
    MaxRuns = 2
    MaxFaults = 2
INVARIANTS
    CheckIsExact
    OwnReader
    OwnWriterFirst
    OnlyAcceptHangs
PROPERTY
    EveryRunCompletes
\* A reader whose writer never connected waits in accept for ever.
CHECK_DEADLOCK FALSE
