\* A fault: a kill, or a call that fails in a reader or a writer.
SPECIFICATION Spec
CONSTANTS
    MaxFaults = 1
INVARIANTS
    HangHasCause
    ReportsWritten
    OneWriter
\* A process whose peer is gone may wait for ever.
CHECK_DEADLOCK FALSE
