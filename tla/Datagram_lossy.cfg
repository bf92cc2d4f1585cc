\* A small receive buffer, a short sleep, kills, errors and a failed fork.
SPECIFICATION FairSpec
CONSTANTS
    Sizes <- ZeroOrTwo
    Count = 4
    Slots = 2
    MaxKills = 1
    MaxErrors = 2
    SleepCoversSetup = FALSE
    ForkMayFail = TRUE
INVARIANTS
    Conservation
    LossShowsAsHang
    HangHasCause
PROPERTY
    CompletesUnlessLost
\* A receiver that misses a datagram waits for ever.
CHECK_DEADLOCK FALSE
