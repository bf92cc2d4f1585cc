\* The assertion of posixq.c:81 after a killed run left a queue of larger messages.
SPECIFICATION Spec
CONSTANTS
    Sizes <- TwoSizes
    Counts = {3}
    MaxMessages = 2
    SizeLimit = 2
    MaxRuns = 2
    MaxKills = 2
INVARIANT
    CheckMeansReceived
CHECK_DEADLOCK FALSE
