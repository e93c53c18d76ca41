SPECIFICATION FairSpec
CONSTANTS
    Names = {s}
    Auth = {TRUE, FALSE}
    Lag <- ReadLag1
    MaxSnapshots = 2
    MaxEdits = 1
    MaxFlips = 1
    MaxFaults = 1
INVARIANTS TypeOK SuccessIsReal AuthFirst
PROPERTIES Concludes
CHECK_DEADLOCK FALSE
