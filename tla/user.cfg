SPECIFICATION FairSpec
CONSTANTS
    Users = {u}
    DevPods = {d, e}
    Lag <- Lag2
    MaxUsers = 2
    MaxEdits = 1
    MaxDevPods = 3
    MaxFaults = 1
INVARIANT TypeOK
PROPERTIES ChangesSurvive UserReleased CountConverges
CHECK_DEADLOCK FALSE
