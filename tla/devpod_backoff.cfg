SPECIFICATION Spec
CONSTANTS
    Names = {a}
    OwnerOf <- OneOwner
    VMBacked = {}
    HostNetwork = {}
    IsolateNetwork = FALSE
    Persistence = {FALSE}
    Edits = {}
    Lag <- NoLag
    MaxDevPods = 1
    MaxEdits = 0
    MaxPodFaults = 1
    MaxRetry = 2
    MaxFaults = 0
    MaxTime = 1
PROPERTIES RetryResetOnlyWhenRunning
CHECK_DEADLOCK FALSE
