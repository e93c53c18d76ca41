SPECIFICATION FairSpec
CONSTANTS
    Names = {a}
    OwnerOf <- OneOwner
    VMBacked = {}
    HostNetwork = {}
    IsolateNetwork = FALSE
    Persistence = {TRUE}
    Edits = {}
    Lag <- PodLag
    MaxDevPods = 1
    MaxEdits = 0
    MaxPodFaults = 1
    MaxRetry = 2
    MaxFaults = 1
    MaxTime = 1
INVARIANT TypeOK
PROPERTIES Converges
CHECK_DEADLOCK FALSE
