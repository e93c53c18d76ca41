SPECIFICATION FairSpec
CONSTANTS
    Names = {a}
    OwnerOf <- OneOwner
    VMBacked = {}
    HostNetwork = {}
    IsolateNetwork = FALSE
    Persistence = {TRUE}
    Edits = {"running", "template", "persistence"}
    Lag <- ChildLag
    MaxDevPods = 1
    MaxEdits = 1
    MaxPodFaults = 0
    MaxRetry = 2
    MaxFaults = 1
    MaxTime = 1
PROPERTIES HostKeyStable HomeRetained Converges
CHECK_DEADLOCK FALSE
