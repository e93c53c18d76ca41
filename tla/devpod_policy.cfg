SPECIFICATION Spec
CONSTANTS
    Names = {a, b}
    OwnerOf <- OneOwner
    VMBacked = {}
    HostNetwork = {}
    IsolateNetwork = TRUE
    Persistence = {FALSE}
    Edits = {}
    Lag <- DevPodLag2
    MaxDevPods = 2
    MaxEdits = 0
    MaxPodFaults = 0
    MaxRetry = 2
    MaxFaults = 1
    MaxTime = 1
INVARIANT EndpointHasPolicy
SYMMETRY Symmetry
CHECK_DEADLOCK FALSE
