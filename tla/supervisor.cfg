SPECIFICATION FairSpec
CONSTANTS
    Orphans = {o1}
    Signals = {"TERM", "INT", "HUP", "QUIT"}
    Fatal <- UserCommands
    Statuses <- TwoStatuses
    SigCap = 1
    MaxSignals = 2
INVARIANTS TypeOK UserCodeWins
PROPERTIES SshdDeathExits OrphansReaped
CHECK_DEADLOCK FALSE
