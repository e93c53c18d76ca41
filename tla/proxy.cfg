SPECIFICATION FairSpec
CONSTANTS
    Types = {"session", "direct-tcpip"}
    MaxData = 1
INVARIANTS TypeOK ExitStatusFirst DataFirst NoEarlyEOF
PROPERTY AllEnd
CHECK_DEADLOCK FALSE
