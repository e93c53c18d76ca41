SPECIFICATION Spec
CONSTANTS
    Conns = {c1}
    k1 = k1
    k2 = k2
    kp = kp
    Logins <- ThreeLogins
    Keys = {k1, k2, kp}
    ProxyKeys = {kp}
    Garbage = Garbage
    Absent = Absent
    Failed = Failed
    Directory <- TwoAnswers
    Worlds <- StartWorlds
    DevPodStates <- FewDevPods
    UserLines <- TwoLines
    MaxAuthTries = 2
    MaxChanges = 1
PROPERTIES RejectionRecorded
CHECK_DEADLOCK FALSE
