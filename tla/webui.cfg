SPECIFICATION Spec
CONSTANTS
    Requests = {r1, r2}
    Users <- ThreeUsers
    Names <- TwoNames
    Ops <- AllOps
    KoreEnabled = TRUE
    Admins = {}
    DefaultQuota <- StartQuota
    Edited <- ThreeUsers
    Quotas <- OtherQuotas
    Unset = Unset
    Absent = Absent
    TTL = 1
    Starts <- TwoStarts
    MaxTime = 1
    MaxWrites = 2
INVARIANTS TypeOK KoreFromTemplates
PROPERTIES QuotaKept RefusalJustified OthersChangesSurvive AdminRightsExpire
SYMMETRY Symmetry
CHECK_DEADLOCK FALSE
