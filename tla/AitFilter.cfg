CONSTANTS
    p1 = p1
    p2 = p2
    a1 = a1
    a2 = a2
    x = x
    y = y
    NoPid = NoPid
    NoVersion = NoVersion
    Nothing = Nothing
    FirstVersion = 31
    PmtPid <- MCPmtPid
    Content <- MCContent
    AitPid <- MCAitPid
    MaxChanges = 3
SPECIFICATION FairSpec
INVARIANTS
    StaysAttentive
PROPERTY
    AitFound
CHECK_DEADLOCK FALSE
