SPECIFICATION FairSpec
CONSTANTS
    n1 = n1
    n2 = n2
    n3 = n3
    Node = {n1, n2, n3}
    Links <- Line
    Temp <- Inbound
    Turn <- TurnDef
    FIRST_BATCH = 1
    BATCH = 1
    P2P_RATE_VIOLATIONS_MAX = 2
    FirstScore <- Blamed
    FirstViolations <- Counted
    Request = {1}
    MaxHeight = 2
    Running = {n1, n2}
    MaxDrops = 1
CHECK_DEADLOCK FALSE
INVARIANT FirstPenaltyOnly
PROPERTY Replicates
PROPERTY Delivered
