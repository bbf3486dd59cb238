SPECIFICATION FairSpec
CONSTANTS
    p = p
    q = q
    Peer = {p, q}
    Branch <- Two
    Fork = 1
    Forging = {q}
    Temps <- TempsDef
    Registration <- First
    Newcomer <- Third
    FirstHeight <- Heights
    FirstScore <- Blamed
    Request = {1, 2, 3}
    SYNC_BATCH_SIZE = 2
    SYNC_BLOCK_BATCH = 1
    SYNC_MAX_PARALLEL = 2
    SYNC_MAX_RETRIES = 2
    SYNC_THRESHOLD = 1
    NoPeer = NoPeer
    MaxHeight = 3
    MaxGossip = 1
    MaxTimeouts = 1
    MaxLost = 1
CHECK_DEADLOCK FALSE
INVARIANT OneBranch
PROPERTY ProductionResumes
PROPERTY CatchesUp
