SPECIFICATION FairSpec
CONSTANTS
    c12 = c12
    c21 = c21
    c31 = c31
    c23 = c23
    Node = {1, 2, 3}
    Conn = {c12, c21, c31, c23}
    Dials <- DialsDef
    Caller <- CallerDef
    Callee <- CalleeDef
    Signing = {1, 2}
    Encrypting = {1, 2}
    Msgpack = {}
    MAX_PEERS = 1
    FirstScore <- ScoreDef
    NoConn = NoConn
    MaxData <- DataDef
    MaxTimeouts = 1
CHECK_DEADLOCK FALSE
INVARIANT TrustedDataAccepted
INVARIANT OneIsKept
INVARIANT RegisteredLive
PROPERTY HandshakeEnds
PROPERTY HalfOpenEnds
