SPECIFICATION FairProduction
CONSTANTS
    Sender = {1, 2}
    Tx <- TxSolo
    sender <- senderDef
    nonce <- nonceDef
    SigningRevocation <- RevocationDef
    GenesisValidator = 2
    MAX_TX_PER_BLOCK = 2
    MAX_TX_POOL_SIZE = 3
    MAX_REORG_DEPTH = 1
    SQLite = TRUE
    OtherValidators = FALSE
    AppendMayFail = FALSE
    ExactRollback = TRUE
    MaxForkLen = 0
    MaxHeight = 8
    MaxPool = 2
CHECK_DEADLOCK FALSE
INVARIANT PoolNotRevoked
INVARIANT PoolMinable
INVARIANT PoolCountExact
PROPERTY PoolDrains
