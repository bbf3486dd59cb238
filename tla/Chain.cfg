SPECIFICATION Spec
CONSTANTS
    Sender = {1, 2}
    Tx <- TxFork
    sender <- senderDef
    nonce <- nonceDef
    SigningRevocation <- RevocationDef
    GenesisValidator = 2
    MAX_TX_PER_BLOCK = 2
    MAX_TX_POOL_SIZE = 1
    MAX_REORG_DEPTH = 2
    SQLite = FALSE
    OtherValidators = TRUE
    AppendMayFail = TRUE
    ExactRollback = FALSE
    MaxForkLen = 3
    MaxHeight = 4
    MaxPool = 1
CHECK_DEADLOCK FALSE
INVARIANT TypeOK
INVARIANT NoReplay
INVARIANT NonceExact
INVARIANT IndexExact
INVARIANT RevokedSilent
INVARIANT Inv
