SPECIFICATION Spec
CONSTANTS
    Sender = {1, 2}
    Tx <- TxDisplaced
    sender <- senderDef
    nonce <- nonceDef
    SigningRevocation <- RevocationDef
    GenesisValidator = 2
    MAX_TX_PER_BLOCK = 1
    MAX_TX_POOL_SIZE = 2
    MAX_REORG_DEPTH = 2
    SQLite = FALSE
    OtherValidators = TRUE
    AppendMayFail = TRUE
    ExactRollback = TRUE
    MaxForkLen = 3
    MaxHeight = 4
    MaxPool = 3
CHECK_DEADLOCK FALSE
PROPERTY ReorgAllOrNothing
PROPERTY DisplacedKept
