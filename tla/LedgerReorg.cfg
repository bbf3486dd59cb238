SPECIFICATION Spec
CONSTANTS
    Addr = {"v", "w", "a"}
    Validator = {"v", "w"}
    Self = "v"
    Tx <- TxTwo
    TX_FEES <- FeesDef
    DynamicFee = FALSE
    INITIAL_BLOCK_REWARD = 4
    HALVING_INTERVAL = 3
    MAX_SUPPLY = 100
    GENESIS_BALANCE = 10
    UNBONDING_PERIOD = 6
    EPOCH_LENGTH = 6
    COMMISSION = 10
    SLASH_PERCENTAGE = 50
    MIN_STAKE = 1
    MAX_TX_PER_BLOCK = 2
    MAX_TX_POOL_SIZE = 0
    MAX_REORG_DEPTH = 2
    Producer = FALSE
    UnfundedBlocks = FALSE
    RootsMayDiffer = TRUE
    MaxHeight = 5
    MinMinted = 1
    MaxRollback = 2
CHECK_DEADLOCK FALSE
INVARIANT TrieExact
PROPERTY RollbackRestores
PROPERTY FailedAppendUndone
