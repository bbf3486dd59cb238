SPECIFICATION Spec
CONSTANTS
    Addr = {"v", "a"}
    Validator = {"v"}
    Self = "v"
    Tx <- TxEvidence
    TX_FEES <- FeesDef
    DynamicFee = FALSE
    INITIAL_BLOCK_REWARD = 4
    HALVING_INTERVAL = 3
    MAX_SUPPLY = 17
    GENESIS_BALANCE = 10
    UNBONDING_PERIOD = 2
    EPOCH_LENGTH = 6
    COMMISSION = 10
    SLASH_PERCENTAGE = 50
    MIN_STAKE = 1
    MAX_TX_PER_BLOCK = 2
    MAX_TX_POOL_SIZE = 3
    MAX_REORG_DEPTH = 2
    Producer = TRUE
    UnfundedBlocks = FALSE
    RootsMayDiffer = FALSE
    MaxHeight = 4
    MinMinted = 1
    MaxRollback = 0
CHECK_DEADLOCK FALSE
INVARIANT TypeOK
INVARIANT PoolAffordable
