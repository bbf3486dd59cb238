SPECIFICATION Spec
CONSTANTS
    Addr = {"v", "a"}
    Validator = {"v"}
    Self = "v"
    Tx <- TxEpoch
    TX_FEES <- FeesDef
    DynamicFee = TRUE
    INITIAL_BLOCK_REWARD = 4
    HALVING_INTERVAL = 3
    MAX_SUPPLY = 100
    GENESIS_BALANCE = 10
    UNBONDING_PERIOD = 2
    EPOCH_LENGTH = 2
    COMMISSION = 10
    SLASH_PERCENTAGE = 50
    MIN_STAKE = 1
    MAX_TX_PER_BLOCK = 2
    MAX_TX_POOL_SIZE = 3
    MAX_REORG_DEPTH = 2
    Producer = TRUE
    UnfundedBlocks = FALSE
    RootsMayDiffer = FALSE
    MaxHeight = 6
    MinMinted = 1
    MaxRollback = 0
CHECK_DEADLOCK FALSE
INVARIANT TotalStakeExact
INVARIANT SupplyConserved
