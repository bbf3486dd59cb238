SPECIFICATION Spec
CONSTANTS
    Addr = {"v", "w", "a"}
    Validator = {"v", "w"}
    Self = "v"
    Tx <- TxDef
    TX_FEES <- FeesDef
    DynamicFee = FALSE
    INITIAL_BLOCK_REWARD = 4
    HALVING_INTERVAL = 3
    MAX_SUPPLY = 100
    GENESIS_BALANCE = 10
    UNBONDING_PERIOD = 6
    EPOCH_LENGTH = 2
    COMMISSION = 10
    SLASH_PERCENTAGE = 50
    MIN_STAKE = 1
    MAX_TX_PER_BLOCK = 1
    MAX_REORG_DEPTH = 2
    Producer = TRUE
    MaxHeight = 4
    MaxRollback = 2
    MaxCrashes = 2
CHECK_DEADLOCK FALSE
INVARIANT TipExact
INVARIANT RowsExact
INVARIANT StakesRebuilt
INVARIANT RestartKeeps
