SPECIFICATION Spec
CONSTANTS
    Addr = {"a", "b"}
    Tx <- TxDef
    None = None
    MAX_TX_PER_BLOCK = 2
    MAX_REORG_DEPTH = 1
    MAX_TOKEN_AMOUNT = 3
    MaxHeight = 4
    MaxPool = 1
    MaxRollback = 1
CHECK_DEADLOCK FALSE
INVARIANT RegistriesExact
INVARIANT TokensExact
