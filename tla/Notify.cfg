SPECIFICATION FairSpec
CONSTANTS
    c1 = c1
    c2 = c2
    w1 = w1
    Client = {c1, c2}
    Asked = {"new_block", "chain_stats"}
    Notifier = {"peer", "stats_loop"}
    Kind <- KindDef
    MAX_WS_CONNECTIONS = 1
    MAX_SUBSCRIPTIONS_PER_CLIENT = 2
    Webhook = {w1}
    MAX_WEBHOOKS = 1
    RETRIES = 2
    CONSECUTIVE_FAIL_DISABLE = 2
    Users <- UsersDef
    MaxTasks = 2
CHECK_DEADLOCK FALSE
INVARIANT NoGhost
PROPERTY NotifyEnds
PROPERTY LeftAlone
