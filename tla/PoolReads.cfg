SPECIFICATION ReadSpec
CONSTANTS
    Txs <- MCTxs
    Senders <- MCSenders
    Sender <- MCSender
    Nonce <- MCNonce
    MemUsage <- MCMemUsage
    ScoreOf <- GasPrice
    Choose <- DummyChoose
    ScoreAt <- DummyScoreAt
    ShouldReplace <- DummyShouldReplace
    IgnoresSenderLimit <- NoTxs
    Starts <- MCStarts
    max_count = 3
    max_per_sender = 2
    max_mem_usage = 5
    MaxInsertions = 5
INVARIANTS
    PendingExact
    ReadsAgree
    MemUsageExact
    LimitsRespected
PROPERTIES
    PendingEnds
    RemovalsKeepOrder
