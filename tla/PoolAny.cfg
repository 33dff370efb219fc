SPECIFICATION Spec
CONSTANTS
    Txs <- MCTxs
    Senders <- MCSenders
    Sender <- MCSender
    Nonce <- MCNonce
    MemUsage <- MCMemUsage
    ScoreOf <- GasPrice
    Choose <- DummyChoose
    ScoreAt <- LazyScoreAt
    ShouldReplace <- AnyShouldReplace
    IgnoresSenderLimit <- SomeTxs
    max_count = 2
    max_per_sender = 2
    max_mem_usage = 3
    MaxInsertions = 6
INVARIANTS
    PoolConsistent
    ScoresFollow
PROPERTY
    OperationsReturn
