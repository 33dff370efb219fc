SPECIFICATION Spec
CONSTANTS
    Txs <- MCTxs
    Senders <- MCSenders
    Sender <- MCSender
    Nonce <- MCNonce
    MemUsage <- MCMemUsage
    ScoreOf <- GasPrice
    Choose <- DummyChoose
    ScoreAt <- LazyScoreAt
    ShouldReplace <- AnyShouldReplace
    IgnoresSenderLimit <- SomeTxs
    max_count = 4
    max_per_sender = 1
    max_mem_usage = 9
    MaxInsertions = 4
PROPERTY
    OrdinaryKeepSenderLimit
