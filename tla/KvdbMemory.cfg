SPECIFICATION Spec
CONSTANTS
    t1 = t1
    t2 = t2
    MaxByte = 1
    DBValue <- MCDBValue
    num_cols = 1
    Threads <- MCThreads
    Transactions <- MCTransactions
    Queries <- MCQueries
INVARIANTS
    PartWayExact
PROPERTIES
    ImplementsKeyValueDB
