SPECIFICATION Spec
CONSTANTS
    MaxByte = 1
    DBValue <- MCDBValue
    ColumnCounts = {1, 2}
    Transactions <- PrefixTransactions
    MaxOpens = 3
    MaxWrites = 3
INVARIANT
    StoredWhole
CHECK_DEADLOCK FALSE
