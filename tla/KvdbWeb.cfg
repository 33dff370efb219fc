SPECIFICATION Spec
CONSTANTS
    MaxByte = 1
    DBValue <- MCDBValue
    ColumnCounts = {1, 2}
    Transactions <- PlainTransactions
    MaxOpens = 4
    MaxWrites = 4
INVARIANTS
    StoredWhole
    OpenComplete
PROPERTY
    OpenFinishes
CHECK_DEADLOCK FALSE
