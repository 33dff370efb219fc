CHECK_DEADLOCK FALSE
SPECIFICATION Spec
CONSTANTS
    t1 = t1
    t2 = t2
    MaxByte = 1
    EndLen = 2
    DBValue <- MCDBValue
    Threads <- MCThreads
    Transactions <- MCTransactions
    IterPrefixes <- MCIterPrefixes
    Copies = {"copy", "spare"}
    CopyContent <- MCCopyContent
    MaxRestores = 2
    MaxWrites = 2
INVARIANTS
    IterExact
    HandleSound
PROPERTIES
    WrittenAsDocumented
    RestoredContent
    CallsReturn
