SPECIFICATION CallSpec
CONSTANTS
    Single = 6
    Short = 2
    Wide = 2
    Narrow = 2
    Data <- MCData
    RawItems <- MCRawItems
    Raw <- MCRaw
    Prior <- MCPrior
    Received <- Slices
    MaxLen = 2
    MaxDepth = 3
    MaxSteps = 4
    MaxIndex = 3
    Radix = 4
    HashLen = 12
    KeyHash <- MCKeyHash
    Keys <- MCKeys
    Values <- MCValues
    MaxPairs = 4
INVARIANTS
    StreamExact
    CountsExact
    ReadsExact
    CacheTransparent
    TrieRootsExact
CHECK_DEADLOCK FALSE
