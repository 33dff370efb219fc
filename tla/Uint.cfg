\* Words of 4 bits in halves of 2: the corrections of division are all met.
CONSTANTS
    HalfBits = 2
    n_words = 3
    Corners = {0, 1, 7, 8, 15}
    Operands <- MCOperands
    HashLens = {1, 2, 3, 6, 8}
    MaxChars = 5
    BLOOM_SIZE = 4
    ByteBits = 2
    Inputs <- MCInputs
    HashBytes <- MCHashBytes
    Holders = {x, y}
SPECIFICATION HashSpec
INVARIANTS
    ArithmeticExact
    DivModExact
    PowersExact
    ConversionsExact
    HashesExact
    HexExact
    BloomExact
CHECK_DEADLOCK FALSE
