SPECIFICATION Spec
CONSTANTS
    Order = 13
    Size = 20
    Affine <- MCAffine
    Hmac <- MCHmac
    SeedHmac <- MCSeedHmac
    ChainCode <- MCChainCode
    AddressOf <- MCAddressOf
    HardFrom = 3
    Indices = {0, 1, 2, 3, 4}
    Seeds = {0, 1, 4}
    Messages = {0, 3, 13, 19}
    Exponents = {0, 1, 2, 3, 5}
    Auths <- Texts
    Plains <- Texts
INVARIANTS
    SecretMathExact
    DerivationCommutes
    SignaturesAccepted
    SealedOpensForOwner
