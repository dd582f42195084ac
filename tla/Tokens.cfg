SPECIFICATION TokensSpec
CONSTANTS
    Bearers = {b1, b2}
    LowerCase = {b2}
    RefreshTTL = 1
    FetchTimeout = 1
    TokenLife = 3
    MaxKeys = 2
    None = None
INVARIANT VerdictsSafe
PROPERTIES
    RetiredKeyLapses
    EveryVerifyReturns
CHECK_DEADLOCK FALSE
