SPECIFICATION PoolSpec
CONSTANTS
    Count = 2
    BufSize = 2
    Trys = 2
    MaxDraws = 5
INVARIANTS
    NonceOnce
    PointOfNonce
