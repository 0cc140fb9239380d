SPECIFICATION TlsfSpec
CONSTANTS
    MaxFli = 8
    Log2Sli = 2
    FliOffset = 2
    Align = 4
    MinBlock = 2
    Overhead = 2
    AreaSize = 84
    Admin = 10
    Sizes = {1, 15, 41}
    MaxBlocks = 3
INVARIANTS PoolInv LargeEnough RefusedOnlyWhenFull
