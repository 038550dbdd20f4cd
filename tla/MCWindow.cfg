CONSTANTS
    LocalWindow = 8
    WindowRefill = 4
    MaxChunk = 4
    Ceiling = 8
SPECIFICATION WindowSpec
INVARIANT Inv
INVARIANT NeverStarved
CHECK_DEADLOCK FALSE
