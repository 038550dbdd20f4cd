CONSTANTS
    LocalWindow <- SmallWindow
    WindowRefill <- SmallRefill
    MaxChunk <- MixedChunk
    Ceiling = 8
    IsSession = FALSE
    RequestKinds = {}
    EndOnClose = {}
    TotalBytes <- Upload
    MayFail = {"client", "server"}
SPECIFICATION FairSpec
CHECK_DEADLOCK FALSE
INVARIANT StreamsIntact
PROPERTY WindowBothWays
PROPERTY Finishes
