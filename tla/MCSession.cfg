SPECIFICATION FairSpec
CONSTANTS
    LocalWindow <- Window2
    WindowRefill <- Each1
    MaxChunk <- Each1
    Ceiling = 2
    IsSession = TRUE
    RequestKinds <- SessionRequests
    EndOnClose = {"client"}
    MayFail = {"client", "server"}
    Jobs <- Typical
    Status = {"exit-status", "exit-signal"}
    PipeCap = 1
    Fragile <- Unlucky
INVARIANTS OutputBeforeStatus
PROPERTIES NoOrphan VerdictReached
CHECK_DEADLOCK FALSE
