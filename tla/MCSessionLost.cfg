SPECIFICATION FairSpec
CONSTANTS
    LocalWindow <- Window2
    WindowRefill <- Each1
    MaxChunk <- Each1
    Ceiling = 2
    IsSession = TRUE
    RequestKinds <- SessionRequests
    EndOnClose = {"client"}
    MayFail = {}
    Jobs <- Impatient
    Status = {"exit-status", "exit-signal"}
    PipeCap = 1
    Fragile = {}
PROPERTIES ExitReported
CHECK_DEADLOCK FALSE
