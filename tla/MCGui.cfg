SPECIFICATION FairSpec
CONSTANTS
    Clients = {"tab", "cli"}
    Tabs = {"tab"}
    Targets <- MCTargets
    Keys = {"k1", "k2"}
    HostCerts <- MCHostCerts
    Setups <- MCSetups
    Files <- MCFiles
    Disks <- MCDisks
    Now = 2
    None = "none"
    MaxOutput = 2
    MaxEdits = 1
INVARIANTS
    TerminalFaithful
    TrustKept
PROPERTIES
    PinNeverMoves
    ClosedReleased
CHECK_DEADLOCK FALSE
