SPECIFICATION Spec
CONSTANTS
    Login = login
    Conns = {login, other}
    Never = never
    Pass <- MCPass
    LockMaxLen = 2
    Stock <- MCStock
    MaxAttempts = 2
    Session = "s1"
    Host <- MCHost
    User = "river"
    Addr = "here"
    Files <- MCFiles
    Policies <- MCPolicies
    Outside <- MCOutside
    Meddling <- MCMeddling
    MaxMeddling = 2
    MaxTime = 1
INVARIANTS
    Unlockable
    PathProven
    RightVerdict
PROPERTIES
    LockSeals
    Settles
CHECK_DEADLOCK FALSE
