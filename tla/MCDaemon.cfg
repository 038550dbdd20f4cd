SPECIFICATION FairSpec
CONSTANTS
    Daemons = {"d1", "d2"}
    Conns = {"c1", "c2"}
    Configs <- MCConfigs
    Users = {"alice", "ghost"}
    Accounts = {"alice"}
    None = None
    MaxStarts = 3
    MaxSigns = 2
    MaxDeaths = 1
INVARIANTS
    RightSignature
    Confined
    OneHostKey
PROPERTIES
    HandshakeSettles
CHECK_DEADLOCK FALSE
