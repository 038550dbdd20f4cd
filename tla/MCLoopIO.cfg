SPECIFICATION IOFairSpec
CONSTANTS
    SndBuf = 2
    RcvBuf = 2
    PacketLen = 2
    MaxMissed = 2
    Workloads <- Typical
INVARIANTS LivePeerKept
PROPERTIES NeverHangs
CHECK_DEADLOCK FALSE
