SPECIFICATION FairSpec
CONSTANTS
    RekeyPackets = 2
    SeqMod = 8
    MaxRekeyQueue = 2
    HostKeys = {bare, cert, other}
    Trusted = {bare, cert}
    Certified = {cert}
    MayFail = {"client", "server"}
    MaxApp <- FewApp
    MaxAge <- Age1
INVARIANTS ExactlyOnce Undisturbed NonceBound SessionAgreed HostKeyPinned
PROPERTIES AllDelivered
CHECK_DEADLOCK FALSE
