SPECIFICATION FairSpec
CONSTANTS
    Hellos <- MCHellos
    Misread <- MCMisread
    MaxLine = 3
    MaxTotal = 5
    Sizes = {7, 12}
    ReadSizes = {3}
    MaxLines = 2
    MaxData = 2
    MaxCancels = 1
INVARIANTS
    Reassembled
    NoFalseAlarm
    NegotiationAgrees
PROPERTIES
    AllArrive
CHECK_DEADLOCK FALSE
