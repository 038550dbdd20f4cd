SPECIFICATION FairSpec
CONSTANTS
    MaxChannels = 2
    MaxPendingOpens = 1
    IdSpace = 5
    Scenarios <- Typical
    ServesSessions = {TRUE, FALSE}
    AgentPath = TRUE
    Policy = {"db"}
    ListenPolicy <- AnyListen
    Ports = {1, 2}
INVARIANTS Capped Paired ListenersIndexed SessionOrEnd
PROPERTY OpensAnswered
CHECK_DEADLOCK FALSE
