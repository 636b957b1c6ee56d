SPECIFICATION FairSpec
CONSTANTS
    Server = {s1, s2}
    Conn = {k1, k2, k3, k4}
    None = None
    MaxAnnounce = 4
    MaxFailures = 2
    Sequential = TRUE
INVARIANTS
    SequentialStartsAreSafe
    ConnectedPeersAreReported
PROPERTIES
    ServersConnectOnce
    RunningServersConnect
CHECK_DEADLOCK FALSE
