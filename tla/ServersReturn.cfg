SPECIFICATION FairSpec
CONSTANTS
    Server = {s1, s2}
    Conn = {k1, k2}
    None = None
    MaxAnnounce = 2
    MaxFailures = 1
    Sequential = FALSE
PROPERTIES
    HandlersReturn
CHECK_DEADLOCK FALSE
