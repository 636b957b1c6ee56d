SPECIFICATION FairSpec
CONSTANTS
    Sender = {s1, s2}
    Self = s1
    None = None
    MaxMessages = 3
    MaxFailures = 2
    Descriptors = 2
INVARIANTS
    TypeOK
    PortBelongsToAddress
    CalmRequestIsHeard
PROPERTIES
    OneDatagram
    RunReturns
CHECK_DEADLOCK FALSE
