SPECIFICATION FairSpec
CONSTANTS
    End = {a, b}
    Server = b
    None = None
    Room = 2
    MaxMessages = 4
    MaxFailures = 1
PROPERTIES
    TimedReadReturns
CHECK_DEADLOCK FALSE
