SPECIFICATION FairSpec
CONSTANTS
    End = {a, b}
    Server = b
    None = None
    Room = 2
    MaxMessages = 4
    MaxFailures = 1
INVARIANTS
    TypeOK
    ReadsWhatWasWritten
PROPERTIES
    WritersReturn
CHECK_DEADLOCK FALSE
