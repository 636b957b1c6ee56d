SPECIFICATION Spec
CONSTANTS
    MaxChannels = 2
    Channel = {c1, c2}
    User = {u1, u2}
    Reader = Reader
    None = None
    Cap = 1
SYMMETRY Symmetry
VIEW View
INVARIANTS
    TypeOK
    SemaphoreCountsFreeIds
    IdHasOneOwner
    OpenChannelIsReachable
    OneOpenChannel
CHECK_DEADLOCK FALSE
