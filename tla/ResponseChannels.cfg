SPECIFICATION Spec
CONSTANTS
    MaxChannels = 2
    RChannel = {r1, r2}
    Handler = {h1, h2}
    Chan = {c1}
    Reader = Reader
    None = None
    Cap = 1
SYMMETRY Symmetry
VIEW View
INVARIANTS
    TypeOK
    OpenChannelIsReachable
    OpenChannelIsServed
    DestructorReleasesHandlers
CHECK_DEADLOCK FALSE
