SPECIFICATION Spec
CONSTANTS
    MaxChannels = 1
    RChannel = {r1}
    Handler = {h1, h2}
    Chan = {c1}
    Reader = Reader
    None = None
    Cap = 1
SYMMETRY Symmetry
VIEW View
INVARIANTS
    OneHandlerPerChannel
CHECK_DEADLOCK FALSE
