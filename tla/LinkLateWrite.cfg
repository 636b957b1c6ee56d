SPECIFICATION Spec
CONSTANTS
    MaxChannels = 1
    Channel = {c1}
    User = {u1}
    RChannel = {r1, r2}
    Handler = {h1}
    Failures = FALSE
    Reader = Reader
    None = None
    Cap = 1
SYMMETRY Symmetry
INVARIANTS
    NoHandlerOutlivesItsRequest
CHECK_DEADLOCK FALSE
