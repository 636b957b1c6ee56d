SPECIFICATION Spec
CONSTANTS
    MaxChannels = 1
    Channel = {c1, c2}
    User = {u1}
    RChannel = {r1, r2}
    Handler = {h1}
    Failures = FALSE
    Reader = Reader
    None = None
    Cap = 1
SYMMETRY Symmetry
INVARIANTS
    ResponsesStayInSession
CHECK_DEADLOCK FALSE
