SPECIFICATION Spec
CONSTANTS
    Server = {s1, s2, s3}
    Conn = {k1, k2}
    None = None
    MaxAnnounce = 2
    MaxFailures = 1
    Sequential = FALSE
SYMMETRY Symmetry
INVARIANTS
    TypeOK
    ClientHasItsReader
    OpenEndsAreOwned
    QuietServersAgree
    WaitersAreServed
CHECK_DEADLOCK FALSE
