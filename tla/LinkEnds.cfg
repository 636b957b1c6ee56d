SPECIFICATION FairSpec
CONSTANTS
    MaxChannels = 1
    Channel = {c1}
    User = {u1}
    RChannel = {r1}
    Handler = {h1, h2}
    Failures = TRUE
    Reader = Reader
    None = None
    Cap = 1
PROPERTIES
    
    
    RequesterSpec
    ResponderSpec
CHECK_DEADLOCK FALSE
