CONSTANTS
    Clients = {c1, c2}
    None = None
    LastFd = 8
    Settings <- OneOrAll
SPECIFICATION FairSpec
INVARIANTS
    TypeOK
    
PROPERTIES
    Greeted
    SilentReleased
    InputRead
    SessionEnds
CHECK_DEADLOCK FALSE
