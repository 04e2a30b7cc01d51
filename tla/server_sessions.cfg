CONSTANTS
    Workers = {w1}
    Main = Main
    Clients = {c1, c2}
    None = None
    LastFd = 11
    MaxLines = 1
    Happens = {"secret", "wrong_secret"}
SPECIFICATION FairSpec
INVARIANTS
    OneEventEach
    SessionsLinked
    StaysUp
PROPERTIES
    RejectsOnlyWrongSecret
    ConnectionsAccepted
    
CHECK_DEADLOCK FALSE
