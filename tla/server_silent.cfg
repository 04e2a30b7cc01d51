CONSTANTS
    Workers = {w1, w2}
    Main = Main
    Clients = {c1, c2, c3}
    None = None
    LastFd = 11
    MaxLines = 0
    Happens = {"late_timeout"}
SPECIFICATION FairSpec
PROPERTIES
    SilentClientDropped
    TimerHitsItsClient
CHECK_DEADLOCK FALSE
