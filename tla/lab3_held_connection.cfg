CONSTANTS
    Clients = {c1, c2}
    None = None
    LastFd = 8
    Settings <- AllSilent
SPECIFICATION FairSpec
PROPERTY SilentDropped
CHECK_DEADLOCK FALSE
