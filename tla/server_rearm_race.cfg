CONSTANTS
    Workers = {w1, w2}
    Main = Main
    Clients = {c1}
    None = None
    LastFd = 10
    MaxLines = 1
    Happens = {"secret"}
SPECIFICATION Spec
PROPERTIES
    RejectsOnlyWrongSecret
CHECK_DEADLOCK FALSE
