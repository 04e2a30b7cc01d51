CONSTANTS
    Workers = {w1}
    Main = Main
    Clients = {c1}
    None = None
    LastFd = 10
    MaxLines = 1
    Happens = {"secret", "close"}
SPECIFICATION Spec
INVARIANTS
    StaysUp
CHECK_DEADLOCK FALSE
