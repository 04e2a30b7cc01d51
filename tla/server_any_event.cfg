CONSTANTS
    Workers = {w1, w2}
    Main = Main
    Clients = {c1}
    None = None
    LastFd = 10
    MaxLines = 1
    Happens = {"secret", "wrong_secret", "close", "reset", "exit", "full", "late_timeout"}
SPECIFICATION Spec
SYMMETRY Symmetry
INVARIANTS
    TypeOK
    
    TimersHeard
CHECK_DEADLOCK FALSE
