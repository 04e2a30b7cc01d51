CONSTANTS
    Workers = {w1}
    Main = Main
    Clients = {c1, c2}
    None = None
    LastFd = 11
    MaxLines = 1
    Happens = {"secret", "exit"}
SPECIFICATION Spec
SYMMETRY Symmetry
INVARIANTS
    Isolation
CHECK_DEADLOCK FALSE
