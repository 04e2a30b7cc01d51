CONSTANTS
    Sessions <- AllPrograms
    Happens = {"exit", "eof", "interrupt", "file", "fork_fails", "setup_fails"}
SPECIFICATION FairSpec
INVARIANTS
    TypeOK
    ShellOnlyForSecret
    Lab2DeliversOutput
    ServerGoesOn
    SparesTheUser
    TerminalRestored
PROPERTIES
    OthersEndWithClient
    OthersEndWithShell
    PairEndsTogether
CHECK_DEADLOCK FALSE
