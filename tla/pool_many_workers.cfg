CONSTANTS
    Producers = {p1}
    Workers = {w1, w2, w3}
    Tasks = {t1, t2, t3}
    TASKS_PER_THREAD = 1
    NoThread = NoThread
    NoTask = NoTask
    Junk = Junk
SPECIFICATION Spec
SYMMETRY Symmetry
INVARIANTS
    TypeOK
    FullFlagSound
    NoLockCycle
    NoLostTaskSignal
    NoLostSpaceSignal
CHECK_DEADLOCK FALSE
