CONSTANTS
    Producers = {p1}
    Workers = {w1}
    Tasks = {t1, t2, t3, t4}
    TASKS_PER_THREAD = 4
    NoThread = NoThread
    NoTask = NoTask
    Junk = Junk
SPECIFICATION Spec
SYMMETRY Symmetry
INVARIANT QueueUnlockedOnReturn
CHECK_DEADLOCK FALSE
