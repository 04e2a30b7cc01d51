CONSTANTS
    Producers = {p1}
    Workers = {w1}
    Tasks = {t1, t2, t3}
    TASKS_PER_THREAD = 4
    NoThread = NoThread
    NoTask = NoTask
    Junk = Junk
SPECIFICATION FairSpec
PROPERTIES
    ImplementsTaskQueue
    EveryTaskRuns
