CONSTANTS
    Workers = {w1, w2}
    Clients = {c1, c2}
    Tasks = {t1, t2, t3, t4}
    NoTask = NoTask
SPECIFICATION FairSpec
INVARIANTS
    TypeOK
    FirstInFirstOut
    ExactlyOnce
    NoLostWakeup
    DrainedWhenDestroyed
PROPERTIES
    EveryTaskRuns
    DestructorReturns
    ImplementsTaskPool
CHECK_DEADLOCK FALSE
