SPECIFICATION FairSpec
CONSTANTS
    t1 = t1
    t2 = t2
    w1 = w1
    w2 = w2
    NoWorker = NoWorker
    Tasks <- MCTasks
    Workers <- MCWorkers
    MayStop <- MCOneWorker
    MayCrash <- MCOneWorker
    MaxAttempts = 3
    Limit = 2
    LockTTL = 1
    MaxDelay = 2
    MaxFaults = 2
INVARIANTS ExclusiveLease RunsAccounted FreshBackoff
PROPERTIES ImplementsLifecycle SettlesOrOrphaned
\* nothing is left to do once every task is settled
CHECK_DEADLOCK FALSE
