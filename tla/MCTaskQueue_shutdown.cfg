SPECIFICATION FairSpec
CONSTANTS
    t1 = t1
    t2 = t2
    w1 = w1
    w2 = w2
    NoWorker = NoWorker
    Tasks <- MCTasks
    Workers <- MCWorkers
    MayStop <- MCOneWorker
    MayCrash <- MCNone
    MaxAttempts = 2
    Limit = 1
    LockTTL = 1
    MaxDelay = 2
    MaxFaults = 0
PROPERTIES EveryTaskSettles
\* nothing is left to do once every task is settled
CHECK_DEADLOCK FALSE
