SPECIFICATION FairSpec
CONSTANTS
    n1 = n1
    n2 = n2
    w1 = w1
    w2 = w2
    hook = hook
    mail = mail
    NoWorker = NoWorker
    Tasks <- MCTasks
    Workers <- MCWorkers
    Channels <- MCChannels
    ChannelOf <- MCChannelOf
    HttpChannels <- MCHook
    MayStop <- MCOneWorker
    MayCrash <- MCOneWorker
    MaxAttempts = 2
    Limit = 2
    LockTTL = 1
    MaxDelay = 1
    MaxFaults = 1
INVARIANTS ExclusiveLease CallsAccounted DeliveryAccounted FreshBackoff
PROPERTIES ImplementsLifecycle SettlesOrOrphaned
\* nothing is left to do once every task is settled
CHECK_DEADLOCK FALSE
