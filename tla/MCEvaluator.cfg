SPECIFICATION FairSpec
CONSTANTS
    r1 = r1
    r2 = r2
    k1 = k1
    k2 = k2
    on = on
    sc = sc
    ch1 = ch1
    ch2 = ch2
    w1 = w1
    s1 = s1
    Every = Every
    None = None
    Rules <- MCTwoRules
    Groups <- MCOneGroup
    ScopeOf <- MCScopeOf
    Channels <- MCTwoChannels
    Runners <- MCOneRunner
    Schedulers <- MCOneRunner
    Ids <- MCOneId
    Scopes <- MCOneScope
    Keys <- MCTwoKeys
    Values <- MCOneValue
    Bodies <- MCBodies
    ShardSkipped <- MCNone
    Limit = 2
    MaxNow = 2
    MaxFaults = 1
    MaxChanges = 2
INVARIANTS AuditTellsTruth NeverReachesBack
PROPERTIES DryRunIsDry SilencedRunsAreQuiet EveryRuleEvaluated BreachNotified
