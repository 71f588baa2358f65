SPECIFICATION FairSpec
CONSTANTS
    c1 = c1
    c2 = c2
    e1 = e1
    e2 = e2
    e3 = e3
    e4 = e4
    e5 = e5
    k1 = k1
    k2 = k2
    NoEvent = NoEvent
    Keys <- MCKeys
    Calls <- MCCalls
    Events <- MCEvents
    CallOf <- MCCallOf
    KeyOf <- MCKeyOf
    MaxFaults = 1
INVARIANTS OneKeptPerKey NothingLost AllOrNothing StoredAreEvaluated
PROPERTY EveryCallReturns
\* every call returns
CHECK_DEADLOCK FALSE
