SPECIFICATION Spec
CONSTANTS
    a1 = a1
    e1 = e1
    e2 = e2
    e3 = e3
    r1 = r1
    r2 = r2
    NoAlert = NoAlert
    Alerts <- MCOneAlert
    Evaluations <- MCEvaluations
    Requests <- MCTwoRequests
    Faults = TRUE
SYMMETRY MCSymmetry
INVARIANTS ResolvedAtAgrees OneFirstFiring CountersExact
PROPERTY ImplementsLifecycle
\* every call ends
CHECK_DEADLOCK FALSE
