SPECIFICATION Spec
CONSTANTS
    q1 = q1
    q2 = q2
    q3 = q3
    ana = ana
    nobody = nobody
    Statuses <- MCStatuses
    NoStatus = NoStatus
    IncidentCalls <- MCThree
    Drafts <- MCDrafts
    Assignees <- MCWho
    Texts <- MCTexts
    MaxInFlight = 3
    MaxFaults = 2
INVARIANTS TrailIsTrue LossShows
\* every call is answered in the end
CHECK_DEADLOCK FALSE
SYMMETRY MCSymmetry
