SPECIFICATION Spec
CONSTANTS
    q1 = q1
    q2 = q2
    q3 = q3
    q4 = q4
    NoMode = NoMode
    NoRule = NoRule
    Requests <- MCFour
    RequestModes <- MCAnyMode
    RequestVersions <- MCVersions
    MaxInFlight = 2
    MaxFaults = 1
INVARIANTS SwitchHolds OverwritesShow
\* every call is answered in the end
CHECK_DEADLOCK FALSE
SYMMETRY MCSymmetry
