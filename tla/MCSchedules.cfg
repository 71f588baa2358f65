SPECIFICATION FairSpec
CONSTANTS
    c1 = c1
    c2 = c2
    c3 = c3
    s1 = s1
    ana = ana
    ben = ben
    NoCall = NoCall
    NoRow = NoRow
    Asked = 1
    MaxConns = 2
    Calls <- MCCalls
    ScheduleIds <- MCOneSchedule
    Bodies <- MCBodies
INVARIANTS ShiftsOfOneWrite EntriesOfOneVersion
PROPERTIES OnCallComplete AnsweredOrStalled
\* every request is answered in the end
CHECK_DEADLOCK FALSE
