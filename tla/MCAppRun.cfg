SPECIFICATION FairSpec
CONSTANTS
    Absent = Absent
    Junk = Junk
    Refused = Refused
    o1 = o1
    Files <- MCFiles
    Envs <- MCEnvs
    NumFiles = 2
    Others <- MCOthers
    MaxCalls = 1
    MaxFaults = 2
INVARIANTS PoolOutlivesUsers UpIsSound
PROPERTIES SignalEnds GetsToServe
\* The process ends
CHECK_DEADLOCK FALSE
