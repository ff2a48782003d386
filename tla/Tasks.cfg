SPECIFICATION FairSpec
CONSTANTS
    p1 = p1
    p2 = p2
    r1 = r1
    r2 = r2
    MaxRuns = 2
    Procs <- TwoProcs
    NoProc = NoProc
    Requests <- TwoRequests
    Exposures <- Scenarios
INVARIANTS
    TypeOK
    RunsKept
CHECK_DEADLOCK FALSE
PROPERTIES
    Settles
