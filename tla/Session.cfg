SPECIFICATION FairSpec
CONSTANTS
    a1 = a1
    a2 = a2
    a3 = a3
    t1 = t1
    t2 = t2
    w1 = w1
    Auths <- ThreeAuths
    NoAuth = NoAuth
    Tasks <- TwoTasks
    Requests <- OneRequest
    MaxFailures = 2
    Exposures <- Scenarios
INVARIANTS
    TypeOK
    OneClientCalm
CHECK_DEADLOCK FALSE
PROPERTIES
    SessionSurvives
