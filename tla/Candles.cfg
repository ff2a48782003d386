SPECIFICATION FairSpec
CONSTANTS
    r1 = r1
    r2 = r2
    Readers <- Threads
    Window = 2
    Short = 1
    Tail = 2
    MinCover = 60
    MinGaps = 1
    MinBars = 2
    Threshold = 2
    Sources <- AllSources
    Exposures <- Scenarios
INVARIANTS
    TypeOK
    CandlesComplete
PROPERTY UsableAgain
