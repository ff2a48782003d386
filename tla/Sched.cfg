SPECIFICATION FairSpec
CONSTANTS
    i1 = i1
    i2 = i2
    retry = retry
    monitor = monitor
    analysis = analysis
    buy = buy
    cleanup = cleanup
    Instances <- Two
    Order <- PassOrder
    Monitor = monitor
    Cleanup = cleanup
    Analysis = analysis
    Idle = Idle
    At <- DueAt
    MonitorEnd = 6
    Timeout <- Waits
    DayLength = 12
    Week = 3
    TradingDays <- Weekdays
    MaxStops = 1
    Exposures <- Scenarios
INVARIANTS
    TypeOK
    EveryTaskStarts
PROPERTIES
    DoneOnce
    StopEnds
