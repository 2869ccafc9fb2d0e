SPECIFICATION MCSpec
CONSTANTS
    e1 = e1
    e2 = e2
    d1 = d1
    Object <- TwoObjects
    Initial <- OneThere
    Content = {e1, e2}
    Dest = {d1}
    BatchSize = 1
    MaxAttempts = 2
    MaxFailures = 2
    MaxRuns = 2
    MaxEvents = 1
    MaxRestarts = 1
    Schedules <- WatchedOrNot
INVARIANTS
    TransfersTruthful
    
PROPERTIES
    RunsAreFinal
    TransfersEnd
CHECK_DEADLOCK FALSE
