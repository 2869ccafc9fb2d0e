SPECIFICATION MCSpec
CONSTANTS
    Requests = 3
    Doors = {"put", "multipart", "s3", "bulk", "dashboard", "version", "dashboardVersion", "prune", "retention", "hold", "settings"}
    MaxTime = 1
    MaxSettings = 1
    Cmk = {"cmk"}
    SealRequests = 3
    MaxKeyEvents = 3
    Calls = {1, 2}
    MaxAttempts = 2
    MaxGrantEvents = 2
INVARIANTS
    SealsSafe
PROPERTIES
    LocksHold
    CallsSafe
CHECK_DEADLOCK FALSE
