SPECIFICATION MCSpec
CONSTANTS
    Requests = 2
    Doors = {"put", "version"}
    MaxTime = 1
    MaxSettings = 0
    Cmk = {"cmk"}
    SealRequests = 3
    MaxKeyEvents = 3
    Calls = {1, 2}
    MaxAttempts = 2
    MaxGrantEvents = 2
PROPERTIES
    NobodyLiftsCompliance
CHECK_DEADLOCK FALSE
