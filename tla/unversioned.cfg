SPECIFICATION FairSpec
CONSTANTS
    k1 = k1
    u1 = u1
    u2 = u2
    u3 = u3
    d1 = d1
    Upload = {u1, u2}
    Deleter = {d1}
    Copies = {}
    Completions = {}
    IfAbsent = {u1}
    Bulk = {d1}
    Modes = {"Disabled"}
    VersionDeletes = {}
    MaxRestarts = 1
    MaxTouches = 0
    MaxEvents = 0
    BatchSize = 2
    Key <- OneKey
    Target <- AllToOneKey
INVARIANTS
    RecordedFileAccounted
PROPERTIES
    WorkEnds
CHECK_DEADLOCK FALSE
