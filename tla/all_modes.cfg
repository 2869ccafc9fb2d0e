SPECIFICATION Spec
CONSTANTS
    k1 = k1
    u1 = u1
    u2 = u2
    u3 = u3
    d1 = d1
    Upload = {u1, u2}
    Deleter = {d1}
    Copies = {}
    Completions = {}
    IfAbsent = {}
    Bulk = {}
    Modes = {"Disabled", "Enabled", "Suspended"}
    VersionDeletes = {"current", "archived", "latestMarker", "oldMarker"}
    MaxRestarts = 1
    MaxTouches = 1
    MaxEvents = 3
    BatchSize = 1
    Key <- OneKey
    Target <- AllToOneKey
SYMMETRY AlikePuts
INVARIANTS
    LiveFileSafe

    
CHECK_DEADLOCK FALSE
