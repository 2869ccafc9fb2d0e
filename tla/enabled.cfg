SPECIFICATION Spec
CONSTANTS
    k1 = k1
    u1 = u1
    u2 = u2
    u3 = u3
    d1 = d1
    Upload = {u1, u2, u3}
    Deleter = {d1}
    Copies = {}
    Completions = {}
    IfAbsent = {}
    Bulk = {}
    Modes = {"Enabled"}
    VersionDeletes = {"current", "archived", "latestMarker"}
    MaxRestarts = 1
    MaxTouches = 0
    MaxEvents = 2
    BatchSize = 1
    Key <- OneKey
    Target <- AllToOneKey
SYMMETRY AlikePuts
INVARIANTS
    HistoryIntact
PROPERTIES
    PutsInOrder
    DeletesPromote
    ImplementsLifecycle
CHECK_DEADLOCK FALSE
