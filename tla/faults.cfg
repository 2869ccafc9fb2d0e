SPECIFICATION MCSpec
CONSTANTS
    k1 = k1
    u1 = u1
    u2 = u2
    u3 = u3
    d1 = d1
    m1 = m1
    Upload = {u1, u2}
    Deleter = {d1}
    Copies = {u2}
    Completions = {}
    IfAbsent = {}
    Bulk = {}
    Modes = {"Enabled", "Suspended"}
    VersionDeletes = {}
    MaxRestarts = 1
    MaxTouches = 0
    MaxEvents = 1
    BatchSize = 1
    Key <- OneKey
    Target <- AllToOneKey
    Sizes = {0, 1, 2, 3, 5}
    PartConfigured = 1
    MaxParts = 3
    MaxTries = 2
    MaxUploads = 3
    MaxLate = 1
    RcloneSizes = {0, 1, 2, 3}
    MaxPipe = 2
    Letters = {"/", ".", "x"}
    MaxPath = 3
    MaxKey = 2
    SavingCalls = {c1, c2}
    Keys = {k1, k2}
    Secrets = {s1, s2}
    Labels = {l1, l2}
    Unlinked = Unlinked
    Ensurers = {r1, r2}
    MaxFolders = 4
    NoFolder = NoFolder
    Readers = {r1, r2}
    CacheFor = 2
    TokenFor = 4
    TokenSkew = 1
    MaxProbeTime = 6
    Scopes = {user, project, other}
    Figures = {0, 1, 2}
    Unknown = Unknown
    DayLength = 6
    WeekLength = 3
    Offsets <- ZoneOffsets
    ChangeAt = {4, 5, 6, 7, 8}
    Moments <- AroundTheChange
    Minutes = {0, 1, 2, 3, 4}
    MinInterval = 1
    MaxInterval = 3
    MaxQuiet = 3
    MaxWait = 4
    DefaultQuiet = 1
    DefaultWait = 2
    NoTime = NoTime
    Processes = {p1, p2}
    Environments <- NearEnvironments
    Malformed = Malformed
    ProgramVersions <- SomeReleases
    Flagged = {"transfer", "import", "expiry", "cleanup"}
    Unflagged = {"scheduler", "snapshot"}
    GoogleClients = {g1, g2, g3}
    EnvClient = g1
    FolderNames = {n1, n2}
    DefaultName = n1
    MasterKeys = {m1, m2}
    Unset = Unset
INVARIANTS
    VersionsReachable
    StartSafe
    SettingsSafe
    CalculationsRight
PROPERTIES
    
    DestinationsSafe
    StopSafe
CHECK_DEADLOCK FALSE
