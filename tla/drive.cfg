SPECIFICATION MCSpec
CONSTANTS
    File = {1, 2, 3, 4}
    Folder <- TwoFolders
    Root = 10
    Pages <- Listing
    Key = {"a", "b", "c"}
    KeyOf <- Keys
    Supported = {1, 2, 3}
    ImportBatch = 2
    MaxImportEvents = 3
    Account = {"d1", "d2"}
    NoAccount = "none"
    SnapScheduler = TRUE
    Retain = {1, 2}
    DefaultRetain = 2
    MaxSnapshots = 3
    MaxSnapEvents = 3
    Task = {1, 2}
    Capacity <- OneEach
    Bodies = {0, 1, 4, 5, 7, 8, 9, 13}
    ChunkSize = 5
    Alignment = 2
    Threshold = 3
    MaxBytes = 12
    QuotaUser = {"u1", "u2", "u3"}
    Slots = 3
    UserSlots = 2
    MaxTracked = 2
    MaxRecords = 4
    MaxQuotaTime = 5
INVARIANTS
    SnapshotsSafe
    
PROPERTIES
    ImportSafe
    DriveWorkEnds
CHECK_DEADLOCK FALSE
