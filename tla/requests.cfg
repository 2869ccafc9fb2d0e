SPECIFICATION MCSpec
CONSTANTS
    User = {"o", "m"}
    NoUser = "nobody"
    BucketId = {1, 2}
    NoBucket = 0
    Names <- SomeNames
    PrefixesAsked <- SomePrefixes
    Delimiters <- SomeDelimiters
    Starts <- SomeStarts
    PageSizes = {1, 2}
    LastChar = 9
    Capital <- Small
    MaxEdits = 1
    Owner <- KeyOwner
    Nobody = "nobody"
    AllowAnonymous = TRUE
    Skew = 1
    Day = 4
    MinExpires = 2
    MaxExpires = 2
    Allowance <- OneToken
    MaxTime = 2
    MaxDrift = 1
    MaxKeyEvents = 1
    Texts <- FormTexts
    Placeholder = 9
    Bodies = {0, 1, 2, 3}
    PostPolicies <- FormPolicies
    FormOrders <- Orders
    FormUses <- UsesOf
    FormLimits <- IssueLimits
    FormSkew = 2
    SlashChar = 3
    DotChar = 4
    IssueDate <- Issue
    Client = {"x", "y", "z"}
    Capacity = 2
    Unit = 2
    Refill = 1
    MaxKeys = 2
    MaxTicks = 4
    MaxTakes = 5
    Person = {"ann", "eve"}
    Workspace = "corp"
    Invited = {"ann@home"}
    ClientId = "us"
    Claims <- SomeClaims
    State = {f1, f2}
    Handler = {h1, h2}
    FlowTtl = 0
    RecoveryCodes = 1
    MaxStep = 1
    MaxSessions = 2
    MaxSecrets = 2
    MaxSets = 2
    MaxStops = 1
    Uploads <- SomeUploads
    MaxHeader = 3
    MaxRead = 20
    Forms <- SomeForms
    NoFile <- NoFileSent
    Nameless = "nameless"
    MaxFieldBytes = 8
    MaxFieldCount = 2
    MaxPull = 6
    Commit = {1, 2}
    Sound = {1}
    NoCommit = NoCommit
    MaxTurns = 2
    MaxMishaps = 2
    MasterKey = {m1, m2}
    Passphrase = {p1, p2}
    Weak = {p2}
    Stamp = {s1}
    Backup = {r1, r2}
    NotGiven = NotGiven
    MaxIncidents = 1
    MaxRestores = 1
SYMMETRY Alike
INVARIANTS
    DoneAsAsked
PROPERTIES
    
    SignerKnown
    
    LimitsSafe
    DeploymentSafe
CHECK_DEADLOCK FALSE
