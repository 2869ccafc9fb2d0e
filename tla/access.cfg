SPECIFICATION MCSpec
CONSTANTS
    User = {"o", "m"}
    NoUser = "nobody"
    BucketId = {1, 2}
    NoBucket = 0
    Handler = {h1, h2}
    Documents <- TestDocuments
    MaxBucketEvents = 4
    Visitors = {v1}
    MaxLinks = 1
    MaxFiles = 2
    Horizon = 1
    NoObject = NoObject
SYMMETRY Handlers
INVARIANTS
    DecisionsSafe
PROPERTIES
    BucketsSafe
    LinksSafe
CHECK_DEADLOCK FALSE
