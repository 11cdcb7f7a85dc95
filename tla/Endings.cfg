SPECIFICATION EndingsSpec
CONSTANTS
    Handles = {h1, h2}
    None = None
    IoFaults = "ALONE"
    Batch = 2
    MaxRecords = 5
    Peers = {"a", "r"}
    Allowed = {"a"}
    MaxConnections = 1
    QueueDepth = 1
    Backlog = 1
    PerWindow = 1
    MaxEvents = 3
    SecretHandles = {1, 2}
    Runs = {"r"}
    Documents <- MCDocuments
    AgeEntry = "i"
    Rotations <- MCRotations
    Programs <- MCPrograms
    Beginnings <- MCBeginnings
    Manifest <- MCManifest
    Matches <- MCMatches
    Reserved = {"PROXY"}
    Asked <- MCAsked
    Origins = {"b.x", "c.y"}
    Paths = {"git", "sh"}
    Outputs <- MCOutputs
    Shapes <- MCShapes
    MinExact = 2
    Limit = 5
    MaxSecrets = 2
    MaxStarts = 2
    MaxUses = 2
    MaxChanges = 1
INVARIANTS
    StoreIsSound EventsAreAccounted SecretsAreKept
PROPERTIES
    ImplementsAuditTrail RecoveredIsExact AuthorityServes EndingIsNotLost LaunchIsSettled
    TargetEnds
CHECK_DEADLOCK FALSE
