SPECIFICATION HostSpec
CONSTANTS
    Connections = {"c", "e"}
    Destinations = {"g", "m", "x"}
    Granted = {"g", "m"}
    BlockedNames = {"m"}
    MaxTunnels = 2
    MaxHandlers = 2
    MaxResolving = 1
    Most <- MCMost
    MaxChunk = 2
    MaxProxies = 1
    Daemons = {"d1", "d2"}
    MaxSockets = 3
    Inodes = {"a", "b"}
    Leaves = {"n"}
    MaxBytes = 2
    Turns = {1, 2}
    Ordered <- Orders
    Incarnations = 2
    Processes = {"p", "q"}
    LaunchKeys = {"k", "l"}
    TableSize = 1
    HostApproved = TRUE
    MaxAuthorities = 2
    MaxBrokers = 2
    SLASH = "root"
    Kind <- MCKind
    Owner <- MCOwner
    Sticky = {"tmp"}
    Format <- MCFormat
    Filesystem <- MCFilesystem
    Privileged = {}
    NotRunnable = {}
    Target <- MCTarget
    Malformed = {"z"}
    Slots <- MCSlots
    Trees <- MCTrees
    Modes <- MCModes
    Requests <- MCRequests
    MaxSymlinks = 1
    MaxComponents = 3
    MaxChanges = 1
    AuthorityLines <- MCAuthorityLines
    BrokerLines <- MCBrokerLines
    Uids = {"a", "b", "r", "s", "root"}
    MaxUids = 2
    Hosts <- MCHosts
    Ancestry <- MCAncestry
    ROOT = "root"
    SANDBOX_UID = "s"
    RELAY_UID = "y"
    None = None
    MaxStarts = 3
    Settings <- MCSettings
    Facts <- MCFacts
    Dirs = {"d1", "d2"}
    Beginnings <- MCBeginnings
    Private <- MCPrivate
    MaxWord = 15
    Absent = None
    MaxFaults = 1
    MaxJudgings = 2
    Invocations = {1, 2}
    MaxHops = 3
    Keys = {"k1", "k2"}
    HopIds <- MCHopIds
    Urls <- MCUrls
    HostOf <- MCHostOf
    OriginOf <- MCOriginOf
    Addresses <- MCAddresses
    MetadataNames = {"metadata"}
    Faults = {"HOST", "SWAP", "SPELLING", "DIAL", "VOUCH", "TLS", "RESPONSE", "DEATH", "LOSE", "CRASH"}
    Calls <- MCCalls
    Covered <- MCCovered
    GrantRequests = 3
    CredentialAt = {"home:443", "away:443"}
    SecretUse = TRUE
    AddressRules = {"home:443"}
    DeniedAddresses <- MCDenied
    TaintDenied = {"home:8443"}
    Budget <- MCBudget
INVARIANTS
    ConcludesTheTruth ServingIsReachable BudgetHoldsAtTheSocket LaunchRecordTellsTheTruth
    IdentityIsStable SeparationIsAcknowledged AdmittedWasMeasured
    ReachesOnlyWhatWasDecided CredentialIsAccounted BudgetNeverRefills
PROPERTIES ClosedStartsNoWrite ImplementsAtMostOnce RequestEnds
CHECK_DEADLOCK FALSE
