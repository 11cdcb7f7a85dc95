SPECIFICATION MCSpec
CONSTANTS
    MaxWrites = 2
    Faults = {"IO", "DEATH", "POWER", "LOSE", "CRASH"}
    ROOT = "r"
    Kind <- MCKind
    Mounted = {"m"}
    Slots <- MCSlots
    NFC <- MCNFC
    Malformed = {"z"}
    DeclaredPaths <- MCDeclaredPaths
    MaxPathDepth = 2
    MaxListing = 2
    Lookups <- MCLookups
    Trees <- MCTrees
    HostRoots <- MCHostRoots
    MaxTreeChanges = 2
    Sets <- MCSets
    Actions <- MCActions
    Contexts <- MCContexts
    MaxSources = 3
    MaxDepth = 3
    MaxStarts = 1
    Runs = {"r"}
    Profiles <- MCProfiles
    Skills = {"k"}
    SkillSpecs <- MCSkillSpecs
    Ceiling <- MCCeiling
    Asked <- MCAsked
    Worlds <- MCWorlds
    Narrowings <- MCNarrowings
    Requests <- MCRequests
    Calls <- MCCalls
    MaxInstalls = 2
    MaxChanges = 1
    MaxPasses = 3
INVARIANTS
    WorkspaceIsWhole OutcomeTellsTheTruth HandedOffWasAtItsPath ExtensionNarrows
    AuthorityStaysWithinTerms
PROPERTY GivenUpMeansGone
CHECK_DEADLOCK FALSE
