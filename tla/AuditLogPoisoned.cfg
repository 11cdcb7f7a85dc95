SPECIFICATION FairSpec
CONSTANTS
    Handles = {h1, h2}
    None = None
    IoFaults = "ANY"
    Batch = 2
    MaxRecords = 3
INVARIANTS LogIsChainPrefix
CHECK_DEADLOCK FALSE
