SPECIFICATION ProcessSpec
CONSTANTS
    Processes = {"p"}
    LaunchKeys = {"k"}
    TableSize = 1
    HostApproved = TRUE
    MaxAuthorities = 2
    MaxBrokers = 2
INVARIANT FailedExecutedNothing
CHECK_DEADLOCK FALSE
