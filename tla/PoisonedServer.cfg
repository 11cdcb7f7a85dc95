SPECIFICATION ServerFairSpec
CONSTANTS
    Peers = {"a", "r"}
    Allowed = {"a"}
    MaxConnections = 1
    QueueDepth = 1
    Backlog = 1
    PerWindow = 1
    MaxEvents = 3
PROPERTY PoisonedServerStops
CHECK_DEADLOCK FALSE
