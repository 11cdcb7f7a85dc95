SPECIFICATION Spec
CONSTANTS
    Keys = {k1, k2}
    Credentialed = {k1}
    MaxInvs = 2
    MaxEnvs = 2
    MaxSupervised = 1
    MaxGeneration = 2
    MaxLive = 1
    MaxParked = 1
    MaxIncarnation = 1
    Faults = {"RESTART"}
INVARIANT NeverWaitsForALaunch
CHECK_DEADLOCK FALSE
