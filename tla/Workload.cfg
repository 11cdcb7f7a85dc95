SPECIFICATION Spec
CONSTANTS
    Keys = {k1, k2}
    Credentialed = {k1}
    MaxInvs = 2
    MaxEnvs = 2
    MaxSupervised = 1
    MaxGeneration = 2
    MaxLive = 2
    MaxParked = 1
    MaxIncarnation = 2
    Faults = {"LOSE", "RESTART", "CRASH", "UNSURE", "VANISH"}
INVARIANTS NoWorkloadMeetsAnother UseTellsTheTruth
PROPERTY ImplementsAtMostOnce
CHECK_DEADLOCK FALSE
