SPECIFICATION MCSpec
CONSTANTS
    Handles = {h1}
    Runs = {r1, r2}
    TwoHandles = {g1, g2}
    OneRun = {q1}
    MaxEnvs = 2
    Faults = {"STOPS", "VANISHES", "DEATH"}
    MaxLive = 1
    MaxPerRun = 2
    MaxIncarnation = 2
SYMMETRY Symmetry
INVARIANTS ReadyRunIsActive OneLivePerRun EndedIsGone RecordsCoverTheRuntime
PROPERTY StartSweepsAll
CHECK_DEADLOCK FALSE
