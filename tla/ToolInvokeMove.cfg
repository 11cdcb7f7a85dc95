SPECIFICATION Spec
CONSTANTS
    MaxWrites = 2
    Faults = {}
INVARIANT RefusalChangesNothing
CHECK_DEADLOCK FALSE
