CONSTANTS
    N = 3
    Faults = {"build", "spawn"}
SPECIFICATION Spec
PROPERTIES FailedStartExits
CHECK_DEADLOCK FALSE
