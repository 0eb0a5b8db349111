CONSTANTS
    N = 3
    Faults = {"build", "spawn"}
SPECIFICATION Spec
 
PROPERTIES OneEndsAll
CHECK_DEADLOCK FALSE
