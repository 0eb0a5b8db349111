SPECIFICATION Spec
CONSTANTS
    MaxUnits = 3
    Sizes <- MCSizes
    Capacity = 2
    Split = 2
    Flows <- MCFlows
INVARIANTS RelayedInOrder  EndComplete
 
CHECK_DEADLOCK FALSE
