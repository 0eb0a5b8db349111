CONSTANTS
    MaxFlow = 2
    MaxUserStreams = 2
    Adapters = 2
    MaxAddresses = 2
SPECIFICATION Spec
INVARIANTS SlotsReturn
CHECK_DEADLOCK FALSE
