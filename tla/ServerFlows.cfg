CONSTANTS
    MaxFlow = 3
    MaxUserStreams = 2
    Adapters = 2
    MaxAddresses = 2
SPECIFICATION Spec
INVARIANTS TypeOK NoStateError SlotsCoverFlows OpenedAfterAdmission
PROPERTIES AttachedOnce
CHECK_DEADLOCK FALSE
