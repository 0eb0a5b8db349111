CONSTANTS
    Logger = {1}
    Limit = 5
    RecordLimit = 4
    Capacity = 2
    Lengths = {1, 5}
    Pid = {10, 11}
    MaxRecords = 3
    MaxCrashes = 1
SPECIFICATION Spec
INVARIANTS LimitKept LogIsNewestTail LossesCounted
PROPERTIES StopDrains
CHECK_DEADLOCK FALSE
