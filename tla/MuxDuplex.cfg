CONSTANTS
    MaxId = 3
    HeaderBytes = 1
    SplitSendSize <- Two
    ReceiveLimit <- Two
    WriteSizes = {1, 2}
    ReadSizes = {1, 2}
    MaxUnits <- Duplex
    Capacity = 2
    Calls <- Everything
    Resets = {"client"}
SPECIFICATION Spec
INVARIANTS EofComplete
PROPERTIES StreamsArePipes
CHECK_DEADLOCK FALSE
