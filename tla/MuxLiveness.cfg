CONSTANTS
    MaxId = 3
    HeaderBytes = 1
    SplitSendSize <- Two
    ReceiveLimit <- Four
    WriteSizes = {1, 2}
    ReadSizes = {1, 2}
    MaxUnits <- Upload2
    Capacity = 2
    Calls <- Uploading
    Resets = {"client"}
SPECIFICATION FairSpec
PROPERTIES EventuallyDelivered 
CHECK_DEADLOCK FALSE
