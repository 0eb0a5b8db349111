CONSTANTS
    MaxId = 3
    HeaderBytes = 2
    SplitSendSize <- Two
    ReceiveLimit <- Two
    WriteSizes = {1, 2}
    ReadSizes = {1, 2}
    MaxUnits <- Upload2
    Capacity = 2
    Calls <- HandshakeAndUpload
    Resets = {"client", "server"}
SPECIFICATION SpecFresh
INVARIANTS TypeOK ReceiveBounded HeadersInStep AcceptedOnce DeliveredInOrder ReceivedIsBuffered
CHECK_DEADLOCK FALSE
