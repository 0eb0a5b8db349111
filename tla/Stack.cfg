SPECIFICATION Spec
CONSTANTS
    Source = {s1, s2, s3}
    Endpoint = {d1}
    Configs <- MCConfigs
    Generations = 3
    Base = 1
    TcpBytes = 1
    UdpBytes = 1
    Payload = 1
    MetadataSlots = 2
    QueueBytes = 2
    MaxIngress = 2
    OpenPolls = 8
    Block = 2
    MaxFragmented = 5
    ReassemblySlots = 2
    Fragments <- MCFragments
INVARIANTS
    TypeOK
    ManagedConserved
    PortsConserved
    OwnedOnce
    AssembledWhole
PROPERTIES
    ExistingFlowsKept
CHECK_DEADLOCK FALSE
SYMMETRY SourceSymmetry
