SPECIFICATION Spec
CONSTANTS
    MaxFlow = 3
    Kinds = {"udp", "direct", "packet_tcp"}
    MaxUserStreams = 2
    IoLimit = 6
    Faults = {"stack", "attach", "complete", "accept", "mux"}
INVARIANTS
    SlotsCoverFlows
    OnePlace
PROPERTIES
    AnsweredOnce
    FlowsAnswered
CHECK_DEADLOCK FALSE
