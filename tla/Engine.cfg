SPECIFICATION Spec
CONSTANTS
    Callers = {"a", "b", "c"}
    Clients = {"x", "y"}
    Configs <- MCConfigs
    MaxCommands = 1
    MaxConnections = 1
    MaxActive = 2
INVARIANTS SnapshotTrue StagesTimed AskedOnce
PROPERTIES EstablishmentEnds ImplementsService
CHECK_DEADLOCK FALSE
