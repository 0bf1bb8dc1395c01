SPECIFICATION Spec
CONSTANTS
    MaxTime = 2
    Variants = {"a", "b"}
    MaxEvents = 2
    MaxRuns = 2
    Nodes = {"n1", "n2"}
    Attributes = {"a", "b"}
    MaxChanges = 3
    Artifacts = {"devices", "dashboard"}
    Products = {"topology"}
    NumNodes = 2
    MaxCommands = 3
    Routers = {"r1", "r2"}
    Listed = {"c1"}
    Guarded = {"g1"}
    Slots = {"A1", "A2"}
    RouterRlocs = {"A", "B"}
    MaxDiscoveries = 2
    Fields = {"children", "neighbors"}
    Networks = {"n1", "n2"}
    Devices = {"d1", "d2"}
    Ids = {"i1", "i2"}
INVARIANTS
    DiagnosticsKept
    SnapshotIsServerState
    AcceptedIsOfItsOutcome
    SweepIsSound
    MeshExplained
    RecoveredIsOfItsRun
CHECK_DEADLOCK FALSE
