SPECIFICATION Spec
CONSTANTS
    d1 = d1
    d2 = d2
    Devices = {d1, d2}
    NumObservations = 2
    Sampled <- MCSampled
    MaxRetained = 2
    Requests = {}
    Actions = {}
    CliStates = {"expected"}
    Purges = {"device"}
    Processes = {p1}
    MaxClock = 4
    None = None
INVARIANT SavesSucceed
CHECK_DEADLOCK FALSE
