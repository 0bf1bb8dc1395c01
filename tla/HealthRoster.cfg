SPECIFICATION MCSpec
CONSTANTS
    d1 = d1
    d2 = d2
    Devices = {d1, d2}
    NumObservations = 2
    Sampled <- MCSampled
    MaxRetained = 1
    Requests = {r1}
    Actions = {"enroll", "clear-offline"}
    CliStates = {"intentionally-offline"}
    Purges = {"device"}
    Processes = {p1}
    MaxClock = 4
    None = None
INVARIANT ContextsAreLive
PROPERTIES SavedAgainstCurrentRoster ActsOnWhatWasShown
CHECK_DEADLOCK FALSE
