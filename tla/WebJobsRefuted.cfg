\* Each of the two properties is refuted; TLC stops at the first that is.
SPECIFICATION FairSpec
CONSTANTS
    f1 = f1
    f2 = f2
    d1 = d1
    h1 = h1
    None = None
    Files = {f1}
    Devices = {}
    Datasets = {h1}
    SourceOf <- MCSourceOf
    MaxJobs = 3
    MaxAged = 1
INVARIANTS OneLiveHealthJob
PROPERTIES CancellingEnds
CHECK_DEADLOCK FALSE
