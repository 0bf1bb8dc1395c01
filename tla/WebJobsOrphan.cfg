SPECIFICATION Spec
CONSTANTS
    f1 = f1
    f2 = f2
    d1 = d1
    h1 = h1
    None = None
    Files = {}
    Devices = {d1}
    Datasets = {}
    SourceOf <- MCSourceOf
    MaxJobs = 2
    MaxAged = 2
INVARIANTS
    OneProcessPerSource
CHECK_DEADLOCK FALSE
