SPECIFICATION PartSpec
CONSTANTS
    f1 = f1
    f2 = f2
    d1 = d1
    h1 = h1
    None = None
    Files = {f1}
    Datasets = {h1}
    Devices = {d1}
    SourceOf <- MCSourceOf
    MaxJobs = 3
    MaxAged = 2
INVARIANTS JobsExclude
PROPERTIES VerdictsStand LiveJobsSettle
CHECK_DEADLOCK FALSE
