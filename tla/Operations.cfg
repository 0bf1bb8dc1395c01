SPECIFICATION AllSpec
CONSTANTS
    Files = {"f", "g"}
    MaxWrites = 2
    Processes = {"p1", "p2"}
    Supported = 10
    Oldest = 8
    Cohorts <- MCCohorts
    CohortOf <- MCCohortOf
    NumObs = 3
    MaxRevision = 2
    Limit = 2
    Requests = {1, 2}
    CatalogAge = 1
    Ages = {0, 2}
    MaxTime = 2
    Job = job
    None = none
    Callers = {c1, c2}
    NumFiles = 2
    Attempts = 2
    Ttl = 1
    ProbeTime = 1
    ProbeMaxTime = 3
INVARIANTS NothingLost MigrationSound RequestsSound ProbesSound
PROPERTIES ChangesHaveBackup CurrentThroughPurges
CHECK_DEADLOCK FALSE
