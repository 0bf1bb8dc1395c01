SPECIFICATION FairSpec
CONSTANTS
    NumInputs = 2
    NumArtifacts = 2
    Networks = {n1, n2}
    Coverages = {full}
    MaxVersion = 3
    Digests = 2
    MaxCrashes = 2
    Absent = Absent
    None = None
    n1 = n1
    n2 = n2
    full = full
INVARIANTS
    Inv
    SnapshotConsistent
    NoMixWithoutJournal
PROPERTIES
    CommittedIsStored
    RecoveredOrStuck
