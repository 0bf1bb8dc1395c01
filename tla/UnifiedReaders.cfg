SPECIFICATION PartSpec
CONSTANTS
    Coverages = {full}
    NumInputs = 2
    NumArtifacts = 2
    Networks = {n1, n2}
    MaxVersion = 3
    MaxCrashes = 1
    Digests = 2
    Readers = {r1}
    Absent = Absent
    None = None
    n1 = n1
    n2 = n2
INVARIANTS ReadAtomic VerifiedReadCurrent
