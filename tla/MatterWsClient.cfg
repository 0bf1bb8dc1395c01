SPECIFICATION FairSpec
CONSTANTS
    NumRequests = 2
    NumStrays = 1
    MaxFrames = 2
    MaxLate = 1
    MaxSent = 3
    MaxWire = 1
INVARIANTS OwnAnswer HonestServerKeepsSession NobodyWaitsInVain
PROPERTIES EveryRequestEnds
CHECK_DEADLOCK FALSE
