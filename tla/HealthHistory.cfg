SPECIFICATION Spec
CONSTANTS
  Required = 2
  MaxTime = 2
  MaxCollections = 3
  MaxRows = 2
  MaxReadings = 2
  MaxIngests = 2
  MaxUnusual = 2
  None = None
  NumObservations = 4
  Subjects = {"a"}
  ComparedFiles = {1, 2}
  ReadAt <- MCReadAt
  InFiles <- MCInFiles
  Whole <- MCWhole
  Complete = {1, 2, 4}
  MaxGap = 2
  Intervals = {2}
  ComparedRetained = 2
  MaxComparisons = 2
  MaxRecords = 3
  Limit = 2
  MaxVersion = 2
  MaxAssessments = 4
  RosterDevices = {"a", "b"}
  AbsentPercent = 15
  NumDevices = 2
  NumFiles = 2
  Aliases = {"rloc"}
  Label = "label"
  Rank <- MCRank
  Expiry <- MCExpiry
  Window = 1
  Static <- MCStatic
  Labels = {"L"}
  Offered <- MCOffered
  FactsRetained = 1
  FactsTime = 3
  Nodes <- MCNodes
  Relationships <- MCRelationships
  Routers <- MCRouters
  Children <- MCChildren
  Border = {"r", "s"}
  Links <- MCLinks
  Profiles <- MCProfiles
  Values <- MCValues
  Usual <- MCUsual
  Rosters <- MCRosters
  Histories <- MCHistories
  OfflinePercent = 30
  Few = 1
INVARIANTS OfflineIsAbsence PreparedIsCurrent FactsSound PathsFound VerdictSound
PROPERTIES FactsAdvance
CHECK_DEADLOCK FALSE
