SPECIFICATION AllSpec
CONSTANTS
  Routers = {"r1", "r2", "r3"}
  MaxRuns = 2
  Devices = {"a", "b"}
  Tagged = {"a", "b"}
  Has <- MCHas
  Target = "b"
  MaxFrames = 3
  RouterSlots = {"r1", "r2"}
  ChildSlots = {"c1", "c2"}
  Parent <- MCParent
  Start <- MCStart
  Policies <- MCPolicies
  MaxMoves = 2
  CastAttempts = 2
  FastAttempts = 2
  DetailAttempts = 2
  Files = 3
  MaxRows = 4
  Width = 8
  Versions = {0, 3, 4, 6, 8}
  Dests = {"d1", "d2"}
  Partitions = {"p1", "p2"}
  Exts = {"e1", "e2"}
  Rlocs = {"r1"}
  MaxSteps = 3
  None = None
INVARIANTS AttributionSound AnsweredAreKept RecordsSound FieldsSound
PROPERTIES AllFailedRetains
CHECK_DEADLOCK FALSE
