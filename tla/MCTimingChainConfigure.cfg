CONSTANTS
  c1 = c1  c2 = c2  d1 = d1
  DTC <- MCDTC
  BoardOf <- MCBoardOf
  Cfo = cfo
  Boards = 2
  RealROCs = {c2, d1}
  ConfiguresROCs = {c2, d1}
  CfoHome = {c1, c2}
  Clocked = {c1, c2, cfo}
  TopLevel = TRUE
  Modes = {"EventBuildingAndSync", "Loopback"}
  MaxPolls = 1
  MaxPasses = 4
  OffsetSteps = 1
  MarkerSteps = 2
  RocSteps = 1
  MaxConfigures = 2
  MayReboot = {1}
SPECIFICATION Spec
CHECK_DEADLOCK FALSE
INVARIANTS InStep EventsBracketEdges ConfiguredIsReady EdgeFixConverges
PROPERTY OwnerKeepsLinks
