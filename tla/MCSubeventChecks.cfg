SPECIFICATION Spec
CONSTANTS
  Ids <- MCIds
  Local = 1
  Peer = 2
  Skip = 2
  None = None
  MaxEvents = 2
  MaxFaults = 2
  MaxStarts = 2
INVARIANTS
  AlarmsHaveCauses
  SilenceMeansComplete
CHECK_DEADLOCK FALSE
