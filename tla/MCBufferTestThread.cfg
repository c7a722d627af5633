CONSTANTS
  Nodes <- MCNodes
  Slot = {s1, s2}
  Emulating <- MCOneFrontEnd
  Saving <- MCOneFrontEnd
  NoFile = NoFile
SPECIFICATION FairSpec
INVARIANTS
  OneThreadRuns
  FileAccounted
  HandleHeld
  OneReaderOfDTC1
  HaltLeavesNothing
PROPERTY HaltStops
