CONSTANTS
  Nodes <- MCNodes
  Slot = {s1, s2}
  Emulating <- MCOneFrontEnd
  Saving <- MCOneFrontEnd
  NoFile = NoFile
SPECIFICATION Spec
INVARIANT HandedBackWhenGone
