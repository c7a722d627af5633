SPECIFICATION Spec
CONSTANTS
  Client = {c1, c2}
  Subsystem = {s1, s2}
  MaxNumber = 2
  MaxPauses = 1
  NoNumber = none
INVARIANTS StatusIsTrue ConditionIsWhole
PROPERTY ImplementsBook
SYMMETRY MCSymmetry
