SPECIFICATION Spec
CONSTANTS
  Roc = {r1, r2}
  Hangs = TRUE
  Faults = TRUE
  MaxQueue = 1
SYMMETRY RocSymmetry
INVARIANTS HolderAlone OnlyLaunchesLeaveLocks
PROPERTY SessionUndisturbed
