CONSTANTS
  Selected = {r1, r2}
  OldVersion = 1
  ImageVersion = 2
  Expected = 2
  LinkResyncTries = 2
  MaxFaults = 1
SPECIFICATION ActivationFairSpec
INVARIANTS
  ProgrammedRunsExpected
PROPERTIES
  EarlyFailureIsRefusal
  ActivationEnds
CHECK_DEADLOCK FALSE
