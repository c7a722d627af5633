CONSTANTS
  Roc = {r1, r2}
  NSeg = 1
  NRec = 2
  MaxAttempts = 2
  Tries = 2
  MaxFaults = 1
SPECIFICATION FairSpec
INVARIANTS
  VerifiedHoldsImage
  AckMeansDone
  NothingElseTouched
PROPERTIES
  FailedIsLeftAlone
  SessionEnds
CHECK_DEADLOCK FALSE
