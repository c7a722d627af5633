CONSTANTS
  d1 = d1  d2 = d2  m1 = m1 m2 = m2
  DTC <- MCDTC
  RealROCs = {d1}
  MinReady <- MCMinReady
  Configurations <- MCConfigurations
  Counts = {2}
  Cycles = {1}
  PerCycle = 2
  Flash = {m1, m2}
  DtcOf <- MCDtcOf
  MaxRuns = 2
  MaxWindows = 2
  MaxMacros = 2
SPECIFICATION Spec
CHECK_DEADLOCK FALSE
INVARIANTS RunIsComplete StoppedIsQuiet SlowControlsQuiet
SYMMETRY FlashSymmetry
