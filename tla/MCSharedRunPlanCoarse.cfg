SPECIFICATION Spec
CONSTANTS
  Subsystem = {s1}
  Inject = inject
  InjectRatio <- MCInjectRatio
  NValues <- MCNValues
  Team = {t1}
  Ratio <- MCCoarseRatio
  Offset = {0}
  Count = {}
  Careful = FALSE
  NoSubsystem = none
INVARIANT SharesHold
