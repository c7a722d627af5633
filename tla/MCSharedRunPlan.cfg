SPECIFICATION Spec
CONSTANTS
  Subsystem = {s1, s2}
  Inject = inject
  InjectRatio <- MCInjectRatio
  NValues <- MCNValues
  Team = {t1}
  Ratio <- MCRatio
  Offset = {1}
  Count = {13}
  Careful = TRUE
  NoSubsystem = none
INVARIANTS SharesHold OnlyWhatWasAsked ShotsComplete
SYMMETRY MCSymmetry
