SPECIFICATION Spec
CONSTANTS
  Calls = {c1, c2, c3}
  Ids = {i1, i2}
  Tools <- OfficeTools
  ActionOf <- OfficeActions
  ThenOf <- OfficeThen
  TaintSources <- OfficeSources
  TaintSinks <- OfficeSinks
  SequenceRules <- OfficeRules
  Weights <- RiskWeights
  SuspendAt = 4
  OpenPosture = {}
  CrashStages = {}
  RedactionOn = TRUE
  Broker = "http"
  AnomalyOn = TRUE
  Severities = {"anomaly_medium"}
  Debounce = 2
  ArgKinds = {"clean", "pii"}
  Sequential = TRUE
  IdReuse = FALSE
INVARIANTS
  TypeOK
  ProtectedDataStaysProtected
  AtMostOneStraggler
  TrailScoreIsLive
SYMMETRY Symmetry
CHECK_DEADLOCK FALSE
