SPECIFICATION Spec
CONSTANTS
  Calls = {c1, c2, c3}
  Ids = {i1, i2}
  Tools <- ShopTools
  ActionOf <- ShopActions
  ThenOf <- ShopThen
  TaintSources <- ShopSources
  TaintSinks <- ShopSinks
  SequenceRules <- ShopRules
  Weights <- RiskWeights
  SuspendAt = 4
  OpenPosture = {}
  CrashStages = {}
  RedactionOn = TRUE
  Broker = "http"
  AnomalyOn = TRUE
  Severities = {"anomaly_low", "anomaly_high"}
  Debounce = 2
  ArgKinds = {"clean"}
  Sequential = FALSE
  IdReuse = FALSE
INVARIANTS
  SuspensionAccounted
  ChecksHoldOnTheWire
  RefusedNeverSent
  TrailMatchesWire
SYMMETRY Symmetry
CHECK_DEADLOCK FALSE
