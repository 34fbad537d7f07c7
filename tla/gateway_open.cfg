SPECIFICATION FairSpec
CONSTANTS
  Calls = {c1, c2}
  Ids = {i1, i2}
  Tools <- ShopTools
  ActionOf <- ShopActions
  ThenOf <- ShopThen
  TaintSources <- ShopSources
  TaintSinks <- ShopSinks
  SequenceRules <- ShopRules
  Weights <- RiskWeights
  SuspendAt = 4
  OpenPosture = {"pipeline", "redaction", "approval"}
  CrashStages = {"policy", "constraints", "sequence", "action"}
  RedactionOn = TRUE
  Broker = "http"
  AnomalyOn = TRUE
  Severities = {"anomaly_medium"}
  Debounce = 2
  ArgKinds = {"clean", "violating"}
  Sequential = FALSE
  IdReuse = FALSE
INVARIANTS
  FailOpenIsBounded
CHECK_DEADLOCK FALSE
PROPERTIES
  RequestsAreAnswered
