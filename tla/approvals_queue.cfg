SPECIFICATION FairSpec
CONSTANTS
  Requests = {"r1", "r2"}
  Keys = {"k1", "k2"}
  WireId <- SharedWireId
  FailOpen = FALSE
  MaxRestarts = 1
INVARIANTS
  OneAnswerEach
PROPERTIES
  KeepsContract
  ApprovalsSettle
