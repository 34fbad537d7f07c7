SPECIFICATION ConsoleSpec
CONSTANTS
  sA = sA  r1 = r1  r2 = r2  r3 = r3
  Lines <- MCLines
  BadLine = BadLine  NoSession = NoSession  NoScore = NoScore  NoRow = NoRow
  SessionIds <- MCSessionIds
  Requests <- MCRequests
  Backends <- MCBackends
  MaxLines <- MCMaxLines
  MaxRebuilds = 1
  MaxCrashes = 1
  PageLimits <- MCPageLimits
  Commands <- MCCommands
  Names = {"ann", "eve"}
  Passwords = {"pw", "other"}
  Tokens = {"token", "guess", "empty"}
  CookieTTL = 1
  MaxTime = 2
  MaxBoots = 2
  MaxLogins = 2
  Absent = Absent
SYMMETRY Interchangeable
INVARIANTS
  NothingSkipped
  RollUpIsExact
  RequestSeesEachOnce
  FeedInOrder
  QueueIsGuarded
CHECK_DEADLOCK FALSE
