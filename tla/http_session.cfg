SPECIFICATION FairSpec
CONSTANTS
  s1 = s1  p1 = p1  p2 = p2  k1 = k1
  alice = alice  svc = svc  ops = ops  dev = dev  admin = admin  reader = reader
  Sessions <- MCSessions
  Posts <- MCPosts
  Kids <- MCKids
  Credentials <- MCCredentials
  GroupRoles <- MCGroupRoles
  DefaultRole = NoRole
  TTL = 0
  NoSubject = NoSubject  NoRole = NoRole  Nobody = Nobody
  MaxEvents = 2
INVARIANTS
  AnswersFindTheirPost
  CallersAreThemselves
  TeardownIsComplete
PROPERTIES
  WithdrawnKeyDies
  NothingHangs
