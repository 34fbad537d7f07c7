--------------------------- MODULE MCHttpSession ---------------------------
(* One signing key; a caller with two mapped groups and a second token that  *)
(* lost one of them, a service with an API key, a forged token.              *)
EXTENDS HttpSession

CONSTANTS s1, p1, p2, k1, alice, svc, ops, dev, admin, reader

MCSessions == {s1}
MCPosts == {p1, p2}
MCKids == {k1}
MCGroupRoles == <<<<ops, admin>>, <<dev, reader>>>>

Token == [scheme |-> "bearer", algOK |-> TRUE, claimsOK |-> TRUE, kid |-> k1, signedBy |-> k1,
          sub |-> alice, groups |-> <<dev, ops>>]
Reduced == [Token EXCEPT !.groups = <<dev>>]
Forged == [Token EXCEPT !.signedBy = "other", !.groups = <<>>]
ServiceKey == [scheme |-> "apikey", sub |-> svc, groups |-> <<reader>>]

MCCredentials == {Token, Reduced, Forged, ServiceKey}
=============================================================================
