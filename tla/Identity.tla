------------------------------ MODULE Identity ------------------------------
(***************************************************************************)
(* Who is calling (identity/): a credential is resolved to a principal on  *)
(* every HTTP request, against the issuer's published keys, which are      *)
(* cached, or against the configured API keys.  Resolution is one          *)
(* synchronous call, so it is one step of the event loop.                  *)
(***************************************************************************)
EXTENDS Integers, FiniteSets, Sequences, SequencesExt, Functions

CONSTANTS
  Kids,          \* ids of signing keys the issuer may publish
  Credentials,   \* records: see CredentialsAssumption
  GroupRoles,    \* mapping.groups, in file order: a sequence of <<group, role>>
  DefaultRole,   \* mapping.default_role; NoRole: none
  TTL,           \* jwks_ttl_seconds, in ticks
  NoSubject, NoRole, Nobody

\* A header is missing, malformed, a bearer token or an API key.  A token has
\* an accepted algorithm or not, the key id it names (or none), the key that
\* really signed it, claims that match the issuer and audience or not.
ASSUME CredentialsAssumption ==
  /\ TTL \in Nat
  /\ GroupRoles \in Seq(ToSet(GroupRoles))
  /\ \A c \in Credentials :
       /\ c.scheme \in {"none", "malformed", "bearer", "apikey"}
       /\ c.scheme = "bearer" =>
            /\ c.algOK \in BOOLEAN /\ c.claimsOK \in BOOLEAN
            /\ c.kid = "" \/ c.kid \in Kids

VARIABLES
  withdrawn,  \* [Kids -> 0..TTL+2]: 0 while published, else ticks since it is not
  cache,      \* JwksProvider._keys
  age,        \* ticks since _fetched_at, counted up to TTL + 1
  expired     \* the tokens whose exp has passed

identityVars == <<withdrawn, cache, age, expired>>

Published == {k \in Kids : withdrawn[k] = 0}

-----------------------------------------------------------------------------
(* Role mapping *)

\* Mutant of RolesOf: roles in the order of the token's groups.
RolesInTokenOrder(groups) ==
  LET table == [g \in {GroupRoles[i][1] : i \in 1..Len(GroupRoles)} |->
                  (CHOOSE r \in ToSet(GroupRoles) : r[1] = g)[2]]
      held == SelectSeq(groups, LAMBDA g : g \in DOMAIN table) IN
  [i \in 1..Len(held) |-> table[held[i]]]

\* The roles of the mapped groups the caller is in, in the order of the file
\* (the engine uses the first), or the default role.
RolesOf(groups) ==
  LET gathered[n \in 0..Len(GroupRoles)] ==
        IF n = 0 THEN <<>>
        ELSE IF GroupRoles[n][1] \in ToSet(groups) /\ GroupRoles[n][2] \notin ToSet(gathered[n - 1])
        THEN Append(gathered[n - 1], GroupRoles[n][2])
        ELSE gathered[n - 1]
      roles == gathered[Len(GroupRoles)] IN
  IF roles = <<>> /\ DefaultRole # NoRole THEN <<DefaultRole>> ELSE roles

\* A principal; from is history: the credential it was resolved from.
Principal(c, roles) == IF c.sub = NoSubject THEN Nobody
                       ELSE [id |-> c.sub, roles |-> roles, from |-> c]

ToPrincipal(c) == Principal(c, RolesOf(c.groups))

-----------------------------------------------------------------------------
(* Signing keys.  A fetch may fail (fetchOK), and fails when nothing is    *)
(* published; a failed fetch refuses the request and keeps the old keys.   *)

FetchWorks(fetchOK) == fetchOK /\ Published # {}

Refused(keys, fetched) == [ok |-> FALSE, keys |-> keys, fetched |-> fetched]

\* Mutant of SigningKey: a fetch that fails falls back on the keys it has.
SigningKeyServesStale(kid, fetchOK) ==
  LET first == cache = {} \/ age > TTL
      keys == IF first /\ FetchWorks(fetchOK) THEN Published ELSE cache IN
  [ok |-> kid \in keys, keys |-> keys, fetched |-> first /\ FetchWorks(fetchOK)]

\* JwksProvider.signing_key: a refresh when the cache is empty or stale, and
\* another when the key id is still unknown.
SigningKey(kid, fetchOK) ==
  LET first == cache = {} \/ age > TTL
      keys == IF first THEN Published ELSE cache IN
  IF first /\ ~FetchWorks(fetchOK) THEN Refused(cache, FALSE)
  ELSE IF kid \in keys THEN [ok |-> TRUE, keys |-> keys, fetched |-> first]
  ELSE IF ~FetchWorks(fetchOK) THEN Refused(keys, first)
  ELSE [ok |-> kid \in Published, keys |-> Published, fetched |-> TRUE]

\* OidcValidator.validate, then RoleMapping.to_principal.
ResolveOidc(c, fetchOK) ==
  LET key == IF c.algOK /\ c.kid # "" THEN SigningKey(c.kid, fetchOK) ELSE Refused(cache, FALSE)
      good == key.ok /\ c.signedBy = c.kid /\ c.claimsOK /\ c \notin expired IN
  [who |-> IF good THEN ToPrincipal(c) ELSE Nobody, keys |-> key.keys, fetched |-> key.fetched]

\* IdentityResolver.resolve, with no anonymous principal (no configuration
\* file sets one).  Nobody: the request is refused with a 401.
Resolve(c, fetchOK) ==
  CASE c.scheme = "bearer" -> ResolveOidc(c, fetchOK)
    [] c.scheme = "apikey" -> [who |-> Principal(c, c.groups), keys |-> cache, fetched |-> FALSE]
    [] OTHER -> [who |-> Nobody, keys |-> cache, fetched |-> FALSE]

\* What resolving does to the cache.
Resolving(answer) ==
  /\ cache' = answer.keys
  /\ age' = IF answer.fetched THEN 0 ELSE age
  /\ UNCHANGED <<withdrawn, expired>>

-----------------------------------------------------------------------------
(* The issuer and the clock *)

IdentityTypeOK ==
  /\ withdrawn \in [Kids -> 0..TTL + 2]
  /\ cache \subseteq Kids
  /\ age \in 0..TTL + 1
  /\ expired \subseteq Credentials

\* _fetched_at starts at 0.0 and the cache empty: the first request fetches.
IdentityInit ==
  /\ withdrawn \in {[k \in Kids |-> IF k \in p THEN 0 ELSE TTL + 2] : p \in SUBSET Kids \ {{}}}
  /\ cache = {}
  /\ age = 0
  /\ expired = {}

Rotate(k) ==
  /\ withdrawn' = [withdrawn EXCEPT ![k] = IF @ = 0 THEN 1 ELSE 0]
  /\ UNCHANGED <<cache, age, expired>>

Expire(c) ==
  /\ c.scheme = "bearer" /\ c.signedBy = c.kid /\ c \notin expired
  /\ expired' = expired \cup {c}
  /\ UNCHANGED <<withdrawn, cache, age>>

Tick ==
  /\ age' = IF age > TTL THEN age ELSE age + 1
  /\ withdrawn' = [k \in Kids |-> IF withdrawn[k] \in 1..TTL + 1 THEN withdrawn[k] + 1
                                  ELSE withdrawn[k]]
  /\ UNCHANGED <<cache, expired>>

=============================================================================
