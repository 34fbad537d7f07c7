------------------------------ MODULE Central ------------------------------
(* Central mode: gateway.yaml and identity.yaml are validated and assembled   *)
(* into one service with an endpoint per upstream (central/config.py,         *)
(* identity/config.py, create_central_app of transports/streamable_http.py).  *)
(* Nothing starts from a document that is refused.                            *)
(*                                                                            *)
(* A document is a record; Unset is a field that is absent, Broken one that   *)
(* is there and malformed.  What a token or key is worth once it is read is   *)
(* Identity.tla; here it matters which kinds of credential an endpoint takes. *)
EXTENDS PolicyTools

CONSTANTS ConfigError,      \* GatewayError or IdentityError at startup
          PolicyFiles,      \* policy file -> its document
          IdentityFiles,    \* identity file -> its document
          Bearers           \* a sound token of the issuer -> its [aud, alg]

-----------------------------------------------------------------------------
(* identity.yaml: [schema_version, unknown, oidc, mapping, api_keys]; oidc is *)
(* [issuer, audience, algorithms, unknown], an API key [id, digest, unknown]. *)
(* Audience and algorithms are sets, empty ones too; a string is a singleton. *)
(* A digest that is not 64 characters long is Broken; one of 64 characters    *)
(* need not be the digest of any key.                                         *)

DEFAULT_ALGORITHMS == {"RS256", "RS384", "RS512", "ES256", "ES384", "ES512"}

\* No list is asked to have members.
ValidOidc(oidc, mapping) ==
  /\ oidc # Broken /\ ~oidc.unknown
  /\ oidc.issuer \notin {Unset, Broken} /\ oidc.audience \notin {Unset, Broken}
  /\ oidc.algorithms # Broken /\ mapping # Broken

\* The mapping belongs to oidc and is not looked at without it.
_build_oidc(doc) ==
  IF doc.oidc = Unset THEN Unset
  ELSE IF ValidOidc(doc.oidc, doc.mapping) THEN doc.oidc ELSE ConfigError

_build_api_keys(keys) ==
  IF keys = <<>> THEN Unset
  ELSE IF \A i \in DOMAIN keys : /\ ~keys[i].unknown
                                 /\ keys[i].id \notin {Unset, Broken}
                                 /\ keys[i].digest \notin {Unset, Broken}
       THEN keys ELSE ConfigError

\* Mutant of load_identity_config: a file that names no method is accepted.
LoadIdentityOfNobody(doc) ==
  LET oidc == _build_oidc(doc)
      keys == _build_api_keys(doc.api_keys) IN
  IF doc.schema_version # 1 \/ doc.unknown \/ ConfigError \in {oidc, keys}
    THEN ConfigError ELSE [oidc |-> oidc, api_keys |-> keys]

load_identity_config(doc) ==
  LET oidc == _build_oidc(doc)
      keys == _build_api_keys(doc.api_keys) IN
  IF \/ doc.schema_version # 1 \/ doc.unknown
     \/ doc.oidc = Unset /\ doc.api_keys = <<>>
     \/ ConfigError \in {oidc, keys}
    THEN ConfigError ELSE [oidc |-> oidc, api_keys |-> keys]

\* ApiKeyStore.resolve never stops at a match: the last one counts.
KeyHolder(keys, digest) ==
  LET hits == {i \in DOMAIN keys : keys[i].digest = digest} IN
  IF hits = {} THEN Unset ELSE keys[CHOOSE i \in hits : \A j \in hits : i >= j].id

-----------------------------------------------------------------------------
(* gateway.yaml: [upstreams, backend, url, identity]; an upstream is          *)
(* [name, command, policy], its policy a sequence of files.                   *)

ValidUpstream(up) == /\ up.name \notin {Unset, Broken}
                     /\ up.command \notin {Unset, Broken}
                     /\ up.policy \notin {Unset, Broken, <<>>}

\* A state that is not a mapping (Broken) is taken for an absent one.
load_gateway_config(doc) ==
  IF /\ doc.upstreams \notin {Unset, Broken, <<>>}
     /\ \A i \in DOMAIN doc.upstreams :
          /\ ValidUpstream(doc.upstreams[i])
          /\ \A j \in 1..(i - 1) : doc.upstreams[i].name # doc.upstreams[j].name
     /\ doc.backend \in {Unset, Broken, "memory", "redis"}
     /\ doc.backend = "redis" => doc.url # Unset
     /\ doc.identity # Broken
    THEN doc ELSE ConfigError

\* Mutant of _bind_upstream: the loop variable is read when a session starts.
BindUpstreamLate(ups, i) == ups[Len(ups)].command

\* What a session of the i-th endpoint runs.
_bind_upstream(ups, i) == ups[i].command

_build_store(config) == IF config.backend = "redis" THEN "shared" ELSE "per gateway"

Policies(up) == [i \in DOMAIN up.policy |-> PolicyFiles[up.policy[i]]]

\* The hubs by upstream name, or the error that stops the start.
build_central_app(config) ==
  LET ups      == config.upstreams
      resolver == IF config.identity = Unset THEN Unset
                  ELSE load_identity_config(IdentityFiles[config.identity])
      at(n)    == CHOOSE i \in DOMAIN ups : ups[i].name = n
      names    == {ups[i].name : i \in DOMAIN ups}
  IN IF resolver = ConfigError \/ \E i \in DOMAIN ups : PolicyEngine(Policies(ups[i])) = PolicyError
       THEN ConfigError
       ELSE [n \in names |-> [engine   |-> PolicyEngine(Policies(ups[at(n)])),
                              command  |-> _bind_upstream(ups, at(n)),
                              store    |-> _build_store(config),
                              resolver |-> resolver]]

_run_serve(doc) == LET config == load_gateway_config(doc) IN
                   IF config = ConfigError THEN ConfigError ELSE build_central_app(config)

\* create_central_app: the hub of the path, or a 404.
_hub(app, name) == IF name \in DOMAIN app THEN app[name] ELSE Unset

\* OidcValidator.validate on a token that is sound but for these two.
TakesToken(oidc, token) ==
  /\ token.alg \in (IF oidc.algorithms = Unset THEN DEFAULT_ALGORITHMS ELSE oidc.algorithms)
  /\ token.aud \in oidc.audience

\* _authenticate and IdentityResolver.resolve, by the kind of credential: Unset
\* (none sent), a sound token or an API key's digest.
Admits(hub, credential) ==
  \/ hub.resolver = Unset
  \/ /\ hub.resolver # Unset
     /\ \/ /\ credential \in DOMAIN Bearers /\ hub.resolver.oidc # Unset
           /\ TakesToken(hub.resolver.oidc, Bearers[credential])
        \/ /\ credential \notin {Unset} \cup DOMAIN Bearers /\ hub.resolver.api_keys # Unset
           /\ KeyHolder(hub.resolver.api_keys, credential) # Unset
=============================================================================
