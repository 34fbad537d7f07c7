------------------------- MODULE HttpSessionProofs -------------------------
(* What holds of the HTTP transport for every set of sessions and POSTs, any  *)
(* credentials, role file and cache lifetime: answers are paired with the     *)
(* POST that waits for them, sessions end with their exit on the trail, a     *)
(* caller stays on its own sessions and a withdrawn key dies with the cache.  *)
EXTENDS HttpSession, WellFoundedInduction, TLAPS

---------------------------------------------------------------------------
(* Shapes.  TypeOK says of the records what TLC needs; a proof also needs     *)
(* the sets they are drawn from.                                              *)

Principals == {ToPrincipal(c) : c \in Credentials}
                \cup {Principal(c, c.groups) : c \in {d \in Credentials : d.scheme = "apikey"}}
                \cup {Nobody}

SessionRecords ==
  [registered : BOOLEAN, owner : Principals, closed : BOOLEAN, pending : SUBSET Posts,
   sse : Seq(Posts \cup {Note}), streams : 0..1, proc : {"none", "running", "exited"},
   pump : {"none", "running", "ended", "failed", "cancelled"},
   close : {"no", "terminating", "done", "raised"}, exits : 0..2, stopped : BOOLEAN]

PostRecords ==
  [pc : {"idle", "deciding", "waiting", "done"}, sess : Sessions \cup {Nobody},
   kind : {"none", "request", "notification"},
   future : {"none", "open", "answer", "denial", "cancelled"},
   reply : {"none", "answer", "denial", "timeout", "aborted", "error", "accepted",
            "401", "403", "404"},
   cred : Credentials \cup {Nobody}, who : Principals]

Shapes ==
  /\ sess \in [Sessions -> SessionRecords]
  /\ post \in [Posts -> PostRecords]
  /\ upstream \in [Sessions -> SUBSET Posts]
  /\ hub \in {"up", "draining", "closing", "down"}
  /\ todo \subseteq Sessions
  /\ notes \in 0..MaxEvents /\ faults \in 0..MaxEvents /\ rotations \in 0..MaxEvents

---------------------------------------------------------------------------
(* The life of one session, as a condition on its record: it is registered    *)
(* until its close begins, the close begins once, and the exits on the trail  *)
(* are those of the pump and of the close.                                    *)

Exits(x) == (IF x.pump = "ended" THEN 1 ELSE 0) + (IF x.stopped THEN 1 ELSE 0)

Life(x, f) ==
  /\ x.proc = "none" => x = Unborn
  /\ x.proc # "none" => x.owner # Nobody
  /\ ~x.registered /\ x.close = "no" => x.proc = "none"
  /\ x.registered => x.close = "no" /\ x.proc # "none"
  /\ x.pump = "running" => x.close = "no"
  /\ x.stopped <=> x.close = "done"
  /\ x.close = "done" => x.proc = "exited"
  /\ x.pump = "failed" \/ x.close = "raised" => f > 0
  /\ x.exits = Exits(x)

Lives == \A s \in Sessions : Life(sess[s], faults)

\* What shutdown_all has still to do.
Shutdown ==
  /\ hub \in {"up", "draining"} => todo = {}
  /\ \A s \in Sessions :
       /\ s \in todo => sess[s].registered
       /\ hub \in {"closing", "down"} /\ sess[s].registered => s \in todo
       /\ hub = "down" /\ faults = 0 => ~sess[s].registered /\ sess[s].close # "terminating"

---------------------------------------------------------------------------
(* The pairing of answers and POSTs. *)

\* A POST that has come to a session is of a session that exists.
PostsHaveSessions ==
  \A p \in Posts :
    /\ post[p].pc = "idle" => post[p] = Idle
    /\ post[p].pc \in {"deciding", "waiting"} => post[p].sess \in Sessions
    /\ post[p].sess \in Sessions => sess[post[p].sess].proc # "none"
    /\ post[p].who # Nobody => post[p].pc \in {"deciding", "waiting"}
    /\ post[p].pc \in {"deciding", "waiting"} =>
         /\ post[p].future # "none" <=> post[p].kind = "request"
         /\ post[p].reply = "none"
    /\ post[p].pc = "waiting" => post[p].kind = "request"
    /\ post[p].pc = "done" => post[p].future = "none"

\* An entry of _pending is an open future, or what a 500 left behind.
PendingIsOpen ==
  \A s \in Sessions : \A p \in sess[s].pending :
    /\ post[p].sess = s
    /\ \/ post[p].pc \in {"deciding", "waiting"} /\ post[p].future = "open"
       \/ post[p].pc = "done" /\ post[p].reply = "error"

\* A request the gateway still decides about is pending, unless its session was
\* closed, which ended the pump that could deliver an answer.
DecidingIsPending ==
  \A p \in Posts :
    /\ (post[p].pc = "deciding" /\ post[p].kind = "request") =>
         \/ post[p].future = "open" /\ p \in sess[post[p].sess].pending
         \/ post[p].future = "cancelled"
    /\ post[p].future = "cancelled" => sess[post[p].sess].pump # "running"

\* The child owes an answer once: to a POST that is past the gateway, and one
\* that is no longer pending has timed out.
OwedOnce ==
  \A s \in Sessions : \A p \in upstream[s] :
    /\ post[p].sess = s /\ post[p].pc \in {"waiting", "done"}
    /\ sess[s].pump = "running" /\ p \notin sess[s].pending => post[p].reply = "timeout"

\* What is on the stream is owed no more.
StreamedOnce ==
  \A s \in Sessions : \A i \in 1..Len(sess[s].sse) :
    sess[s].sse[i] # Note =>
      /\ post[sess[s].sse[i]].pc \in {"waiting", "done"}
      /\ sess[s].sse[i] \notin upstream[s]

Pairing == /\ PostsHaveSessions /\ PendingIsOpen /\ DecidingIsPending /\ OwedOnce
           /\ StreamedOnce /\ OneDelivery

\* A cached key was published when the cache was filled.
CacheIsRecent == \A k \in cache : withdrawn[k] <= age + 1

Inv == /\ Shapes /\ IdentityTypeOK /\ CacheIsRecent
       /\ Lives /\ Shutdown /\ FaultFreeTeardown
       /\ Pairing /\ OwnerOnly

LEMMA InvGivesProperties ==
  Inv => AnswersFindTheirPost /\ TeardownIsComplete /\ OwnerOnly
<1> SUFFICES ASSUME Inv PROVE AnswersFindTheirPost /\ TeardownIsComplete /\ OwnerOnly
  OBVIOUS
<1> USE DEF Inv
<1>1. TypeOK
  BY DEF TypeOK, Shapes, SessionRecords, PostRecords
<1>2. PendingMeansWaiting
  BY DEF PendingMeansWaiting, Pairing, PendingIsOpen
<1>3. ExitOnTrail
  BY DEF ExitOnTrail, Lives, Life, Exits, Shapes, SessionRecords
<1> QED
  BY <1>1, <1>2, <1>3 DEF AnswersFindTheirPost, TeardownIsComplete, Pairing

---------------------------------------------------------------------------
(* Identity: what resolving a credential may answer. *)

LEMMA SigningKeyAnswers ==
  ASSUME IdentityTypeOK, CacheIsRecent, NEW kid \in Kids, NEW fetchOK \in BOOLEAN
  PROVE  LET key == SigningKey(kid, fetchOK) IN
         /\ key.fetched \in BOOLEAN
         /\ key.keys = IF key.fetched THEN Published ELSE cache
         /\ key.ok => withdrawn[kid] <= TTL + 1
<1>1. /\ TTL \in Nat /\ Published \subseteq Kids /\ cache \subseteq Kids
      /\ age \in 0..TTL + 1
      /\ \A k \in Published : withdrawn[k] = 0
      /\ \A k \in Kids : withdrawn[k] \in 0..TTL + 2
  BY CredentialsAssumption DEF IdentityTypeOK, Published
<1> DEFINE first == cache = {} \/ age > TTL
           works == FetchWorks(fetchOK)
<1>2. ~first => \A k \in cache : withdrawn[k] <= TTL + 1
  <2> SUFFICES ASSUME ~first, NEW k \in cache PROVE withdrawn[k] <= TTL + 1
    OBVIOUS
  <2>1. age <= TTL /\ withdrawn[k] \in Int /\ withdrawn[k] <= age + 1 /\ age \in Int
    BY <1>1 DEF CacheIsRecent
  <2> QED
    BY <1>1, <2>1
<1>3. 0 <= TTL + 1
  BY <1>1
<1>4. first \in BOOLEAN
  OBVIOUS
<1>5. SigningKey(kid, fetchOK) =
        IF first /\ ~works THEN Refused(cache, FALSE)
        ELSE IF kid \in (IF first THEN Published ELSE cache)
        THEN [ok |-> TRUE, keys |-> (IF first THEN Published ELSE cache), fetched |-> first]
        ELSE IF ~works THEN Refused((IF first THEN Published ELSE cache), first)
        ELSE [ok |-> kid \in Published, keys |-> Published, fetched |-> TRUE]
  BY DEF SigningKey
<1> HIDE DEF first, works
<1> DEFINE keys == IF first THEN Published ELSE cache
<1>6. CASE first /\ ~works
  BY <1>5, <1>6 DEF Refused
<1>7. CASE ~(first /\ ~works) /\ kid \in keys
  <2>1. SigningKey(kid, fetchOK) = [ok |-> TRUE, keys |-> keys, fetched |-> first]
    BY <1>5, <1>7
  <2>2. withdrawn[kid] <= TTL + 1
    BY <1>1, <1>2, <1>3, <1>7
  <2> QED
    BY <1>4, <2>1, <2>2
<1>8. CASE ~(first /\ ~works) /\ kid \notin keys /\ ~works
  <2>1. SigningKey(kid, fetchOK) = [ok |-> FALSE, keys |-> keys, fetched |-> first]
    BY <1>5, <1>8 DEF Refused
  <2> QED
    BY <1>4, <2>1
<1>9. CASE ~(first /\ ~works) /\ kid \notin keys /\ works
  <2> DEFINE known == kid \in Published
  <2>1. SigningKey(kid, fetchOK) = [ok |-> known, keys |-> Published, fetched |-> TRUE]
    BY <1>5, <1>9
  <2>2. known => withdrawn[kid] <= TTL + 1
    BY <1>1, <1>3
  <2> HIDE DEF known
  <2> QED
    BY <2>1, <2>2
<1> QED
  BY <1>6, <1>7, <1>8, <1>9

\* A caller is let in by a bearer token only if the token is good, and resolving
\* leaves the cache alone or fills it with what is published.
LEMMA ResolveAnswers ==
  ASSUME IdentityTypeOK, CacheIsRecent, NEW c \in Credentials, NEW fetchOK \in BOOLEAN
  PROVE  LET answer == Resolve(c, fetchOK) IN
         /\ answer.who \in Principals
         /\ answer.fetched \in BOOLEAN
         /\ answer.keys = IF answer.fetched THEN Published ELSE cache
         /\ (answer.who # Nobody /\ c.scheme = "bearer") =>
              /\ c.signedBy = c.kid /\ c \notin expired
              /\ withdrawn[c.kid] <= TTL + 1
<1>1. CASE c.scheme = "bearer"
  <2> DEFINE key == IF c.algOK /\ c.kid # "" THEN SigningKey(c.kid, fetchOK)
                    ELSE Refused(cache, FALSE)
             good == key.ok /\ c.signedBy = c.kid /\ c.claimsOK /\ c \notin expired
  <2>1. /\ key.fetched \in BOOLEAN
        /\ key.keys = IF key.fetched THEN Published ELSE cache
        /\ key.ok => withdrawn[c.kid] <= TTL + 1
    <3>1. CASE c.algOK /\ c.kid # ""
      BY <1>1, <3>1, SigningKeyAnswers, CredentialsAssumption
    <3>2. CASE ~(c.algOK /\ c.kid # "")
      BY <3>2 DEF Refused
    <3> QED
      BY <3>1, <3>2
  <2> HIDE DEF key
  <2>2. Resolve(c, fetchOK) = [who |-> IF good THEN ToPrincipal(c) ELSE Nobody,
                               keys |-> key.keys, fetched |-> key.fetched]
    BY <1>1 DEF Resolve, ResolveOidc, key
  <2>3. ToPrincipal(c) \in Principals /\ Nobody \in Principals
    BY DEF Principals
  <2> QED
    BY <2>1, <2>2, <2>3
<1>2. CASE c.scheme = "apikey"
  BY <1>2 DEF Resolve, Principals
<1>3. CASE c.scheme \notin {"bearer", "apikey"}
  BY <1>3 DEF Resolve, Principals
<1> QED
  BY <1>1, <1>2, <1>3

LEMMA ResolvingKeeps ==
  ASSUME IdentityTypeOK, CacheIsRecent, NEW c \in Credentials, NEW fetchOK \in BOOLEAN,
         Resolving(Resolve(c, fetchOK))
  PROVE  IdentityTypeOK' /\ CacheIsRecent'
<1>1. /\ TTL \in Nat /\ Published \subseteq Kids
      /\ \A k \in Published : withdrawn[k] = 0
  BY CredentialsAssumption DEF Published
<1>2. /\ withdrawn' = withdrawn /\ expired' = expired
      /\ \/ cache' = Published /\ age' = 0
         \/ cache' = cache /\ age' = age
  BY ResolveAnswers DEF Resolving
<1> QED
  BY <1>1, <1>2 DEF IdentityTypeOK, CacheIsRecent

LEMMA OutsideKeeps ==
  ASSUME IdentityTypeOK, CacheIsRecent,
         Tick \/ (\E k \in Kids : Rotate(k)) \/ (\E c \in Credentials : Expire(c))
  PROVE  IdentityTypeOK' /\ CacheIsRecent'
<1>1. TTL \in Nat /\ \A k \in Kids : withdrawn[k] \in 0..TTL + 2
  BY CredentialsAssumption DEF IdentityTypeOK
<1>2. CASE Tick
  BY <1>1, <1>2 DEF Tick, IdentityTypeOK, CacheIsRecent
<1>3. ASSUME NEW k \in Kids, Rotate(k) PROVE IdentityTypeOK' /\ CacheIsRecent'
  BY <1>1, <1>3 DEF Rotate, IdentityTypeOK, CacheIsRecent
<1>4. ASSUME NEW c \in Credentials, Expire(c) PROVE IdentityTypeOK' /\ CacheIsRecent'
  BY <1>1, <1>4 DEF Expire, IdentityTypeOK, CacheIsRecent
<1> QED
  BY <1>2, <1>3, <1>4

---------------------------------------------------------------------------
(* Frames: what a step that changes one part leaves true of the others. *)

\* One session's record is replaced by one that lives.
LEMMA LifeStep ==
  ASSUME Shapes, Lives, NEW s \in Sessions, NEW new \in SessionRecords,
         sess' = [sess EXCEPT ![s] = new], Life(new, faults'),
         faults' \in Nat, faults' >= faults
  PROVE  /\ sess' \in [Sessions -> SessionRecords] /\ sess'[s] = new
         /\ \A t \in Sessions \ {s} : sess'[t] = sess[t]
         /\ Lives'
<1>1. /\ sess' \in [Sessions -> SessionRecords] /\ sess'[s] = new
      /\ \A t \in Sessions \ {s} : sess'[t] = sess[t]
  BY DEF Shapes
<1>2. \A t \in Sessions \ {s} : Life(sess[t], faults')
  BY SessionAssumption DEF Shapes, Lives, Life
<1> QED
  BY <1>1, <1>2 DEF Lives

\* A step that leaves POSTs, what is owed and _pending alone, starts no pump and
\* no session, and streams nothing but messages of the server.
LEMMA PairingFrame ==
  ASSUME Shapes, Pairing, OwnerOnly, sess' \in [Sessions -> SessionRecords],
         UNCHANGED <<post, upstream>>,
         \A s \in Sessions :
           /\ sess'[s].pending = sess[s].pending /\ sess'[s].owner = sess[s].owner
           /\ sess'[s].pump = "running" => sess[s].pump = "running"
           /\ sess'[s].proc = "none" => sess[s].proc = "none"
           /\ \/ sess'[s].sse = sess[s].sse
              \/ sess'[s].sse = Append(sess[s].sse, Note)
              \/ sess[s].sse # <<>> /\ sess'[s].sse = Tail(sess[s].sse)
  PROVE  Pairing' /\ OwnerOnly'
<1> USE DEF Shapes, Pairing
<1>1. PostsHaveSessions'
  BY DEF PostsHaveSessions
<1>2. PendingIsOpen'
  BY DEF PendingIsOpen
<1>3. DecidingIsPending'
  <2>1. \A p \in Posts : post[p].future = "cancelled" => post[p].sess \in Sessions
    BY DEF PostsHaveSessions, PostRecords, Idle
  <2>2. \A p \in Posts : post[p].pc = "deciding" => post[p].sess \in Sessions
    BY DEF PostsHaveSessions
  <2> QED
    BY <2>1, <2>2 DEF DecidingIsPending
<1>4. OwedOnce'
  BY DEF OwedOnce
<1>5. ASSUME NEW s \in Sessions
      PROVE  \A i \in 1..Len(sess'[s].sse) : sess'[s].sse[i] # Note =>
               \E j \in 1..Len(sess[s].sse) : sess'[s].sse[i] = sess[s].sse[j]
  <2>1. sess[s].sse \in Seq(Posts \cup {Note})
    BY DEF SessionRecords
  <2>2. CASE sess'[s].sse = sess[s].sse
    BY <2>2
  <2>3. CASE sess'[s].sse = Append(sess[s].sse, Note)
    BY <2>1, <2>3
  <2>4. CASE sess[s].sse # <<>> /\ sess'[s].sse = Tail(sess[s].sse)
    <3>1. /\ Len(sess'[s].sse) = Len(sess[s].sse) - 1
          /\ \A i \in 1..Len(sess'[s].sse) : sess'[s].sse[i] = sess[s].sse[i + 1]
      BY <2>1, <2>4
    <3> QED
      BY <2>1, <3>1
  <2> QED
    BY <2>2, <2>3, <2>4
<1>6. StreamedOnce'
  <2> SUFFICES ASSUME NEW s \in Sessions, NEW i \in 1..Len(sess'[s].sse), sess'[s].sse[i] # Note
               PROVE  /\ post'[sess'[s].sse[i]].pc \in {"waiting", "done"}
                      /\ sess'[s].sse[i] \notin upstream'[s]
    BY DEF StreamedOnce
  <2>1. PICK j \in 1..Len(sess[s].sse) : sess'[s].sse[i] = sess[s].sse[j]
    BY <1>5
  <2>2. /\ post[sess[s].sse[j]].pc \in {"waiting", "done"}
        /\ sess[s].sse[j] \notin upstream[s]
    BY <2>1 DEF StreamedOnce
  <2> QED
    BY <2>1, <2>2
<1>7. OneDelivery'
  <2>1. ASSUME NEW s \in Sessions
        PROVE  \A i, j \in 1..Len(sess'[s].sse) :
                 (sess'[s].sse[i] = sess'[s].sse[j] /\ sess'[s].sse[i] # Note) => i = j
    <3>1. sess[s].sse \in Seq(Posts \cup {Note})
      BY DEF SessionRecords
    <3>2. \A i, j \in 1..Len(sess[s].sse) :
            (sess[s].sse[i] = sess[s].sse[j] /\ sess[s].sse[i] # Note) => i = j
      BY DEF OneDelivery
    <3>3. CASE sess'[s].sse = sess[s].sse
      BY <3>2, <3>3
    <3>4. CASE sess'[s].sse = Append(sess[s].sse, Note)
      BY <3>1, <3>2, <3>4
    <3>5. CASE sess[s].sse # <<>> /\ sess'[s].sse = Tail(sess[s].sse)
      <4>1. /\ Len(sess'[s].sse) = Len(sess[s].sse) - 1
            /\ \A i \in 1..Len(sess'[s].sse) : sess'[s].sse[i] = sess[s].sse[i + 1]
        BY <3>1, <3>5
      <4>2. Len(sess[s].sse) \in Nat
        BY <3>1
      <4>3. \A i \in 1..Len(sess'[s].sse) : i \in Int /\ i + 1 \in 1..Len(sess[s].sse)
        BY <4>1, <4>2
      <4> SUFFICES ASSUME NEW i \in 1..Len(sess'[s].sse), NEW j \in 1..Len(sess'[s].sse),
                          sess'[s].sse[i] = sess'[s].sse[j], sess'[s].sse[i] # Note
                   PROVE  i = j
        OBVIOUS
      <4>4. /\ sess[s].sse[i + 1] = sess[s].sse[j + 1] /\ sess[s].sse[i + 1] # Note
            /\ i + 1 \in 1..Len(sess[s].sse) /\ j + 1 \in 1..Len(sess[s].sse)
        BY <4>1, <4>3
      <4>5. i + 1 = j + 1
        BY <3>2, <4>4
      <4> QED
        BY <4>3, <4>5
    <3> QED
      BY <3>3, <3>4, <3>5
  <2>2. ASSUME NEW s \in Sessions, NEW i \in 1..Len(sess'[s].sse), sess'[s].sse[i] # Note
        PROVE  WentWithout(post'[sess'[s].sse[i]], sess'[s])
    <3>1. PICK j \in 1..Len(sess[s].sse) : sess'[s].sse[i] = sess[s].sse[j]
      BY <1>5, <2>2
    <3>2. WentWithout(post[sess[s].sse[j]], sess[s])
      BY <2>2, <3>1 DEF OneDelivery
    <3> QED
      BY <3>1, <3>2 DEF WentWithout
  <2> QED
    BY <2>1, <2>2 DEF OneDelivery
<1>8. OwnerOnly'
  BY DEF OwnerOnly, PostsHaveSessions
<1> QED
  BY <1>1, <1>2, <1>3, <1>4, <1>6, <1>7, <1>8

\* A step that leaves every stream's frames alone keeps OneDelivery when what
\* it does to POSTs keeps the frames' own condition.
LEMMA DeliveryFrame ==
  ASSUME OneDelivery, \A s \in Sessions : sess'[s].sse = sess[s].sse,
         \A s \in Sessions : \A i \in 1..Len(sess[s].sse) : sess[s].sse[i] # Note =>
           WentWithout(post'[sess[s].sse[i]], sess'[s])
  PROVE  OneDelivery'
BY DEF OneDelivery

LEMMA IdentityFrame ==
  ASSUME IdentityTypeOK, CacheIsRecent, UNCHANGED identityVars
  PROVE  IdentityTypeOK' /\ CacheIsRecent'
BY DEF IdentityTypeOK, CacheIsRecent, identityVars

\* Once the server drains, no session is registered any more and no close starts
\* outside shutdown_all.
LEMMA ShutdownFrame ==
  ASSUME Shapes, Shutdown, FaultFreeTeardown, UNCHANGED <<hub, todo>>,
         faults' \in Nat, faults' >= faults,
         \A s \in Sessions : hub # "up" =>
           /\ sess'[s].registered = sess[s].registered
           /\ sess'[s].close = "terminating" => sess[s].close = "terminating"
           /\ sess[s] = Unborn => sess'[s] = Unborn
           /\ sess[s].proc = "exited" => sess'[s].proc = "exited"
           /\ sess[s].stopped => sess'[s].stopped
  PROVE  Shutdown' /\ FaultFreeTeardown'
<1>1. faults \in Nat
  BY SessionAssumption DEF Shapes
<1>2. CASE hub = "up"
  BY <1>2 DEF Shutdown, FaultFreeTeardown
<1>3. CASE hub # "up"
  BY <1>1, <1>3 DEF Shutdown, FaultFreeTeardown
<1> QED
  BY <1>2, <1>3

\* A step that touches one session and neither a POST nor the registry.
LEMMA SessionStep ==
  ASSUME Inv, NEW s \in Sessions, NEW new \in SessionRecords,
         sess' = [sess EXCEPT ![s] = new], UNCHANGED <<post, upstream, hub, todo, faults, rotations>>,
         notes' \in 0..MaxEvents, IdentityTypeOK', CacheIsRecent', Life(new, faults),
         sess[s].proc # "none", new.proc # "none",
         new.pending = sess[s].pending, new.owner = sess[s].owner,
         new.registered = sess[s].registered,
         new.pump = "running" => sess[s].pump = "running",
         new.close = "terminating" => sess[s].close = "terminating",
         sess[s].proc = "exited" => new.proc = "exited",
         sess[s].stopped => new.stopped,
         \/ new.sse = sess[s].sse
         \/ new.sse = Append(sess[s].sse, Note)
         \/ sess[s].sse # <<>> /\ new.sse = Tail(sess[s].sse)
  PROVE  Inv'
<1> USE DEF Inv
<1>1. faults' \in Nat /\ faults' >= faults /\ faults' = faults
  BY SessionAssumption DEF Shapes
<1>2. /\ sess' \in [Sessions -> SessionRecords] /\ sess'[s] = new
      /\ \A t \in Sessions \ {s} : sess'[t] = sess[t]
      /\ Lives'
  BY <1>1, LifeStep
<1>3. Shapes'
  BY <1>2 DEF Shapes
<1>4. Shutdown' /\ FaultFreeTeardown'
  <2>1. sess[s] # Unborn
    BY DEF Unborn
  <2> QED
    BY <1>1, <1>2, <2>1, ShutdownFrame
<1>5. Pairing' /\ OwnerOnly'
  <2>1. \A t \in Sessions :
           /\ sess'[t].pending = sess[t].pending /\ sess'[t].owner = sess[t].owner
           /\ sess'[t].pump = "running" => sess[t].pump = "running"
           /\ sess'[t].proc = "none" => sess[t].proc = "none"
           /\ \/ sess'[t].sse = sess[t].sse
              \/ sess'[t].sse = Append(sess[t].sse, Note)
              \/ sess[t].sse # <<>> /\ sess'[t].sse = Tail(sess[t].sse)
    BY <1>2
  <2> QED
    BY <1>2, <2>1, PairingFrame
<1> QED
  BY <1>2, <1>3, <1>4, <1>5

\* A POST p gets its reply: where p is still pending the reply is a 500, where
\* it is still owed or already streamed its client did not get the answer.
LEMMA PostEnds ==
  ASSUME Shapes, Pairing, OwnerOnly, NEW p \in Posts, NEW reply, post' = Done(p, reply),
         reply \in {"answer", "denial", "timeout", "aborted", "error", "accepted",
                    "401", "403", "404"},
         sess' \in [Sessions -> SessionRecords],
         \A s \in Sessions :
           /\ sess'[s].sse = sess[s].sse /\ sess'[s].owner = sess[s].owner
           /\ sess'[s].pump = sess[s].pump /\ sess'[s].proc = sess[s].proc
           /\ sess[s].pending \ {p} \subseteq sess'[s].pending
           /\ sess'[s].pending \subseteq sess[s].pending
           /\ upstream'[s] \subseteq upstream[s] \cup {p}
           /\ p \in sess'[s].pending => reply = "error"
           /\ p \in upstream'[s] =>
                /\ post[p].sess = s
                /\ sess[s].pump = "running" /\ p \notin sess'[s].pending => reply = "timeout"
           /\ \A i \in 1..Len(sess[s].sse) : sess[s].sse[i] = p =>
                reply \in {"timeout", "aborted"} /\ p \notin upstream'[s]
  PROVE  post' \in [Posts -> PostRecords] /\ Pairing' /\ OwnerOnly'
<1> USE DEF Pairing
<1>1. post \in [Posts -> PostRecords] /\ post[p] \in PostRecords
  BY DEF Shapes
<1>2. /\ post'[p].pc = "done" /\ post'[p].sess = post[p].sess /\ post'[p].future = "none"
      /\ post'[p].kind = "none" /\ post'[p].reply = reply /\ post'[p].who = Nobody
      /\ \A q \in Posts \ {p} : post'[q] = post[q]
  BY <1>1 DEF Done, Replied, Idle
<1>3. Replied(post[p], reply) \in PostRecords
  <2>1. Nobody \in Principals
    BY DEF Principals
  <2> QED
    BY <1>1, <2>1 DEF Replied, Idle, PostRecords
<1>4. post' \in [Posts -> PostRecords]
  BY <1>1, <1>3 DEF Done
<1>5. PostsHaveSessions'
  BY <1>2 DEF PostsHaveSessions
<1>6. PendingIsOpen'
  <2>1. \A s \in Sessions : sess[s].pending \subseteq Posts
    BY DEF Shapes, SessionRecords
  <2> QED
    BY <1>2, <2>1 DEF PendingIsOpen
<1>7. DecidingIsPending'
  <2> SUFFICES ASSUME NEW q \in Posts
               PROVE  /\ (post'[q].pc = "deciding" /\ post'[q].kind = "request") =>
                           \/ post'[q].future = "open" /\ q \in sess'[post'[q].sess].pending
                           \/ post'[q].future = "cancelled"
                      /\ post'[q].future = "cancelled" => sess'[post'[q].sess].pump # "running"
    BY DEF DecidingIsPending
  <2>1. CASE q = p
    BY <1>2, <2>1
  <2>2. CASE q # p
    <3>1. post[q].pc = "deciding" \/ post[q].future = "cancelled" => post[q].sess \in Sessions
      BY <1>1 DEF PostsHaveSessions, PostRecords, Idle
    <3> QED
      BY <1>2, <2>2, <3>1 DEF DecidingIsPending
  <2> QED
    BY <2>1, <2>2
<1>8. OwedOnce'
  <2> SUFFICES ASSUME NEW s \in Sessions, NEW q \in upstream'[s]
               PROVE  /\ post'[q].sess = s /\ post'[q].pc \in {"waiting", "done"}
                      /\ sess'[s].pump = "running" /\ q \notin sess'[s].pending =>
                           post'[q].reply = "timeout"
    BY DEF OwedOnce
  <2>1. CASE q = p
    BY <1>2, <2>1
  <2>2. CASE q # p
    <3>1. q \in upstream[s] /\ q \in Posts
      BY <2>2 DEF Shapes
    <3> QED
      BY <1>2, <2>2, <3>1 DEF OwedOnce
  <2> QED
    BY <2>1, <2>2
<1>9. \A s \in Sessions : \A i \in 1..Len(sess[s].sse) :
        sess[s].sse[i] # Note => sess[s].sse[i] \in Posts
  BY DEF Shapes, SessionRecords
<1>10. StreamedOnce'
  BY <1>2, <1>9 DEF StreamedOnce
<1>11. OneDelivery'
  <2>1. ASSUME NEW s \in Sessions, NEW i \in 1..Len(sess[s].sse), sess[s].sse[i] # Note
        PROVE  WentWithout(post'[sess[s].sse[i]], sess'[s])
    <3>1. CASE sess[s].sse[i] = p
      BY <1>2, <2>1, <3>1 DEF WentWithout
    <3>2. CASE sess[s].sse[i] # p
      <4>1. post'[sess[s].sse[i]] = post[sess[s].sse[i]]
        BY <1>2, <1>9, <2>1, <3>2
      <4>2. WentWithout(post[sess[s].sse[i]], sess[s])
        BY <2>1 DEF OneDelivery
      <4> QED
        BY <4>1, <4>2 DEF WentWithout
    <3> QED
      BY <3>1, <3>2
  <2> QED
    BY <2>1, DeliveryFrame
<1>12. OwnerOnly'
  BY <1>2 DEF OwnerOnly, PostsHaveSessions
<1> QED
  BY <1>4, <1>5, <1>6, <1>7, <1>8, <1>10, <1>11, <1>12

\* What a step that leaves POST p waiting with future f may do to session s.
Leaves(p, f, s) ==
  /\ sess'[s].sse = sess[s].sse /\ sess'[s].owner = sess[s].owner
  /\ sess'[s].pump = sess[s].pump /\ sess'[s].proc = sess[s].proc
  /\ sess[s].pending \ {p} \subseteq sess'[s].pending
  /\ sess'[s].pending \subseteq sess[s].pending
  /\ upstream'[s] \subseteq upstream[s] \cup {p}
  /\ p \in sess'[s].pending => f = "open"
  /\ p \in upstream'[s] =>
       post[p].sess = s /\ (sess[s].pump = "running" => p \in sess'[s].pending)

\* The gateway is done with a request p, which now waits for its future f: it is
\* still pending only with an open future, and owed only if it is still pending
\* or nobody reads the answers any more.
LEMMA PostWaits ==
  ASSUME Shapes, Pairing, OwnerOnly, NEW p \in Posts, NEW f \in {"open", "denial", "cancelled"},
         post[p].pc = "deciding", post[p].kind = "request",
         post' = [post EXCEPT ![p] = [post[p] EXCEPT !.pc = "waiting", !.future = f]],
         f = "cancelled" => sess[post[p].sess].pump # "running",
         sess' \in [Sessions -> SessionRecords],
         \A s \in Sessions : Leaves(p, f, s)
  PROVE  post' \in [Posts -> PostRecords] /\ Pairing' /\ OwnerOnly'
<1> USE DEF Pairing, Leaves
<1>1. post \in [Posts -> PostRecords] /\ post[p] \in PostRecords /\ post[p].sess \in Sessions
  BY DEF Shapes, PostsHaveSessions
<1> DEFINE new == [post[p] EXCEPT !.pc = "waiting", !.future = f]
<1>2. /\ new \in PostRecords /\ new.pc = "waiting" /\ new.future = f /\ new.sess = post[p].sess
      /\ new.kind = "request" /\ new.reply = post[p].reply /\ new.who = post[p].who
  BY <1>1 DEF PostRecords
<1>3. post' = [post EXCEPT ![p] = new]
  OBVIOUS
<1> HIDE DEF new
<1>4. /\ post' \in [Posts -> PostRecords] /\ post'[p] = new
      /\ \A q \in Posts \ {p} : post'[q] = post[q]
  BY <1>1, <1>2, <1>3
<1>5. PostsHaveSessions'
  BY <1>1, <1>2, <1>4 DEF PostsHaveSessions
<1>6. PendingIsOpen'
  <2>1. \A s \in Sessions : sess[s].pending \subseteq Posts
    BY DEF Shapes, SessionRecords
  <2> QED
    BY <1>2, <1>4, <2>1 DEF PendingIsOpen
<1>7. DecidingIsPending'
  <2> SUFFICES ASSUME NEW q \in Posts
               PROVE  /\ (post'[q].pc = "deciding" /\ post'[q].kind = "request") =>
                           \/ post'[q].future = "open" /\ q \in sess'[post'[q].sess].pending
                           \/ post'[q].future = "cancelled"
                      /\ post'[q].future = "cancelled" => sess'[post'[q].sess].pump # "running"
    BY DEF DecidingIsPending
  <2>1. CASE q = p
    BY <1>1, <1>2, <1>4, <2>1
  <2>2. CASE q # p
    <3>1. post[q].pc = "deciding" \/ post[q].future = "cancelled" => post[q].sess \in Sessions
      BY <1>1 DEF PostsHaveSessions, PostRecords, Idle
    <3> QED
      BY <1>4, <2>2, <3>1 DEF DecidingIsPending
  <2> QED
    BY <2>1, <2>2
<1>8. OwedOnce'
  <2> SUFFICES ASSUME NEW s \in Sessions, NEW q \in upstream'[s]
               PROVE  /\ post'[q].sess = s /\ post'[q].pc \in {"waiting", "done"}
                      /\ sess'[s].pump = "running" /\ q \notin sess'[s].pending =>
                           post'[q].reply = "timeout"
    BY DEF OwedOnce
  <2>1. CASE q = p
    BY <1>2, <1>4, <2>1
  <2>2. CASE q # p
    <3>1. q \in upstream[s] /\ q \in Posts
      BY <2>2 DEF Shapes
    <3> QED
      BY <1>4, <2>2, <3>1 DEF OwedOnce
  <2> QED
    BY <2>1, <2>2
<1>9. \A s \in Sessions : \A i \in 1..Len(sess[s].sse) :
        sess[s].sse[i] # Note => sess[s].sse[i] \in Posts \ {p}
  <2>1. \A s \in Sessions : \A i \in 1..Len(sess[s].sse) : sess[s].sse[i] \in Posts \cup {Note}
    BY DEF Shapes, SessionRecords
  <2> QED
    BY <2>1 DEF StreamedOnce
<1>10. StreamedOnce'
  BY <1>4, <1>9 DEF StreamedOnce
<1>11. OneDelivery'
  BY <1>4, <1>9 DEF OneDelivery, WentWithout
<1>12. OwnerOnly'
  BY <1>1, <1>2, <1>4 DEF OwnerOnly, PostsHaveSessions
<1> QED
  BY <1>4, <1>5, <1>6, <1>7, <1>8, <1>10, <1>11, <1>12

\* A line that answers no waiting POST goes to the stream of session s, once.
LEMMA PostStreams ==
  ASSUME Shapes, Pairing, OwnerOnly, NEW p \in Posts, NEW s \in Sessions,
         \A i \in 1..Len(sess[s].sse) : sess[s].sse[i] # p,
         post'[p].pc \in {"waiting", "done"}, p \notin upstream'[s],
         \A t \in Sessions : \/ WentWithout(post'[p], sess'[t])
                             \/ t # s /\ \A i \in 1..Len(sess[t].sse) : sess[t].sse[i] # p,
         \A q \in Posts \ {p} : post'[q] = post[q],
         sess'[s].sse = Append(sess[s].sse, p),
         \A t \in Sessions : /\ upstream'[t] \subseteq upstream[t]
                             /\ t # s => sess'[t].sse = sess[t].sse
                             /\ sess'[t].pump = "running" => sess[t].pump = "running"
  PROVE  StreamedOnce' /\ OneDelivery'
<1> USE DEF Pairing
<1>1. \A t \in Sessions : sess[t].sse \in Seq(Posts \cup {Note})
  BY DEF Shapes, SessionRecords
<1>2. ASSUME NEW t \in Sessions, t # s
      PROVE  \A i \in 1..Len(sess[t].sse) : sess[t].sse[i] # Note =>
               /\ post'[sess[t].sse[i]].pc \in {"waiting", "done"}
               /\ sess[t].sse[i] \notin upstream'[t]
               /\ WentWithout(post'[sess[t].sse[i]], sess'[t])
  <2>1. \A i \in 1..Len(sess[t].sse) : sess[t].sse[i] # Note =>
          /\ sess[t].sse[i] \in Posts /\ post[sess[t].sse[i]].pc \in {"waiting", "done"}
          /\ sess[t].sse[i] \notin upstream[t]
          /\ WentWithout(post[sess[t].sse[i]], sess[t])
    BY <1>1 DEF StreamedOnce, OneDelivery
  <2> QED
    BY <1>2, <2>1 DEF WentWithout
<1>3. \A i \in 1..Len(sess[s].sse) : sess[s].sse[i] # Note =>
               /\ post'[sess[s].sse[i]].pc \in {"waiting", "done"}
               /\ sess[s].sse[i] \notin upstream'[s]
               /\ WentWithout(post'[sess[s].sse[i]], sess'[s])
  BY <1>1 DEF StreamedOnce, OneDelivery, WentWithout
<1>4. /\ Len(sess'[s].sse) = Len(sess[s].sse) + 1 /\ Len(sess[s].sse) \in Nat
      /\ sess'[s].sse[Len(sess[s].sse) + 1] = p
      /\ \A i \in 1..Len(sess[s].sse) : sess'[s].sse[i] = sess[s].sse[i]
  BY <1>1
<1>5. ASSUME NEW t \in Sessions, NEW i \in 1..Len(sess'[t].sse), sess'[t].sse[i] # Note
      PROVE  /\ post'[sess'[t].sse[i]].pc \in {"waiting", "done"}
             /\ sess'[t].sse[i] \notin upstream'[t]
             /\ WentWithout(post'[sess'[t].sse[i]], sess'[t])
  <2>1. CASE t # s
    BY <1>2, <1>5, <2>1
  <2>2. CASE t = s /\ i \in 1..Len(sess[s].sse)
    BY <1>3, <1>4, <1>5, <2>2
  <2>3. CASE t = s /\ i = Len(sess[s].sse) + 1
    BY <1>4, <2>3
  <2> QED
    BY <1>4, <2>1, <2>2, <2>3
<1>6. ASSUME NEW t \in Sessions, NEW i \in 1..Len(sess'[t].sse), NEW j \in 1..Len(sess'[t].sse),
             sess'[t].sse[i] = sess'[t].sse[j], sess'[t].sse[i] # Note
      PROVE  i = j
  <2>1. CASE t # s
    BY <1>6, <2>1 DEF OneDelivery
  <2>2. CASE t = s /\ i \in 1..Len(sess[s].sse) /\ j \in 1..Len(sess[s].sse)
    <3>1. sess'[s].sse[i] = sess[s].sse[i] /\ sess'[s].sse[j] = sess[s].sse[j]
      BY <1>4, <2>2
    <3>2. sess[s].sse[i] = sess[s].sse[j] /\ sess[s].sse[i] # Note
      BY <1>6, <2>2, <3>1
    <3> QED
      BY <2>2, <3>2 DEF OneDelivery
  <2>3. ASSUME t = s, NEW k \in 1..Len(sess[s].sse) PROVE sess'[t].sse[k] # p
    BY <1>4, <2>3
  <2>4. t = s => \A k \in 1..Len(sess'[t].sse) :
          k \in 1..Len(sess[s].sse) \/ k = Len(sess[s].sse) + 1
    BY <1>4
  <2> QED
    BY <1>4, <1>6, <2>1, <2>2, <2>3, <2>4
<1> QED
  BY <1>5, <1>6 DEF StreamedOnce, OneDelivery

\* The same for a step that changes POSTs and _pending of one session.
LEMMA PostStep ==
  ASSUME Inv, NEW s \in Sessions, NEW pending \in SUBSET Posts,
         sess' = [sess EXCEPT ![s] = [sess[s] EXCEPT !.pending = pending]],
         sess[s].proc # "none",
         UNCHANGED <<hub, todo>>, faults' \in Nat, faults' >= faults
  PROVE  /\ sess' \in [Sessions -> SessionRecords]
         /\ \A t \in Sessions : /\ sess'[t].sse = sess[t].sse /\ sess'[t].owner = sess[t].owner
                                /\ sess'[t].pump = sess[t].pump /\ sess'[t].proc = sess[t].proc
         /\ sess'[s].pending = pending
         /\ \A t \in Sessions \ {s} : sess'[t].pending = sess[t].pending
         /\ Lives' /\ Shutdown' /\ FaultFreeTeardown'
<1> DEFINE x == sess[s]
           new == [x EXCEPT !.pending = pending]
<1>1. x \in SessionRecords /\ Life(x, faults) /\ faults \in Nat
  BY SessionAssumption DEF Inv, Shapes, Lives
<1>2. /\ new \in SessionRecords
      /\ new.registered = x.registered /\ new.owner = x.owner /\ new.closed = x.closed
      /\ new.sse = x.sse /\ new.streams = x.streams /\ new.proc = x.proc
      /\ new.pump = x.pump /\ new.close = x.close /\ new.exits = x.exits
      /\ new.stopped = x.stopped /\ new.pending = pending
  BY <1>1 DEF SessionRecords
<1>3. sess' = [sess EXCEPT ![s] = new]
  OBVIOUS
<1> HIDE DEF new
<1>4. Life(new, faults')
  BY <1>1, <1>2 DEF Life, Exits
<1>5. /\ sess' \in [Sessions -> SessionRecords] /\ sess'[s] = new
      /\ \A t \in Sessions \ {s} : sess'[t] = sess[t]
      /\ Lives'
  BY <1>2, <1>3, <1>4, LifeStep DEF Inv
<1>6. Shutdown' /\ FaultFreeTeardown'
  <2>1. x # Unborn
    BY DEF Unborn
  <2> QED
    BY <1>2, <1>5, <2>1, ShutdownFrame DEF Inv
<1> QED
  BY <1>2, <1>5, <1>6

---------------------------------------------------------------------------
(* The actions. *)

LEMMA StreamAndProcessSteps ==
  ASSUME Inv, NEW s \in Sessions,
         \/ UpstreamNotifies(s) \/ StreamYields(s) \/ StreamEnds(s) \/ StreamClientLeaves(s)
         \/ ProcessExits(s) \/ PumpEnds(s) \/ CloseEnds(s)
         \/ \E c \in Credentials, fetchOK \in BOOLEAN : OpenStream(s, c, fetchOK)
  PROVE  Inv'
<1>1. /\ sess[s] \in SessionRecords /\ Life(sess[s], faults)
      /\ sess[s].sse \in Seq(Posts \cup {Note}) /\ MaxEvents \in Nat
      /\ notes \in 0..MaxEvents /\ faults \in 0..MaxEvents /\ rotations \in 0..MaxEvents
  BY SessionAssumption DEF Inv, Shapes, SessionRecords, Lives
<1>2. UNCHANGED identityVars => IdentityTypeOK' /\ CacheIsRecent'
  BY IdentityFrame DEF Inv
<1> DEFINE x == sess[s]
<1>3. CASE UpstreamNotifies(s)
  <2> DEFINE frames == Append(x.sse, Note)
             new == [x EXCEPT !.sse = frames]
  <2>1. sess' = [sess EXCEPT ![s] = new] /\ x.pump = "running" /\ notes' \in 0..MaxEvents
        /\ UNCHANGED <<post, upstream, hub, todo, faults, rotations, identityVars>>
    BY <1>1, <1>3 DEF UpstreamNotifies, EventLeft
  <2>2. x.proc # "none"
    BY <1>1, <2>1 DEF Life, Unborn
  <2>a. frames \in Seq(Posts \cup {Note}) /\ frames = Append(x.sse, Note)
    BY <1>1
  <2> HIDE DEF frames
  <2>3. /\ new \in SessionRecords
        /\ new.registered = x.registered /\ new.owner = x.owner /\ new.closed = x.closed
        /\ new.pending = x.pending /\ new.streams = x.streams /\ new.proc = x.proc
        /\ new.pump = x.pump /\ new.close = x.close /\ new.exits = x.exits
        /\ new.stopped = x.stopped /\ new.sse = frames
    BY <1>1, <2>a DEF SessionRecords
  <2> HIDE DEF new
  <2>4. Life(new, faults)
    BY <1>1, <2>1, <2>2, <2>3 DEF SessionRecords, Life, Exits
  <2>5. /\ UNCHANGED <<post, upstream, hub, todo, faults, rotations>> /\ notes' \in 0..MaxEvents
        /\ IdentityTypeOK' /\ CacheIsRecent'
    BY <1>1, <1>2, <2>1
  <2>6. x.proc # "none" /\ new.proc # "none" /\ (x.proc = "exited" => new.proc = "exited")
    BY <2>2, <2>1, <2>3
  <2>7. /\ new.pump = "running" => x.pump = "running"
        /\ new.close = "terminating" => x.close = "terminating"
        /\ x.stopped => new.stopped
    BY <2>1, <2>3
  <2>8. \/ new.sse = x.sse
        \/ new.sse = Append(x.sse, Note)
        \/ x.sse # <<>> /\ new.sse = Tail(x.sse)
    BY <2>a, <2>1, <2>3
  <2> QED
    BY <2>1, <2>3, <2>4, <2>5, <2>6, <2>7, <2>8, SessionStep
<1>4. CASE StreamYields(s)
  <2> DEFINE frames == Tail(x.sse)
             open == IF x.closed THEN 0 ELSE x.streams
             new == [x EXCEPT !.sse = frames, !.streams = open]
  <2>1. sess' = [sess EXCEPT ![s] = new] /\ x.streams > 0 /\ x.sse # <<>>
        /\ UNCHANGED <<post, upstream, hub, todo, notes, faults, rotations, identityVars>>
    BY <1>1, <1>4 DEF StreamYields
  <2>2. x.proc # "none"
    BY <1>1, <2>1 DEF Life, Unborn
  <2>a. frames \in Seq(Posts \cup {Note}) /\ frames = Tail(x.sse) /\ open \in 0..1
    BY <1>1, <2>1 DEF SessionRecords
  <2> HIDE DEF frames, open
  <2>3. /\ new \in SessionRecords
        /\ new.registered = x.registered /\ new.owner = x.owner /\ new.closed = x.closed
        /\ new.pending = x.pending /\ new.proc = x.proc /\ new.pump = x.pump
        /\ new.close = x.close /\ new.exits = x.exits /\ new.stopped = x.stopped
        /\ new.sse = frames /\ new.streams = open
    BY <1>1, <2>a DEF SessionRecords
  <2> HIDE DEF new
  <2>4. Life(new, faults)
    BY <1>1, <2>1, <2>2, <2>3 DEF SessionRecords, Life, Exits
  <2>5. /\ UNCHANGED <<post, upstream, hub, todo, faults, rotations>> /\ notes' \in 0..MaxEvents
        /\ IdentityTypeOK' /\ CacheIsRecent'
    BY <1>1, <1>2, <2>1
  <2>6. x.proc # "none" /\ new.proc # "none" /\ (x.proc = "exited" => new.proc = "exited")
    BY <2>2, <2>1, <2>3
  <2>7. /\ new.pump = "running" => x.pump = "running"
        /\ new.close = "terminating" => x.close = "terminating"
        /\ x.stopped => new.stopped
    BY <2>1, <2>3
  <2>8. \/ new.sse = x.sse
        \/ new.sse = Append(x.sse, Note)
        \/ x.sse # <<>> /\ new.sse = Tail(x.sse)
    BY <2>a, <2>1, <2>3
  <2> QED
    BY <2>1, <2>3, <2>4, <2>5, <2>6, <2>7, <2>8, SessionStep
<1>5. CASE StreamEnds(s) \/ StreamClientLeaves(s)
  <2> DEFINE new == [x EXCEPT !.streams = 0]
  <2>1. sess' = [sess EXCEPT ![s] = new] /\ x.streams > 0
        /\ UNCHANGED <<post, upstream, hub, todo, notes, faults, rotations, identityVars>>
    BY <1>1, <1>5 DEF StreamEnds, StreamClientLeaves
  <2>2. x.proc # "none"
    BY <1>1, <2>1 DEF Life, Unborn
  <2>3. /\ new \in SessionRecords
        /\ new.registered = x.registered /\ new.owner = x.owner /\ new.closed = x.closed
        /\ new.pending = x.pending /\ new.sse = x.sse /\ new.proc = x.proc
        /\ new.pump = x.pump /\ new.close = x.close /\ new.exits = x.exits
        /\ new.stopped = x.stopped /\ new.streams = 0
    BY <1>1, <2>2 DEF SessionRecords
  <2> HIDE DEF new
  <2>4. Life(new, faults)
    BY <1>1, <2>1, <2>2, <2>3 DEF SessionRecords, Life, Exits
  <2>5. /\ UNCHANGED <<post, upstream, hub, todo, faults, rotations>> /\ notes' \in 0..MaxEvents
        /\ IdentityTypeOK' /\ CacheIsRecent'
    BY <1>1, <1>2, <2>1
  <2>6. x.proc # "none" /\ new.proc # "none" /\ (x.proc = "exited" => new.proc = "exited")
    BY <2>2, <2>1, <2>3
  <2>7. /\ new.pump = "running" => x.pump = "running"
        /\ new.close = "terminating" => x.close = "terminating"
        /\ x.stopped => new.stopped
    BY <2>1, <2>3
  <2>8. \/ new.sse = x.sse
        \/ new.sse = Append(x.sse, Note)
        \/ x.sse # <<>> /\ new.sse = Tail(x.sse)
    BY <2>1, <2>3
  <2> QED
    BY <2>1, <2>3, <2>4, <2>5, <2>6, <2>7, <2>8, SessionStep
<1>6. CASE ProcessExits(s)
  <2> DEFINE new == [x EXCEPT !.proc = "exited"]
  <2>1. sess' = [sess EXCEPT ![s] = new] /\ x.proc = "running"
        /\ UNCHANGED <<post, upstream, hub, todo, notes, faults, rotations, identityVars>>
    BY <1>1, <1>6 DEF ProcessExits
  <2>3. /\ new \in SessionRecords
        /\ new.registered = x.registered /\ new.owner = x.owner /\ new.closed = x.closed
        /\ new.pending = x.pending /\ new.sse = x.sse /\ new.streams = x.streams
        /\ new.pump = x.pump /\ new.close = x.close /\ new.exits = x.exits
        /\ new.stopped = x.stopped /\ new.proc = "exited"
    BY <1>1, <2>1 DEF SessionRecords
  <2> HIDE DEF new
  <2>4. Life(new, faults)
    BY <1>1, <2>1, <2>3 DEF SessionRecords, Life, Exits
  <2>5. /\ UNCHANGED <<post, upstream, hub, todo, faults, rotations>> /\ notes' \in 0..MaxEvents
        /\ IdentityTypeOK' /\ CacheIsRecent'
    BY <1>1, <1>2, <2>1
  <2>6. x.proc # "none" /\ new.proc # "none" /\ (x.proc = "exited" => new.proc = "exited")
    BY <2>1, <2>3
  <2>7. /\ new.pump = "running" => x.pump = "running"
        /\ new.close = "terminating" => x.close = "terminating"
        /\ x.stopped => new.stopped
    BY <2>1, <2>3
  <2>8. \/ new.sse = x.sse
        \/ new.sse = Append(x.sse, Note)
        \/ x.sse # <<>> /\ new.sse = Tail(x.sse)
    BY <2>1, <2>3
  <2> QED
    BY <2>1, <2>3, <2>4, <2>5, <2>6, <2>7, <2>8, SessionStep
<1>7. CASE PumpEnds(s)
  <2> DEFINE n == x.exits + 1
             new == [x EXCEPT !.pump = "ended", !.closed = TRUE, !.exits = n]
  <2>1. sess' = [sess EXCEPT ![s] = new] /\ x.pump = "running"
        /\ UNCHANGED <<post, upstream, hub, todo, notes, faults, rotations, identityVars>>
    BY <1>1, <1>7 DEF PumpEnds
  <2>2. x.proc # "none" /\ ~x.stopped /\ x.exits = 0
    BY <1>1, <2>1 DEF Life, Unborn, Exits
  <2>a. n \in 0..2 /\ n = 1
    BY <2>2
  <2> HIDE DEF n
  <2>3. /\ new \in SessionRecords
        /\ new.registered = x.registered /\ new.owner = x.owner /\ new.pending = x.pending
        /\ new.sse = x.sse /\ new.streams = x.streams /\ new.proc = x.proc
        /\ new.close = x.close /\ new.stopped = x.stopped /\ new.pump = "ended"
        /\ new.closed = TRUE /\ new.exits = n
    BY <1>1, <2>a DEF SessionRecords
  <2> HIDE DEF new
  <2>4. Life(new, faults)
    BY <2>a, <1>1, <2>1, <2>2, <2>3 DEF SessionRecords, Life, Exits
  <2>5. /\ UNCHANGED <<post, upstream, hub, todo, faults, rotations>> /\ notes' \in 0..MaxEvents
        /\ IdentityTypeOK' /\ CacheIsRecent'
    BY <1>1, <1>2, <2>1
  <2>6. x.proc # "none" /\ new.proc # "none" /\ (x.proc = "exited" => new.proc = "exited")
    BY <2>2, <2>1, <2>3
  <2>7. /\ new.pump = "running" => x.pump = "running"
        /\ new.close = "terminating" => x.close = "terminating"
        /\ x.stopped => new.stopped
    BY <2>1, <2>3
  <2>8. \/ new.sse = x.sse
        \/ new.sse = Append(x.sse, Note)
        \/ x.sse # <<>> /\ new.sse = Tail(x.sse)
    BY <2>a, <2>1, <2>3
  <2> QED
    BY <2>1, <2>3, <2>4, <2>5, <2>6, <2>7, <2>8, SessionStep
<1>8. CASE CloseEnds(s)
  <2> DEFINE n == x.exits + 1
             new == [x EXCEPT !.proc = "exited", !.close = "done", !.stopped = TRUE, !.exits = n]
  <2>1. sess' = [sess EXCEPT ![s] = new] /\ x.close = "terminating"
        /\ UNCHANGED <<post, upstream, hub, todo, notes, faults, rotations, identityVars>>
    BY <1>1, <1>8 DEF CloseEnds
  <2>2. x.proc # "none" /\ ~x.stopped /\ ~x.registered
        /\ x.exits = IF x.pump = "ended" THEN 1 ELSE 0
    BY <1>1, <2>1 DEF Life, Unborn, Exits
  <2>a. n \in 0..2 /\ n = x.exits + 1
    BY <2>2
  <2> HIDE DEF n
  <2>3. /\ new \in SessionRecords
        /\ new.registered = x.registered /\ new.owner = x.owner /\ new.closed = x.closed
        /\ new.pending = x.pending /\ new.sse = x.sse /\ new.streams = x.streams
        /\ new.pump = x.pump /\ new.proc = "exited" /\ new.close = "done"
        /\ new.stopped = TRUE /\ new.exits = n
    BY <1>1, <2>a DEF SessionRecords
  <2> HIDE DEF new
  <2>4. Life(new, faults)
    BY <2>a, <1>1, <2>1, <2>2, <2>3 DEF SessionRecords, Life, Exits
  <2>5. /\ UNCHANGED <<post, upstream, hub, todo, faults, rotations>> /\ notes' \in 0..MaxEvents
        /\ IdentityTypeOK' /\ CacheIsRecent'
    BY <1>1, <1>2, <2>1
  <2>6. x.proc # "none" /\ new.proc # "none" /\ (x.proc = "exited" => new.proc = "exited")
    BY <2>2, <2>1, <2>3
  <2>7. /\ new.pump = "running" => x.pump = "running"
        /\ new.close = "terminating" => x.close = "terminating"
        /\ x.stopped => new.stopped
    BY <2>1, <2>3
  <2>8. \/ new.sse = x.sse
        \/ new.sse = Append(x.sse, Note)
        \/ x.sse # <<>> /\ new.sse = Tail(x.sse)
    BY <2>a, <2>1, <2>3
  <2> QED
    BY <2>1, <2>3, <2>4, <2>5, <2>6, <2>7, <2>8, SessionStep
<1>9. ASSUME NEW c \in Credentials, NEW fetchOK \in BOOLEAN, OpenStream(s, c, fetchOK)
      PROVE  Inv'
  <2> DEFINE new == [x EXCEPT !.streams = 1]
  <2>1. /\ sess' = [sess EXCEPT ![s] = new] /\ x.registered
        /\ Resolving(Resolve(c, fetchOK))
        /\ UNCHANGED <<post, upstream, hub, todo, notes, faults, rotations>>
    BY <1>1, <1>9 DEF OpenStream
  <2>2. x.proc # "none"
    BY <1>1, <2>1 DEF Life
  <2>3. /\ new \in SessionRecords
        /\ new.registered = x.registered /\ new.owner = x.owner /\ new.closed = x.closed
        /\ new.pending = x.pending /\ new.sse = x.sse /\ new.proc = x.proc
        /\ new.pump = x.pump /\ new.close = x.close /\ new.exits = x.exits
        /\ new.stopped = x.stopped /\ new.streams = 1
    BY <1>1, <2>2 DEF SessionRecords
  <2> HIDE DEF new
  <2>4. Life(new, faults)
    BY <1>1, <2>1, <2>2, <2>3 DEF SessionRecords, Life, Exits
  <2>5. IdentityTypeOK' /\ CacheIsRecent'
    BY <2>1, ResolvingKeeps DEF Inv
  <2>6. /\ UNCHANGED <<post, upstream, hub, todo, faults, rotations>> /\ notes' \in 0..MaxEvents
        /\ new.proc # "none" /\ (x.proc = "exited" => new.proc = "exited")
    BY <1>1, <2>1, <2>2, <2>3
  <2> QED
    BY <2>1, <2>2, <2>3, <2>4, <2>5, <2>6, SessionStep
<1> QED
  BY <1>3, <1>4, <1>5, <1>6, <1>7, <1>8, <1>9

\* A POST that gets its reply while no session changes.
LEMMA ReplySteps ==
  ASSUME Inv, NEW p \in Posts, NEW reply, post' = Done(p, reply), UNCHANGED <<sess, hub, todo, notes, rotations>>,
         reply \in {"answer", "denial", "aborted", "error", "accepted", "401", "403", "404"},
         faults' \in 0..MaxEvents, faults' >= faults, IdentityTypeOK', CacheIsRecent',
         upstream' \in [Sessions -> SUBSET Posts],
         \A s \in Sessions :
           /\ upstream'[s] \subseteq upstream[s] \cup {p}
           /\ p \in sess[s].pending => reply = "error"
           /\ p \in upstream'[s] =>
                post[p].sess = s /\ (sess[s].pump = "running" => p \in sess[s].pending)
           /\ \A i \in 1..Len(sess[s].sse) : sess[s].sse[i] = p =>
                reply = "aborted" /\ p \notin upstream'[s]
  PROVE  Inv'
<1> USE DEF Inv
<1>1. faults \in Nat /\ faults' \in Nat /\ MaxEvents \in Nat
  BY SessionAssumption DEF Shapes
<1>2. sess' \in [Sessions -> SessionRecords]
  BY DEF Shapes
<1>3. post' \in [Posts -> PostRecords] /\ Pairing' /\ OwnerOnly'
  BY <1>2, PostEnds
<1>4. Shapes'
  BY <1>2, <1>3 DEF Shapes
<1>5. Lives'
  BY <1>1 DEF Lives, Life, Shapes
<1>6. Shutdown' /\ FaultFreeTeardown'
  BY <1>1, ShutdownFrame
<1> QED
  BY <1>3, <1>4, <1>5, <1>6

LEMMA GatewaySteps ==
  ASSUME Inv, NEW p \in Posts, GatewayStep(p)
  PROVE  Inv'
<1> DEFINE s == post[p].sess
<1>1. /\ post[p] \in PostRecords /\ post[p].pc = "deciding" /\ s \in Sessions
      /\ post[p].reply = "none" /\ post[p].kind \in {"request", "notification", "none"}
      /\ sess[s] \in SessionRecords /\ sess[s].proc # "none"
      /\ faults \in 0..MaxEvents /\ MaxEvents \in Nat
  <2>1. post[p].pc = "deciding"
    BY DEF GatewayStep, GatewayForwards, GatewayCannotForward, GatewayDenies
  <2>2. post[p] \in PostRecords /\ s \in Sessions /\ post[p].reply = "none"
    BY <2>1 DEF Inv, Shapes, Pairing, PostsHaveSessions
  <2>3. sess[s] \in SessionRecords /\ sess[s].proc # "none"
    BY <2>2 DEF Inv, Shapes, Pairing, PostsHaveSessions
  <2> QED
    BY <2>1, <2>2, <2>3, SessionAssumption DEF Inv, Shapes, PostRecords
<1>2. UNCHANGED identityVars => IdentityTypeOK' /\ CacheIsRecent'
  BY IdentityFrame DEF Inv
\* p has been neither forwarded nor streamed.
<1>3. /\ \A t \in Sessions : p \notin upstream[t]
      /\ \A t \in Sessions : \A i \in 1..Len(sess[t].sse) : sess[t].sse[i] # p
  <2>1. \A t \in Sessions : p \notin upstream[t]
    BY <1>1 DEF Inv, Pairing, OwedOnce
  <2>2. p # Note
    BY SessionAssumption
  <2>3. \A t \in Sessions : \A i \in 1..Len(sess[t].sse) : sess[t].sse[i] # p
    BY <1>1, <2>2 DEF Inv, Pairing, StreamedOnce
  <2> QED
    BY <2>1, <2>3
\* Where p is pending or not.
<1>4. /\ \A t \in Sessions : p \in sess[t].pending => t = s /\ post[p].future = "open"
      /\ post[p].kind = "request" =>
           \/ post[p].future = "open" /\ p \in sess[s].pending
           \/ post[p].future = "cancelled" /\ sess[s].pump # "running" /\ p \notin sess[s].pending
      /\ post[p].kind # "request" => \A t \in Sessions : p \notin sess[t].pending
  <2>1. \A t \in Sessions : p \in sess[t].pending => t = s /\ post[p].future = "open"
    BY <1>1 DEF Inv, Pairing, PendingIsOpen
  <2>2. post[p].kind # "request" => post[p].future # "open"
    BY <1>1 DEF Inv, Pairing, PostsHaveSessions
  <2> QED
    BY <1>1, <2>1, <2>2 DEF Inv, Pairing, DecidingIsPending
<1>5. CASE GatewayForwards(p)
  <2>1. /\ upstream' = IF post[p].kind = "request" THEN [upstream EXCEPT ![s] = @ \cup {p}]
                       ELSE upstream
        /\ UNCHANGED <<sess, hub, todo, notes, rotations, identityVars>>
        /\ \/ post' = Decided(post, p) /\ faults' = faults
           \/ EventLeft /\ faults' = faults + 1 /\ post' = Done(p, "error")
    BY <1>5 DEF GatewayForwards
  <2>2. /\ upstream' \in [Sessions -> SUBSET Posts]
        /\ \A t \in Sessions :
             /\ upstream'[t] \subseteq upstream[t] \cup {p}
             /\ p \in upstream'[t] => t = s /\ post[p].kind = "request"
    BY <1>1, <1>3, <2>1 DEF Inv, Shapes
  <2>3. \A t \in Sessions :
             p \in upstream'[t] =>
                post[p].sess = t /\ (sess[t].pump = "running" => p \in sess[t].pending)
    BY <1>4, <2>2
  <2>4. CASE EventLeft /\ faults' = faults + 1 /\ post' = Done(p, "error")
    <3>1. faults' \in 0..MaxEvents /\ faults' >= faults
      BY <1>1, <2>4 DEF EventLeft, Inv, Shapes
    <3> QED
      BY <1>2, <1>3, <2>1, <2>2, <2>3, <2>4, <3>1, ReplySteps
  <2>5. CASE post' = Decided(post, p) /\ faults' = faults /\ post[p].kind # "request"
    <3>1. post' = Done(p, "accepted")
      BY <2>5 DEF Decided, Done
    <3>2. faults' \in 0..MaxEvents /\ faults' >= faults
      BY <1>1, <2>5
    <3> QED
      BY <1>2, <1>3, <1>4, <2>1, <2>2, <2>3, <2>5, <3>1, <3>2, ReplySteps
  <2>6. CASE post' = Decided(post, p) /\ faults' = faults /\ post[p].kind = "request"
    <3> DEFINE f == post[p].future
    <3>1. post' = [post EXCEPT ![p] = [post[p] EXCEPT !.pc = "waiting", !.future = f]]
      <4>1. [post[p] EXCEPT !.pc = "waiting", !.future = f] = [post[p] EXCEPT !.pc = "waiting"]
        BY <1>1 DEF PostRecords
      <4> QED
        BY <2>6, <4>1 DEF Decided
    <3>2. f \in {"open", "denial", "cancelled"} /\ (f = "cancelled" => sess[s].pump # "running")
      BY <1>4, <2>6
    <3>3. sess' \in [Sessions -> SessionRecords] /\ sess' = sess
      BY <2>1 DEF Inv, Shapes
    <3>4. \A t \in Sessions : p \in sess'[t].pending => f = "open"
      BY <1>4, <3>3
    <3> HIDE DEF f
    <3>5. post' \in [Posts -> PostRecords] /\ Pairing' /\ OwnerOnly'
      <4>1. \A t \in Sessions : Leaves(p, f, t)
        BY <2>2, <2>3, <3>3, <3>4 DEF Leaves
      <4>2. /\ Shapes /\ Pairing /\ OwnerOnly /\ post[p].pc = "deciding"
            /\ post[p].kind = "request" /\ post[p].sess = s
        BY <1>1, <2>6 DEF Inv
      <4> QED
        BY <3>1, <3>2, <3>3, <4>1, <4>2, PostWaits
    <3>6. Shapes'
      BY <2>1, <2>2, <2>6, <3>3, <3>5 DEF Inv, Shapes
    <3>7. Lives'
      BY <2>6, <3>3 DEF Inv, Lives, Life
    <3>8. Shutdown' /\ FaultFreeTeardown'
      BY <1>1, <2>1, <2>6, ShutdownFrame DEF Inv
    <3> QED
      BY <1>2, <2>1, <3>5, <3>6, <3>7, <3>8 DEF Inv
  <2> QED
    BY <2>1, <2>4, <2>5, <2>6
<1>6. CASE GatewayCannotForward(p)
  <2>1. post' = Done(p, "error")
        /\ UNCHANGED <<sess, upstream, hub, todo, notes, faults, rotations, identityVars>>
    BY <1>6 DEF GatewayCannotForward
  <2>2. upstream' \in [Sessions -> SUBSET Posts] /\ faults' \in 0..MaxEvents /\ faults' >= faults
    BY <1>1, <2>1 DEF Inv, Shapes
  <2> QED
    BY <1>2, <1>3, <2>1, <2>2, ReplySteps
<1> DEFINE x == sess[s]
<1>7. CASE GatewayDenies(p) /\ p \in x.pending
  <2>1. /\ post[p].kind = "request" /\ post[p].future = "open"
        /\ sess' = [sess EXCEPT ![s] = [sess[s] EXCEPT !.pending = x.pending \ {p}]]
        /\ \/ /\ faults' = faults
              /\ post' = Decided([post EXCEPT ![p].future = IF @ = "open" THEN "denial" ELSE @], p)
           \/ EventLeft /\ faults' = faults + 1 /\ post' = Done(p, "error")
        /\ UNCHANGED <<upstream, hub, todo, notes, rotations, identityVars>>
    BY <1>4, <1>7 DEF GatewayDenies, ToClient
  <2>2. \/ post' = [post EXCEPT ![p] = [post[p] EXCEPT !.pc = "waiting", !.future = "denial"]]
        \/ post' = Done(p, "error")
    BY <1>1, <2>1 DEF Decided, PostRecords, Inv, Shapes
  <2>7. faults' \in 0..MaxEvents /\ faults' >= faults
    BY <1>1, <2>1 DEF EventLeft, Inv, Shapes
  <2>3. x.pending \ {p} \in SUBSET Posts /\ faults' \in Nat /\ faults' >= faults
    BY <1>1, <2>7 DEF SessionRecords
  <2>4. /\ sess' \in [Sessions -> SessionRecords]
        /\ \A t \in Sessions : /\ sess'[t].sse = sess[t].sse /\ sess'[t].owner = sess[t].owner
                               /\ sess'[t].pump = sess[t].pump /\ sess'[t].proc = sess[t].proc
        /\ sess'[s].pending = x.pending \ {p}
        /\ \A t \in Sessions \ {s} : sess'[t].pending = sess[t].pending
        /\ Lives' /\ Shutdown' /\ FaultFreeTeardown'
    BY <1>1, <2>1, <2>3, PostStep
  <2>5. post' \in [Posts -> PostRecords] /\ Pairing' /\ OwnerOnly'
    <3>1. \A t \in Sessions :
           /\ sess'[t].sse = sess[t].sse /\ sess'[t].owner = sess[t].owner
           /\ sess'[t].pump = sess[t].pump /\ sess'[t].proc = sess[t].proc
           /\ sess[t].pending \ {p} \subseteq sess'[t].pending
           /\ sess'[t].pending \subseteq sess[t].pending
           /\ upstream'[t] \subseteq upstream[t] \cup {p}
           /\ p \notin sess'[t].pending
           /\ p \notin upstream'[t]
      BY <1>1, <1>3, <1>4, <2>1, <2>4
    <3>4. /\ Shapes /\ Pairing /\ OwnerOnly /\ post[p].pc = "deciding"
          /\ post[p].kind = "request" /\ sess' \in [Sessions -> SessionRecords]
      BY <1>1, <2>1, <2>4 DEF Inv
    <3>5. CASE post' = [post EXCEPT ![p] = [post[p] EXCEPT !.pc = "waiting", !.future = "denial"]]
      <4> DEFINE f == "denial"
      <4>1. /\ f \in {"open", "denial", "cancelled"} /\ ~(f = "cancelled")
            /\ post' = [post EXCEPT ![p] = [post[p] EXCEPT !.pc = "waiting", !.future = f]]
        BY <3>5
      <4> HIDE DEF f
      <4>2. \A t \in Sessions : Leaves(p, f, t)
        BY <3>1 DEF Leaves
      <4> QED
        BY <3>4, <4>1, <4>2, PostWaits
    <3>6. CASE post' = Done(p, "error")
      <4>1. \A t \in Sessions : \A i \in 1..Len(sess[t].sse) : sess[t].sse[i] # p
        BY <1>3
      <4> DEFINE reply == "error"
      <4>2. /\ post' = Done(p, reply)
            /\ reply \in {"answer", "denial", "timeout", "aborted", "error", "accepted",
                          "401", "403", "404"}
        BY <3>6
      <4> HIDE DEF reply
      <4> QED
        BY <3>1, <3>4, <4>1, <4>2, PostEnds
    <3> QED
      BY <2>2, <3>5, <3>6
  <2>6. Shapes'
    BY <2>1, <2>4, <2>5, <2>7 DEF Inv, Shapes
  <2> QED
    BY <1>2, <2>1, <2>4, <2>5, <2>6 DEF Inv
<1>8. CASE GatewayDenies(p) /\ p \notin x.pending
  <2> DEFINE frames == Append(x.sse, p)
             new == [x EXCEPT !.sse = frames]
             q == IF faults' = faults THEN [post[p] EXCEPT !.pc = "waiting"]
                  ELSE Replied(post[p], "error")
  <2>1. /\ post[p].kind = "request" /\ post[p].future = "cancelled" /\ x.pump # "running"
        /\ sess' = [sess EXCEPT ![s] = new]
        /\ post' = [post EXCEPT ![p] = q]
        /\ faults' \in 0..MaxEvents /\ faults' \in Nat /\ faults' >= faults
        /\ UNCHANGED <<upstream, hub, todo, notes, rotations, identityVars>>
    <3>1. /\ post[p].kind = "request" /\ post[p].future = "cancelled" /\ x.pump # "running"
          /\ sess' = [sess EXCEPT ![s] = new]
          /\ UNCHANGED <<upstream, hub, todo, notes, rotations, identityVars>>
          /\ \/ faults' = faults /\ post' = Decided(post, p)
             \/ EventLeft /\ faults' = faults + 1 /\ post' = Done(p, "error")
      BY <1>4, <1>8 DEF GatewayDenies, ToClient
    <3>2. CASE faults' = faults /\ post' = Decided(post, p)
      BY <1>1, <3>1, <3>2 DEF Decided
    <3>3. CASE EventLeft /\ faults' = faults + 1 /\ post' = Done(p, "error")
      <4>1. faults' # faults /\ faults' \in 0..MaxEvents /\ faults' \in Nat /\ faults' >= faults
        BY <1>1, <3>3 DEF EventLeft, Inv, Shapes
      <4> QED
        BY <3>1, <3>3, <4>1 DEF Done
    <3> QED
      BY <3>1, <3>2, <3>3
  <2>2. frames \in Seq(Posts \cup {Note})
    BY <1>1 DEF SessionRecords
  <2> HIDE DEF frames
  <2>3. /\ new \in SessionRecords
        /\ new.registered = x.registered /\ new.owner = x.owner /\ new.closed = x.closed
        /\ new.pending = x.pending /\ new.streams = x.streams /\ new.proc = x.proc
        /\ new.pump = x.pump /\ new.close = x.close /\ new.exits = x.exits
        /\ new.stopped = x.stopped /\ new.sse = frames
    BY <1>1, <2>2 DEF SessionRecords
  <2> HIDE DEF new
  <2>4. Life(x, faults) /\ faults \in Nat /\ faults' \in Nat /\ faults' >= faults
    BY <1>1, <2>1 DEF Inv, Lives
  <2>5. Life(new, faults')
    BY <1>1, <2>3, <2>4 DEF Life, Exits
  <2>6. /\ sess' \in [Sessions -> SessionRecords] /\ sess'[s] = new
        /\ \A t \in Sessions \ {s} : sess'[t] = sess[t]
        /\ Lives'
    BY <1>1, <2>1, <2>3, <2>4, <2>5, LifeStep DEF Inv
  <2>7. Shutdown' /\ FaultFreeTeardown'
    <3>1. x # Unborn
      BY <1>1 DEF Unborn
    <3>2. \A t \in Sessions :
           /\ sess'[t].registered = sess[t].registered
           /\ sess'[t].close = "terminating" => sess[t].close = "terminating"
           /\ sess[t] = Unborn => sess'[t] = Unborn
           /\ sess[t].proc = "exited" => sess'[t].proc = "exited"
           /\ sess[t].stopped => sess'[t].stopped
      BY <1>1, <2>3, <2>6, <3>1
    <3>3. /\ Shapes /\ Shutdown /\ FaultFreeTeardown /\ UNCHANGED <<hub, todo>>
          /\ faults' \in Nat /\ faults' >= faults
      BY <2>1 DEF Inv
    <3> QED
      BY <3>2, <3>3, ShutdownFrame
  <2>8. /\ q \in PostRecords /\ q.sess = s
        /\ \/ /\ q.pc = "waiting" /\ q.future = "cancelled"
              /\ q.kind = "request" /\ q.reply = "none" /\ q.who = post[p].who
           \/ q.pc = "done" /\ q.future = "none" /\ q.reply = "error" /\ q.who = Nobody
    <3>1. CASE faults' = faults
      BY <1>1, <2>1, <3>1 DEF PostRecords
    <3>2. CASE faults' # faults
      <4>1. Nobody \in Principals
        BY DEF Principals
      <4> QED
        BY <1>1, <3>2, <4>1 DEF PostRecords, Replied, Idle
    <3> QED
      BY <3>1, <3>2
  <2> HIDE DEF q
  <2>9. /\ post' \in [Posts -> PostRecords] /\ post'[p] = q
        /\ \A r \in Posts \ {p} : post'[r] = post[r]
    BY <2>1, <2>8 DEF Inv, Shapes
  <2>10. Shapes'
    BY <2>1, <2>6, <2>9 DEF Inv, Shapes
  <2>11. /\ \A t \in Sessions : /\ sess'[t].owner = sess[t].owner /\ sess'[t].pump = sess[t].pump
                                /\ sess'[t].proc = sess[t].proc
                                /\ sess'[t].pending = sess[t].pending
                                /\ sess[t].pending \subseteq Posts \ {p}
         /\ \A t \in Sessions \ {s} : sess'[t].sse = sess[t].sse
         /\ sess'[s].sse = frames /\ upstream' = upstream
    BY <1>4, <2>1, <2>3, <2>6, <1>8 DEF Inv, Shapes, SessionRecords
  <2>12. PostsHaveSessions'
    BY <1>1, <2>8, <2>9, <2>11 DEF Inv, Pairing, PostsHaveSessions
  <2>13. PendingIsOpen'
    BY <2>9, <2>11 DEF Inv, Pairing, PendingIsOpen
  <2>14. DecidingIsPending'
    <3>1. \A r \in Posts : post[r].pc = "deciding" \/ post[r].future = "cancelled" =>
            post[r].sess \in Sessions
      BY DEF Inv, Shapes, Pairing, PostsHaveSessions, PostRecords, Idle
    <3> QED
      BY <1>1, <2>1, <2>8, <2>9, <2>11, <3>1 DEF Inv, Pairing, DecidingIsPending
  <2>15. OwedOnce'
    <3>1. \A t \in Sessions : upstream[t] \subseteq Posts \ {p}
      BY <1>3 DEF Inv, Shapes
    <3> QED
      BY <2>9, <2>11, <3>1 DEF Inv, Pairing, OwedOnce
  <2>16. StreamedOnce' /\ OneDelivery'
    <3>1. Shapes /\ Pairing /\ OwnerOnly
      BY DEF Inv
    <3>2. \A i \in 1..Len(sess[s].sse) : sess[s].sse[i] # p
      BY <1>1, <1>3
    <3>3. /\ post'[p].pc \in {"waiting", "done"} /\ p \notin upstream'[s]
          /\ \A t \in Sessions : \/ WentWithout(post'[p], sess'[t])
                                 \/ t # s /\ \A i \in 1..Len(sess[t].sse) : sess[t].sse[i] # p
      BY <1>1, <1>3, <2>1, <2>8, <2>9, <2>11 DEF WentWithout
    <3>4. /\ sess'[s].sse = Append(sess[s].sse, p)
          /\ \A t \in Sessions : /\ upstream'[t] \subseteq upstream[t]
                                 /\ t # s => sess'[t].sse = sess[t].sse
                                 /\ sess'[t].pump = "running" => sess[t].pump = "running"
      BY <2>11 DEF frames
    <3> QED
      BY <1>1, <2>9, <3>1, <3>2, <3>3, <3>4, PostStreams
  <2>17. OwnerOnly'
    BY <1>1, <2>8, <2>9, <2>11 DEF Inv, OwnerOnly, Pairing, PostsHaveSessions
  <2> QED
    BY <1>2, <2>1, <2>6, <2>7, <2>10, <2>12, <2>13, <2>14, <2>15, <2>16, <2>17
    DEF Inv, Pairing
<1> QED
  BY <1>5, <1>6, <1>7, <1>8 DEF GatewayStep

\* The deadline of a POST, and a POST whose future is done.
LEMMA WaitingSteps ==
  ASSUME Inv, NEW p \in Posts, Timeout(p) \/ Resume(p)
  PROVE  Inv'
<1> DEFINE s == post[p].sess
           x == sess[s]
<1>1. /\ post[p] \in PostRecords /\ post[p].pc = "waiting" /\ s \in Sessions
      /\ post[p].future # "none" /\ x \in SessionRecords /\ x.proc # "none"
      /\ faults \in 0..MaxEvents /\ MaxEvents \in Nat
  <2>1. post[p].pc = "waiting"
    BY DEF Timeout, Resume
  <2>2. post[p] \in PostRecords /\ s \in Sessions /\ post[p].future # "none"
    BY <2>1 DEF Inv, Shapes, Pairing, PostsHaveSessions
  <2>3. x \in SessionRecords /\ x.proc # "none"
    BY <2>2 DEF Inv, Shapes, Pairing, PostsHaveSessions
  <2> QED
    BY <2>1, <2>2, <2>3, SessionAssumption DEF Inv, Shapes
<1>2. IdentityTypeOK' /\ CacheIsRecent'
  BY IdentityFrame DEF Inv, Timeout, Resume
<1>3. /\ \A t \in Sessions : p \in sess[t].pending => t = s /\ post[p].future = "open"
      /\ \A t \in Sessions : p \in upstream[t] =>
           t = s /\ (x.pump = "running" => p \in x.pending)
      /\ \A t \in Sessions : \A i \in 1..Len(sess[t].sse) : sess[t].sse[i] = p =>
           post[p].future = "cancelled" /\ p \notin upstream[t]
  <2>1. \A t \in Sessions : p \in sess[t].pending => t = s /\ post[p].future = "open"
    BY <1>1 DEF Inv, Pairing, PendingIsOpen
  <2>2. post[p].reply = "none"
    BY <1>1 DEF Inv, Pairing, PostsHaveSessions
  <2>3. \A t \in Sessions : p \in upstream[t] =>
           t = s /\ (x.pump = "running" => p \in x.pending)
    BY <1>1, <2>2 DEF Inv, Pairing, OwedOnce
  <2>4. p # Note
    BY SessionAssumption
  <2>5. \A t \in Sessions : \A i \in 1..Len(sess[t].sse) : sess[t].sse[i] = p =>
           post[p].future = "cancelled" /\ p \notin upstream[t]
    BY <2>2, <2>4 DEF Inv, Pairing, StreamedOnce, OneDelivery, WentWithout
  <2> QED
    BY <2>1, <2>3, <2>5
<1>4. CASE Timeout(p)
  <2>1. /\ post' = Done(p, "timeout") /\ post[p].future # "cancelled"
        /\ sess' = [sess EXCEPT ![s] = [sess[s] EXCEPT !.pending = x.pending \ {p}]]
        /\ UNCHANGED <<upstream, hub, todo, notes, faults, rotations>>
    BY <1>4 DEF Timeout
  <2>2. x.pending \ {p} \in SUBSET Posts /\ faults' \in Nat /\ faults' >= faults
    BY <1>1, <2>1 DEF SessionRecords
  <2>3. /\ sess' \in [Sessions -> SessionRecords]
        /\ \A t \in Sessions : /\ sess'[t].sse = sess[t].sse /\ sess'[t].owner = sess[t].owner
                               /\ sess'[t].pump = sess[t].pump /\ sess'[t].proc = sess[t].proc
        /\ sess'[s].pending = x.pending \ {p}
        /\ \A t \in Sessions \ {s} : sess'[t].pending = sess[t].pending
        /\ Lives' /\ Shutdown' /\ FaultFreeTeardown'
    BY <1>1, <2>1, <2>2, PostStep
  <2>4. \A t \in Sessions :
           /\ sess'[t].sse = sess[t].sse /\ sess'[t].owner = sess[t].owner
           /\ sess'[t].pump = sess[t].pump /\ sess'[t].proc = sess[t].proc
           /\ sess[t].pending \ {p} \subseteq sess'[t].pending
           /\ sess'[t].pending \subseteq sess[t].pending
           /\ upstream'[t] \subseteq upstream[t] \cup {p}
           /\ p \notin sess'[t].pending
           /\ p \in upstream'[t] => post[p].sess = t
           /\ \A i \in 1..Len(sess[t].sse) : sess[t].sse[i] # p
    <3>1. \A t \in Sessions : \A i \in 1..Len(sess[t].sse) : sess[t].sse[i] # p
      BY <1>3, <2>1
    <3>2. \A t \in Sessions : upstream'[t] = upstream[t] /\ (p \in upstream'[t] => post[p].sess = t)
      BY <1>1, <1>3, <2>1
    <3>3. \A t \in Sessions :
            /\ sess[t].pending \ {p} \subseteq sess'[t].pending
            /\ sess'[t].pending \subseteq sess[t].pending
            /\ p \notin sess'[t].pending
      BY <1>1, <1>3, <2>3
    <3> QED
      BY <2>3, <3>1, <3>2, <3>3
  <2>5. post' \in [Posts -> PostRecords] /\ Pairing' /\ OwnerOnly'
    <3>1. post' = Done(p, "timeout") /\ sess' \in [Sessions -> SessionRecords]
      BY <2>1, <2>3
    <3>2. Shapes /\ Pairing /\ OwnerOnly
      BY DEF Inv
    <3> QED
      BY <2>4, <3>1, <3>2, PostEnds
  <2>6. Shapes'
    BY <2>1, <2>3, <2>5 DEF Inv, Shapes
  <2> QED
    BY <1>2, <2>3, <2>5, <2>6 DEF Inv
<1>5. CASE Resume(p)
  <2> DEFINE reply == IF post[p].future = "cancelled" THEN "aborted" ELSE post[p].future
  <2>1. /\ post' = Done(p, reply) /\ post[p].future \notin {"none", "open"}
        /\ UNCHANGED <<sess, upstream, hub, todo, notes, faults, rotations>>
    BY <1>5 DEF Resume
  <2>2. /\ reply \in {"answer", "denial", "aborted"}
        /\ post[p].future = "cancelled" => reply = "aborted"
    BY <1>1, <2>1 DEF PostRecords
  <2> HIDE DEF reply
  <2>3. upstream' \in [Sessions -> SUBSET Posts] /\ faults' \in 0..MaxEvents /\ faults' >= faults
    BY <1>1, <2>1 DEF Inv, Shapes
  <2>4. \A t \in Sessions :
           /\ upstream'[t] \subseteq upstream[t] \cup {p}
           /\ p \notin sess[t].pending
           /\ p \in upstream'[t] =>
                post[p].sess = t /\ (sess[t].pump = "running" => p \in sess[t].pending)
           /\ \A i \in 1..Len(sess[t].sse) : sess[t].sse[i] = p =>
                reply = "aborted" /\ p \notin upstream'[t]
    BY <1>3, <2>1, <2>2
  <2> QED
    BY <1>2, <2>1, <2>2, <2>3, <2>4, ReplySteps
<1> QED
  BY <1>4, <1>5

\* The pump reads an answer.
LEMMA AnswerStep ==
  ASSUME Inv, NEW s \in Sessions, NEW p \in Posts, UpstreamAnswers(s, p)
  PROVE  Inv'
<1> DEFINE x == sess[s]
<1>1. /\ x \in SessionRecords /\ x.pump = "running" /\ p \in upstream[s]
      /\ Life(x, faults) /\ x.proc # "none" /\ x.close = "no"
      /\ post[p] \in PostRecords /\ post[p].sess = s /\ post[p].pc \in {"waiting", "done"}
      /\ p \notin x.pending => post[p].reply = "timeout" /\ post[p].pc = "done"
      /\ faults \in 0..MaxEvents /\ MaxEvents \in Nat
  <2>1. x \in SessionRecords /\ x.pump = "running" /\ p \in upstream[s] /\ Life(x, faults)
        /\ post[p] \in PostRecords /\ faults \in 0..MaxEvents /\ MaxEvents \in Nat
    BY SessionAssumption DEF UpstreamAnswers, Inv, Shapes, Lives
  <2>2. x.proc # "none" /\ x.close = "no"
    BY <2>1 DEF Life, Unborn
  <2>3. /\ post[p].sess = s /\ post[p].pc \in {"waiting", "done"}
        /\ p \notin x.pending => post[p].reply = "timeout"
    BY <2>1 DEF Inv, Pairing, OwedOnce
  <2>4. post[p].reply = "timeout" => post[p].pc # "waiting"
    BY DEF Inv, Pairing, PostsHaveSessions
  <2> QED
    BY <2>1, <2>2, <2>3, <2>4
<1>2. IdentityTypeOK' /\ CacheIsRecent'
  BY IdentityFrame DEF Inv, UpstreamAnswers
<1>3. /\ \A t \in Sessions : \A i \in 1..Len(sess[t].sse) : t = s => sess[t].sse[i] # p
      /\ \A t \in Sessions \ {s} : p \notin upstream[t] /\ p \notin sess[t].pending
  <2>1. p # Note
    BY SessionAssumption
  <2> QED
    BY <1>1, <2>1 DEF Inv, Pairing, StreamedOnce, OwedOnce, PendingIsOpen
\* The session after the step: kept is what is left of _pending, frames the
\* stream and pump how the pump goes on.
<1> DEFINE kept == x.pending \ {p}
           frames == IF p \in x.pending THEN x.sse ELSE Append(x.sse, p)
           pump == IF faults' = faults THEN "running" ELSE "failed"
<1>4. /\ sess' = [sess EXCEPT ![s] = [x EXCEPT !.pending = kept, !.sse = frames, !.pump = pump]]
      /\ faults' \in 0..MaxEvents /\ faults' >= faults
      /\ pump \in {"running", "failed"} /\ (pump = "failed" => faults' > 0)
  <2>1. \/ sess' = [sess EXCEPT ![s] = ToClient(s, p, "answer").session] /\ faults' = faults
        \/ /\ EventLeft /\ faults' = faults + 1
           /\ sess' = [sess EXCEPT ![s] = [ToClient(s, p, "answer").session EXCEPT !.pump = "failed"]]
    BY DEF UpstreamAnswers
  <2>2. kept = IF p \in x.pending THEN x.pending \ {p} ELSE x.pending
    OBVIOUS
  <2>3. ToClient(s, p, "answer").session = [x EXCEPT !.pending = kept, !.sse = frames]
    <3>1. CASE p \in x.pending
      BY <1>1, <3>1 DEF ToClient, SessionRecords
    <3>2. CASE p \notin x.pending
      BY <1>1, <2>2, <3>2 DEF ToClient, SessionRecords
    <3> QED
      BY <3>1, <3>2
  <2> HIDE DEF kept, frames
  <2>4. [x EXCEPT !.pending = kept, !.sse = frames]
          = [x EXCEPT !.pending = kept, !.sse = frames, !.pump = "running"]
    BY <1>1 DEF SessionRecords
  <2>5. CASE sess' = [sess EXCEPT ![s] = ToClient(s, p, "answer").session] /\ faults' = faults
    <3>1. sess' = [sess EXCEPT ![s] = [x EXCEPT !.pending = kept, !.sse = frames, !.pump = "running"]]
      BY <2>3, <2>4, <2>5
    <3>2. pump = "running" /\ faults' \in 0..MaxEvents /\ faults' >= faults
      BY <1>1, <2>5
    <3> HIDE DEF pump
    <3> QED
      BY <3>1, <3>2
  <2>6. CASE /\ EventLeft /\ faults' = faults + 1
             /\ sess' = [sess EXCEPT ![s] = [ToClient(s, p, "answer").session EXCEPT !.pump = "failed"]]
    <3>1. faults' \in 0..MaxEvents /\ faults' > 0 /\ faults' >= faults /\ pump = "failed"
      BY <1>1, <2>6 DEF EventLeft, Inv, Shapes
    <3>2. sess' = [sess EXCEPT ![s] = [x EXCEPT !.pending = kept, !.sse = frames, !.pump = "failed"]]
      BY <2>3, <2>6
    <3> HIDE DEF pump
    <3> QED
      BY <3>1, <3>2
  <2> QED
    BY <2>1, <2>5, <2>6
<1> DEFINE new == [x EXCEPT !.pending = kept, !.sse = frames, !.pump = pump]
<1>5. kept \in SUBSET Posts /\ frames \in Seq(Posts \cup {Note})
  BY <1>1 DEF SessionRecords
<1>6. kept = x.pending \ {p} /\ frames = IF p \in x.pending THEN x.sse ELSE Append(x.sse, p)
  OBVIOUS
<1> HIDE DEF kept, frames, pump
<1>7. /\ new \in SessionRecords
      /\ new.registered = x.registered /\ new.owner = x.owner /\ new.closed = x.closed
      /\ new.pending = kept /\ new.streams = x.streams /\ new.proc = x.proc
      /\ new.pump = pump /\ new.close = x.close /\ new.exits = x.exits
      /\ new.stopped = x.stopped /\ new.sse = frames
  BY <1>1, <1>4, <1>5 DEF SessionRecords
<1>8. sess' = [sess EXCEPT ![s] = new] /\ faults' \in Nat /\ faults' >= faults
  BY <1>1, <1>4
<1> HIDE DEF new
<1>9. Life(new, faults')
  BY <1>1, <1>4, <1>7 DEF Life, Exits
<1>10. /\ sess' \in [Sessions -> SessionRecords] /\ sess'[s] = new
       /\ \A t \in Sessions \ {s} : sess'[t] = sess[t]
       /\ Lives'
  BY <1>7, <1>8, <1>9, LifeStep DEF Inv
<1>11. /\ upstream' = [upstream EXCEPT ![s] = @ \ {p}]
       /\ post' = ToClient(s, p, "answer").posts
       /\ UNCHANGED <<hub, todo, notes, rotations>>
  BY DEF UpstreamAnswers
<1>12. /\ upstream' \in [Sessions -> SUBSET Posts] /\ p \notin upstream'[s]
       /\ \A t \in Sessions : upstream'[t] \subseteq upstream[t]
  BY <1>11 DEF Inv, Shapes
<1>13. Shutdown' /\ FaultFreeTeardown'
  <2>1. x # Unborn
    BY <1>1 DEF Unborn
  <2> QED
    BY <1>1, <1>7, <1>8, <1>10, <1>11, <2>1, ShutdownFrame DEF Inv
\* p's future, if it is open, holds the answer now.
<1>14. /\ post' \in [Posts -> PostRecords]
       /\ \A q \in Posts \ {p} : post'[q] = post[q]
       /\ post'[p].pc = post[p].pc /\ post'[p].sess = s /\ post'[p].kind = post[p].kind
       /\ post'[p].reply = post[p].reply /\ post'[p].who = post[p].who
       /\ \/ post'[p].future = post[p].future
          \/ post[p].future = "open" /\ post'[p].future = "answer"
       /\ p \notin x.pending => post' = post
       /\ post'[p].pc = "idle" => post'[p] = Idle
  <2>1. CASE p \notin x.pending
    BY <1>1, <1>11, <2>1 DEF ToClient, Inv, Shapes
  <2>2. CASE p \in x.pending
    <3> DEFINE f == IF post[p].future = "open" THEN "answer" ELSE post[p].future
               q == [post[p] EXCEPT !.future = f]
    <3>1. post' = [post EXCEPT ![p] = q]
      BY <1>11, <2>2 DEF ToClient
    <3>2. /\ f \in {"none", "open", "answer", "denial", "cancelled"}
          /\ \/ f = post[p].future
             \/ post[p].future = "open" /\ f = "answer"
      BY <1>1 DEF PostRecords
    <3> HIDE DEF f
    <3>3. /\ q \in PostRecords /\ q.pc = post[p].pc /\ q.sess = s /\ q.kind = post[p].kind
          /\ q.reply = post[p].reply /\ q.who = post[p].who /\ q.future = f
      BY <1>1, <3>2 DEF PostRecords
    <3> HIDE DEF q
    <3> QED
      BY <1>1, <2>2, <3>1, <3>2, <3>3 DEF Inv, Shapes
  <2> QED
    BY <2>1, <2>2
<1>15. Shapes'
  BY <1>4, <1>10, <1>11, <1>12, <1>14 DEF Inv, Shapes
<1>16. \A t \in Sessions :
         /\ sess'[t].owner = sess[t].owner /\ sess'[t].proc = sess[t].proc
         /\ sess'[t].pump = "running" => sess[t].pump = "running"
         /\ sess'[t].pending = sess[t].pending \ {p}
         /\ t # s => sess'[t].sse = sess[t].sse
         /\ sess[t].pending \subseteq Posts
  BY <1>1, <1>3, <1>6, <1>7, <1>10 DEF Inv, Shapes, SessionRecords
<1>17. PostsHaveSessions'
  BY <1>1, <1>14, <1>16 DEF Inv, Pairing, PostsHaveSessions
<1>18. PendingIsOpen'
  BY <1>14, <1>16 DEF Inv, Pairing, PendingIsOpen
<1>19. DecidingIsPending'
  <2>1. \A r \in Posts : post[r].pc = "deciding" \/ post[r].future = "cancelled" =>
          post[r].sess \in Sessions
    BY DEF Inv, Shapes, Pairing, PostsHaveSessions, PostRecords, Idle
  <2> QED
    BY <1>1, <1>14, <1>16, <2>1 DEF Inv, Pairing, DecidingIsPending
<1>20. OwedOnce'
  <2>1. \A t \in Sessions : upstream'[t] \subseteq Posts \ {p}
    BY <1>3, <1>12 DEF Inv, Shapes
  <2> QED
    BY <1>12, <1>14, <1>16, <2>1 DEF Inv, Pairing, OwedOnce
<1>21. StreamedOnce' /\ OneDelivery'
  <2>1. CASE p \notin x.pending
    BY <1>1, <1>3, <1>6, <1>7, <1>10, <1>12, <1>14, <1>16, <2>1, PostStreams DEF Inv, WentWithout
  <2>2. CASE p \in x.pending
    <3>1. \A t \in Sessions : sess'[t].sse = sess[t].sse
      BY <1>6, <1>7, <1>10, <1>16, <2>2
    <3>2. \A t \in Sessions : \A i \in 1..Len(sess[t].sse) :
            sess[t].sse[i] \in Posts \cup {Note}
      BY DEF Inv, Shapes, SessionRecords
    <3>3. p # Note /\ (post[p].future = "cancelled" => post'[p].future = "cancelled")
      BY <1>14, SessionAssumption
    <3>4. StreamedOnce'
      BY <1>12, <1>14, <3>1, <3>2 DEF Inv, Pairing, StreamedOnce
    <3>5. \A t \in Sessions : \A i \in 1..Len(sess[t].sse) : sess[t].sse[i] # Note =>
            WentWithout(post'[sess[t].sse[i]], sess'[t])
      BY <1>14, <1>16, <3>2, <3>3 DEF Inv, Pairing, OneDelivery, WentWithout
    <3> QED
      BY <3>1, <3>4, <3>5 DEF Inv, Pairing, OneDelivery
  <2> QED
    BY <2>1, <2>2
<1>22. OwnerOnly'
  BY <1>1, <1>14, <1>16 DEF Inv, OwnerOnly, Pairing, PostsHaveSessions
<1> QED
  BY <1>2, <1>10, <1>13, <1>15, <1>17, <1>18, <1>19, <1>20, <1>21, <1>22 DEF Inv, Pairing

\* A POST is let in: to a session it starts, or to one its caller owns.
LEMMA AcceptStep ==
  ASSUME Inv, NEW p \in Posts, NEW s \in Sessions, NEW kind \in {"request", "notification"},
         NEW c \in Credentials, NEW who \in Principals \ {Nobody}, NEW old,
         Accept(p, s, kind, c, who, old), hub = "up", post[p].pc = "idle",
         IdentityTypeOK', CacheIsRecent',
         \/ sess[s] = Unborn /\ old = Fresh(who)
         \/ sess[s] # Unborn /\ old = sess[s] /\ sess[s].registered /\ Owns(s, who)
  PROVE  Inv'
<1> DEFINE x == sess[s]
           kept == IF kind = "request" THEN x.pending \cup {p} ELSE x.pending
           f == IF kind = "request" THEN "open" ELSE "none"
           q == [pc |-> "deciding", sess |-> s, kind |-> kind, reply |-> "none", cred |-> c,
                 who |-> who, future |-> f]
           new == [old EXCEPT !.pending = kept]
<1>1. /\ x \in SessionRecords /\ Life(x, faults) /\ faults \in Nat
      /\ post \in [Posts -> PostRecords] /\ post[p] = Idle
  BY SessionAssumption DEF Inv, Shapes, Lives, Pairing, PostsHaveSessions
<1>2. /\ x = Unborn <=> x.proc = "none"
      /\ x = Unborn => /\ x.pending = {} /\ x.sse = <<>> /\ x.pump = "none"
                       /\ \A r \in Posts : post[r].sess # s
                       /\ upstream[s] = {}
  <2>1. x = Unborn <=> x.proc = "none"
    BY <1>1 DEF Life, Unborn
  <2>2. x.proc = "none" => \A r \in Posts : post[r].sess # s
    BY DEF Inv, Pairing, PostsHaveSessions
  <2>3. (\A r \in Posts : post[r].sess # s) => upstream[s] = {}
    BY DEF Inv, Shapes, Pairing, OwedOnce
  <2> QED
    BY <2>1, <2>2, <2>3 DEF Unborn
<1>3. /\ old.pending = x.pending /\ old.sse = x.sse /\ old \in SessionRecords
      /\ Life(old, faults) /\ old.proc # "none" /\ old.registered /\ old.owner.id = who.id
      /\ x # Unborn => old = x
  <2>1. CASE x # Unborn
    BY <1>1, <1>2, <2>1 DEF Owns
  <2>2. CASE x = Unborn
    <3>1. old = [registered |-> TRUE, owner |-> who, closed |-> FALSE, pending |-> {}, sse |-> <<>>,
                 streams |-> 0, proc |-> "running", pump |-> "running", close |-> "no",
                 exits |-> 0, stopped |-> FALSE]
      <4>1. old = Fresh(who)
        BY <2>2
      <4> QED
        BY <4>1 DEF Fresh, Unborn
    <3>2. old \in SessionRecords
      BY <3>1 DEF SessionRecords
    <3>3. Life(old, faults)
      BY <3>1 DEF Life, Exits
    <3> QED
      BY <1>2, <2>2, <3>1, <3>2, <3>3
  <2> QED
    BY <2>1, <2>2
<1>4. /\ kept \in SUBSET Posts /\ f \in {"open", "none"} /\ (f = "open" <=> kind = "request")
      /\ kept \ {p} = x.pending \ {p} /\ (p \in kept => p \in x.pending \/ kind = "request")
      /\ kind = "request" => p \in kept
  BY <1>1 DEF SessionRecords
<1>5. sess' = [sess EXCEPT ![s] = new] /\ post' = [post EXCEPT ![p] = q]
      /\ UNCHANGED <<upstream, hub, todo, notes, faults, rotations>>
  BY <1>3 DEF Accept
<1> HIDE DEF kept, f
<1>6. /\ new \in SessionRecords
      /\ new.registered = old.registered /\ new.owner = old.owner /\ new.closed = old.closed
      /\ new.pending = kept /\ new.streams = old.streams /\ new.proc = old.proc
      /\ new.pump = old.pump /\ new.close = old.close /\ new.exits = old.exits
      /\ new.stopped = old.stopped /\ new.sse = x.sse
  BY <1>3, <1>4 DEF SessionRecords
<1> HIDE DEF new
<1>7. Life(new, faults')
  BY <1>3, <1>5, <1>6 DEF Life, Exits
<1>8. faults' \in Nat /\ faults' >= faults
  BY <1>1, <1>5
<1>9. /\ sess' \in [Sessions -> SessionRecords] /\ sess'[s] = new
      /\ \A t \in Sessions \ {s} : sess'[t] = sess[t]
      /\ Lives'
  BY <1>5, <1>6, <1>7, <1>8, LifeStep DEF Inv
<1>10. Shutdown' /\ FaultFreeTeardown'
  BY <1>5, <1>8, ShutdownFrame DEF Inv
<1>11. /\ q \in PostRecords /\ q.pc = "deciding" /\ q.sess = s /\ q.kind = kind
       /\ q.reply = "none" /\ q.who = who /\ q.future = f
  BY <1>4 DEF PostRecords
<1> HIDE DEF q
<1>12. /\ post' \in [Posts -> PostRecords] /\ post'[p] = q
       /\ \A r \in Posts \ {p} : post'[r] = post[r]
  BY <1>1, <1>5, <1>11
<1>13. Shapes'
  BY <1>5, <1>9, <1>12 DEF Inv, Shapes
\* p was nowhere yet.
<1>14. \A t \in Sessions :
         /\ p \notin sess[t].pending /\ p \notin upstream[t]
         /\ \A i \in 1..Len(sess[t].sse) : sess[t].sse[i] # p
  <2>1. p # Note /\ Idle.pc = "idle" /\ Idle.sess = Nobody
    BY SessionAssumption DEF Idle
  <2>2. \A t \in Sessions : p \notin sess[t].pending
    BY <1>1, <2>1 DEF Inv, Pairing, PendingIsOpen
  <2>3. \A t \in Sessions : p \notin upstream[t]
    BY <1>1, <2>1 DEF Inv, Pairing, OwedOnce
  <2>4. \A t \in Sessions : \A i \in 1..Len(sess[t].sse) : sess[t].sse[i] # p
    BY <1>1, <2>1 DEF Inv, Pairing, StreamedOnce
  <2> QED
    BY <2>2, <2>3, <2>4
<1>15. \A t \in Sessions :
         /\ sess'[t].proc # "none" \/ sess'[t].proc = sess[t].proc
         /\ sess'[t].sse = sess[t].sse
         /\ sess[t].pending \subseteq Posts
         /\ sess'[t].pending \ {p} = sess[t].pending
         /\ p \in sess'[t].pending => t = s /\ kind = "request"
         /\ sess[t] # Unborn => /\ sess'[t].pump = sess[t].pump
                                /\ sess'[t].owner = sess[t].owner
  BY <1>3, <1>4, <1>6, <1>9, <1>14 DEF Inv, Shapes, SessionRecords
<1>16. \A r \in Posts : post[r].sess \in Sessions => sess[post[r].sess] # Unborn
  BY DEF Inv, Pairing, PostsHaveSessions, Unborn
<1>17. PostsHaveSessions'
  BY <1>3, <1>4, <1>6, <1>9, <1>11, <1>12, <1>15 DEF Inv, Pairing, PostsHaveSessions
<1>18. PendingIsOpen'
  BY <1>4, <1>11, <1>12, <1>15 DEF Inv, Pairing, PendingIsOpen
<1>19. DecidingIsPending'
  <2>1. \A r \in Posts : post[r].pc = "deciding" \/ post[r].future = "cancelled" =>
          post[r].sess \in Sessions
    BY DEF Inv, Shapes, Pairing, PostsHaveSessions, PostRecords, Idle
  <2>2. kind = "request" => p \in sess'[s].pending
    BY <1>4, <1>6, <1>9
  <2>3. ASSUME NEW r \in Posts \ {p}
        PROVE  /\ (post'[r].pc = "deciding" /\ post'[r].kind = "request") =>
                    \/ post'[r].future = "open" /\ r \in sess'[post'[r].sess].pending
                    \/ post'[r].future = "cancelled"
               /\ post'[r].future = "cancelled" => sess'[post'[r].sess].pump # "running"
    BY <1>12, <1>15, <1>16, <2>1 DEF Inv, Pairing, DecidingIsPending
  <2> QED
    BY <1>4, <1>11, <1>12, <2>2, <2>3 DEF DecidingIsPending
<1>20. OwedOnce'
  <2> SUFFICES ASSUME NEW t \in Sessions, NEW r \in upstream[t]
               PROVE  /\ post'[r].sess = t /\ post'[r].pc \in {"waiting", "done"}
                      /\ sess'[t].pump = "running" /\ r \notin sess'[t].pending =>
                           post'[r].reply = "timeout"
    BY <1>5 DEF OwedOnce
  <2>1. r \in Posts \ {p} /\ sess[t] # Unborn
    BY <1>2, <1>14 DEF Inv, Shapes, Pairing, OwedOnce, PostsHaveSessions, Unborn
  <2> QED
    BY <1>12, <1>15, <2>1 DEF Inv, Pairing, OwedOnce
<1>21. \A t \in Sessions : \A i \in 1..Len(sess[t].sse) :
         sess[t].sse[i] # Note => sess[t].sse[i] \in Posts \ {p}
  <2>1. \A t \in Sessions : \A i \in 1..Len(sess[t].sse) : sess[t].sse[i] \in Posts \cup {Note}
    BY DEF Inv, Shapes, SessionRecords
  <2> QED
    BY <1>14, <2>1
<1>22. StreamedOnce'
  BY <1>5, <1>12, <1>15, <1>21 DEF Inv, Pairing, StreamedOnce
<1>23. OneDelivery'
  <2>1. \A t \in Sessions : \A i \in 1..Len(sess[t].sse) : sess[t] # Unborn
    BY <1>14 DEF Unborn
  <2>2. ASSUME NEW t \in Sessions, NEW i \in 1..Len(sess[t].sse), sess[t].sse[i] # Note
        PROVE  WentWithout(post'[sess[t].sse[i]], sess'[t])
    <3>1. WentWithout(post[sess[t].sse[i]], sess[t])
      BY <2>2 DEF Inv, Pairing, OneDelivery
    <3>2. post'[sess[t].sse[i]] = post[sess[t].sse[i]] /\ sess'[t].pump = sess[t].pump
      BY <1>12, <1>15, <1>21, <2>1, <2>2
    <3> QED
      BY <3>1, <3>2 DEF WentWithout
  <2> QED
    BY <1>15, <2>2, DeliveryFrame DEF Inv, Pairing
<1>24. OwnerOnly'
  <2>1. post'[p].who.id = sess'[post'[p].sess].owner.id
    BY <1>3, <1>6, <1>9, <1>11, <1>12
  <2>2. ASSUME NEW r \in Posts \ {p}, post'[r].who # Nobody
        PROVE  post'[r].who.id = sess'[post'[r].sess].owner.id
    <3>1. post'[r] = post[r] /\ post[r].sess \in Sessions /\ sess[post[r].sess] # Unborn
      BY <1>12, <1>16, <2>2 DEF Inv, Pairing, PostsHaveSessions
    <3> QED
      BY <1>15, <2>2, <3>1 DEF Inv, OwnerOnly
  <2> QED
    BY <2>1, <2>2 DEF OwnerOnly
<1> QED
  BY <1>9, <1>10, <1>13, <1>17, <1>18, <1>19, <1>20, <1>22, <1>23, <1>24 DEF Inv, Pairing

LEMMA PostSteps ==
  ASSUME Inv, NEW p \in Posts, NEW s \in Sessions, NEW c \in Credentials, NEW fetchOK \in BOOLEAN,
         \/ PostInitialize(p, s, c, fetchOK)
         \/ \E kind \in {"request", "notification"} : PostMessage(p, s, kind, c, fetchOK)
  PROVE  Inv'
<1> DEFINE answer == Resolve(c, fetchOK)
<1>1. /\ Resolving(answer) /\ hub = "up" /\ post[p].pc = "idle"
  BY DEF PostInitialize, PostMessage
<1>2. IdentityTypeOK' /\ CacheIsRecent' /\ answer.who \in Principals
  BY <1>1, ResolvingKeeps, ResolveAnswers DEF Inv
<1>3. ASSUME NEW status \in {"401", "403", "404", "error"}, Refuse(p, status)
      PROVE  Inv'
  <2>1. post' = Done(p, status)
        /\ UNCHANGED <<sess, upstream, hub, todo, notes, faults, rotations>>
    BY <1>3 DEF Refuse
  <2>2. upstream' \in [Sessions -> SUBSET Posts] /\ faults' \in 0..MaxEvents /\ faults' >= faults
    BY <2>1, SessionAssumption DEF Inv, Shapes
  <2>3. p # Note /\ Idle.pc = "idle" /\ Idle.sess = Nobody /\ post[p] = Idle
    BY <1>1, SessionAssumption DEF Inv, Pairing, PostsHaveSessions, Idle
  <2>4. \A t \in Sessions : p \notin sess[t].pending
    BY <2>3 DEF Inv, Pairing, PendingIsOpen
  <2>5. \A t \in Sessions : p \notin upstream[t]
    BY <2>3 DEF Inv, Pairing, OwedOnce
  <2>6. \A t \in Sessions : \A i \in 1..Len(sess[t].sse) : sess[t].sse[i] # p
    BY <2>3 DEF Inv, Pairing, StreamedOnce
  <2> QED
    BY <1>2, <2>1, <2>2, <2>4, <2>5, <2>6, ReplySteps
<1>4. CASE PostInitialize(p, s, c, fetchOK)
  <2>1. /\ sess[s] = Unborn
        /\ \/ Refuse(p, "401") \/ Refuse(p, "error")
           \/ answer.who # Nobody /\ Accept(p, s, "request", c, answer.who, Fresh(answer.who))
    BY <1>4 DEF PostInitialize
  <2> HIDE DEF answer
  <2> QED
    BY <1>1, <1>2, <1>3, <2>1, AcceptStep
<1>5. ASSUME NEW kind \in {"request", "notification"}, PostMessage(p, s, kind, c, fetchOK)
      PROVE  Inv'
  <2>1. /\ sess[s] # Unborn
        /\ \/ Refuse(p, "401") \/ Refuse(p, "403") \/ Refuse(p, "404")
           \/ /\ answer.who # Nobody /\ sess[s].registered /\ Owns(s, answer.who)
              /\ Accept(p, s, kind, c, answer.who, sess[s])
    BY <1>5 DEF PostMessage
  <2> HIDE DEF answer
  <2> QED
    BY <1>1, <1>2, <1>3, <2>1, AcceptStep
<1> QED
  BY <1>4, <1>5

\* close(): every future still open is cancelled and the pump is no more.
LEMMA CloseStep ==
  ASSUME Inv, NEW s \in Sessions, sess[s].registered, BeginClose(s),
         UNCHANGED <<upstream, notes, faults, rotations>>,
         hub' \in {"up", "draining", "closing", "down"}, todo' \subseteq Sessions
  PROVE  /\ Shapes' /\ Lives' /\ Pairing' /\ OwnerOnly'
         /\ ~sess'[s].registered /\ sess'[s].close = IF sess[s].pump = "failed" THEN "raised"
                                                     ELSE "terminating"
         /\ \A t \in Sessions \ {s} : sess'[t] = sess[t]
<1> DEFINE x == sess[s]
           pump == IF x.pump = "running" THEN "cancelled" ELSE x.pump
           close == IF x.pump = "failed" THEN "raised" ELSE "terminating"
           new == [x EXCEPT !.registered = FALSE, !.closed = TRUE, !.pending = {},
                            !.pump = pump, !.close = close]
<1>1. x \in SessionRecords /\ Life(x, faults) /\ faults \in Nat
  BY SessionAssumption DEF Inv, Shapes, Lives
<1>2. sess' = [sess EXCEPT ![s] = new]
  BY DEF BeginClose
<1>3. /\ pump \in {"none", "ended", "failed", "cancelled"} /\ (pump = "ended" <=> x.pump = "ended")
      /\ pump = "failed" <=> x.pump = "failed"
      /\ close \in {"terminating", "raised"} /\ (close = "raised" => x.pump = "failed")
      /\ close = IF x.pump = "failed" THEN "raised" ELSE "terminating"
  BY <1>1 DEF SessionRecords
<1> HIDE DEF pump, close
<1>4. /\ new \in SessionRecords
      /\ new.registered = FALSE /\ new.owner = x.owner /\ new.closed = TRUE
      /\ new.pending = {} /\ new.streams = x.streams /\ new.proc = x.proc
      /\ new.pump = pump /\ new.close = close /\ new.exits = x.exits
      /\ new.stopped = x.stopped /\ new.sse = x.sse
  BY <1>1, <1>3 DEF SessionRecords
<1> HIDE DEF new
<1>5. x.close = "no" /\ x.proc # "none" /\ ~x.stopped
  BY <1>1 DEF Life
<1>6. Life(new, faults')
  BY <1>1, <1>3, <1>4, <1>5 DEF Life, Exits
<1>7. faults' \in Nat /\ faults' >= faults
  BY <1>1
<1>8. /\ sess' \in [Sessions -> SessionRecords] /\ sess'[s] = new
      /\ \A t \in Sessions \ {s} : sess'[t] = sess[t]
      /\ Lives'
  BY <1>2, <1>4, <1>6, <1>7, LifeStep DEF Inv
<1>9. ASSUME NEW p \in Posts
      PROVE  /\ post'[p] \in PostRecords /\ post'[p].pc = post[p].pc
             /\ post'[p].sess = post[p].sess /\ post'[p].kind = post[p].kind
             /\ post'[p].reply = post[p].reply /\ post'[p].who = post[p].who
             /\ \/ post'[p] = post[p] /\ ~(p \in x.pending /\ post[p].future = "open")
                \/ p \in x.pending /\ post[p].future = "open" /\ post'[p].future = "cancelled"
  <2>1. /\ post[p] \in PostRecords
        /\ post'[p] = IF p \in x.pending /\ post[p].future = "open"
                      THEN [post[p] EXCEPT !.future = "cancelled"] ELSE post[p]
    BY DEF BeginClose, Inv, Shapes
  <2> QED
    BY <2>1 DEF PostRecords
<1>10. Shapes'
  <2>1. post' \in [Posts -> PostRecords]
    BY <1>9 DEF BeginClose
  <2> QED
    BY <1>8, <2>1 DEF Inv, Shapes
\* Whatever is pending here is of this session.
<1>11. \A p \in x.pending : post[p].sess = s
  BY DEF Inv, Pairing, PendingIsOpen
<1>12. \A t \in Sessions :
         /\ sess'[t].owner = sess[t].owner /\ sess'[t].proc = sess[t].proc
         /\ sess'[t].pump = "running" => t # s /\ sess[t].pump = "running"
         /\ sess'[t].pending = IF t = s THEN {} ELSE sess[t].pending
         /\ sess'[t].sse = sess[t].sse
         /\ sess[t].pending \subseteq Posts
  <2> SUFFICES ASSUME NEW t \in Sessions
               PROVE  /\ sess'[t].owner = sess[t].owner /\ sess'[t].proc = sess[t].proc
                      /\ sess'[t].pump = "running" => t # s /\ sess[t].pump = "running"
                      /\ sess'[t].pending = IF t = s THEN {} ELSE sess[t].pending
                      /\ sess'[t].sse = sess[t].sse
                      /\ sess[t].pending \subseteq Posts
    OBVIOUS
  <2>1. sess[t].pending \subseteq Posts
    BY DEF Inv, Shapes, SessionRecords
  <2>2. CASE t = s
    BY <1>3, <1>4, <1>8, <2>1, <2>2
  <2>3. CASE t # s
    BY <1>8, <2>1, <2>3
  <2> QED
    BY <2>2, <2>3
<1>13. PostsHaveSessions'
  <2>1. \A p \in Posts : post[p].future = "open" => post[p].pc # "idle" /\ post[p].pc # "done"
    BY DEF Inv, Pairing, PostsHaveSessions, Idle
  <2> QED
    BY <1>9, <1>12, <2>1 DEF Inv, Pairing, PostsHaveSessions
<1>14. PendingIsOpen'
  BY <1>9, <1>11, <1>12 DEF Inv, Pairing, PendingIsOpen
<1>15. DecidingIsPending'
  <2>1. \A r \in Posts : post[r].pc = "deciding" \/ post[r].future = "cancelled" =>
          post[r].sess \in Sessions
    BY DEF Inv, Shapes, Pairing, PostsHaveSessions, PostRecords, Idle
  <2>2. ASSUME NEW r \in Posts, post'[r].pc = "deciding", post'[r].kind = "request"
        PROVE  \/ post'[r].future = "open" /\ r \in sess'[post'[r].sess].pending
               \/ post'[r].future = "cancelled"
    BY <1>9, <1>12, <2>1, <2>2 DEF Inv, Pairing, DecidingIsPending
  <2>3. ASSUME NEW r \in Posts, post'[r].future = "cancelled"
        PROVE  sess'[post'[r].sess].pump # "running"
    <3>1. CASE post[r].future = "cancelled"
      BY <1>9, <1>12, <2>1, <3>1 DEF Inv, Pairing, DecidingIsPending
    <3>2. CASE post[r].future # "cancelled"
      <4>1. r \in x.pending /\ post'[r].sess = s
        BY <1>9, <1>11, <2>3, <3>2
      <4> QED
        BY <1>12, <4>1
    <3> QED
      BY <3>1, <3>2
  <2> QED
    BY <2>2, <2>3 DEF DecidingIsPending
<1>16. OwedOnce'
  <2>1. \A t \in Sessions : upstream[t] \subseteq Posts
    BY DEF Inv, Shapes
  <2> QED
    BY <1>9, <1>12, <2>1 DEF Inv, Pairing, OwedOnce
<1>17. \A t \in Sessions : \A i \in 1..Len(sess[t].sse) :
         sess[t].sse[i] # Note => sess[t].sse[i] \in Posts
  BY DEF Inv, Shapes, SessionRecords
<1>18. StreamedOnce'
  BY <1>9, <1>12, <1>17 DEF Inv, Pairing, StreamedOnce
<1>19. \A p \in Posts : post[p].future = "cancelled" => post'[p].future = "cancelled"
  BY <1>9
<1>20. OneDelivery'
  <2>1. ASSUME NEW t \in Sessions, NEW i \in 1..Len(sess[t].sse), sess[t].sse[i] # Note
        PROVE  WentWithout(post'[sess[t].sse[i]], sess'[t])
    <3>1. WentWithout(post[sess[t].sse[i]], sess[t])
      BY <2>1 DEF Inv, Pairing, OneDelivery
    <3> QED
      BY <1>9, <1>12, <1>17, <1>19, <2>1, <3>1 DEF WentWithout
  <2> QED
    BY <1>12, <2>1, DeliveryFrame DEF Inv, Pairing
<1>21. OwnerOnly'
  BY <1>9, <1>12 DEF Inv, OwnerOnly, Pairing, PostsHaveSessions
<1> QED
  BY <1>3, <1>4, <1>8, <1>10, <1>13, <1>14, <1>15, <1>16, <1>18, <1>20, <1>21 DEF Pairing

LEMMA DeleteStep ==
  ASSUME Inv, NEW s \in Sessions, NEW c \in Credentials, NEW fetchOK \in BOOLEAN,
         Delete(s, c, fetchOK)
  PROVE  Inv'
<1>1. /\ hub = "up" /\ sess[s].registered /\ Resolving(Resolve(c, fetchOK)) /\ BeginClose(s)
      /\ UNCHANGED <<upstream, hub, todo, notes, faults, rotations>>
  BY DEF Delete
<1>2. Shapes' /\ Lives' /\ Pairing' /\ OwnerOnly'
  BY <1>1, CloseStep DEF Inv, Shapes
<1>3. Shutdown' /\ FaultFreeTeardown'
  BY <1>1 DEF Inv, Shutdown, FaultFreeTeardown
<1>4. IdentityTypeOK' /\ CacheIsRecent'
  BY <1>1, ResolvingKeeps DEF Inv
<1> QED
  BY <1>2, <1>3, <1>4 DEF Inv

LEMMA ShutdownSteps ==
  ASSUME Inv, StopServing \/ ShutdownStep
  PROVE  Inv'
<1>1. IdentityTypeOK' /\ CacheIsRecent'
  BY IdentityFrame
  DEF Inv, StopServing, ShutdownStep, ShutdownAll, ShutdownNext, ShutdownReturns
<1>2. faults \in Nat /\ Shapes /\ Lives
  BY SessionAssumption DEF Inv, Shapes
<1>3. CASE StopServing \/ ShutdownAll \/ ShutdownReturns
  <2>1. UNCHANGED <<sess, post, upstream, notes, faults, rotations>>
    BY <1>3 DEF StopServing, ShutdownAll, ShutdownReturns
  <2>2. Shapes'
    BY <1>2, <1>3, <2>1 DEF Shapes, StopServing, ShutdownAll, ShutdownReturns
  <2>3. Lives' /\ OwnerOnly'
    BY <2>1 DEF Inv, Lives, Life, OwnerOnly
  <2>4. Pairing'
    BY <2>1 DEF Inv, Pairing, PostsHaveSessions, PendingIsOpen, DecidingIsPending, OwedOnce,
                StreamedOnce, OneDelivery
  <2>5. Shutdown'
    <3>1. CASE StopServing
      BY <2>1, <3>1 DEF StopServing, Inv, Shutdown
    <3>2. CASE ShutdownAll
      BY <2>1, <3>2 DEF ShutdownAll, Inv, Shutdown
    <3>3. CASE ShutdownReturns
      BY <2>1, <3>3 DEF ShutdownReturns, Inv, Shutdown
    <3> QED
      BY <1>3, <3>1, <3>2, <3>3
  <2>6. FaultFreeTeardown'
    <3> SUFFICES ASSUME hub' = "down", faults = 0, NEW s \in Sessions, sess[s] # Unborn
                 PROVE  sess[s].proc = "exited" /\ sess[s].stopped
      BY <2>1 DEF FaultFreeTeardown
    <3>1. ~sess[s].registered /\ sess[s].close # "terminating"
      BY <1>3, <2>1 DEF StopServing, ShutdownAll, ShutdownReturns, Inv, Shutdown
    <3>2. Life(sess[s], 0) /\ sess[s] \in SessionRecords
      BY <1>2 DEF Lives, Shapes
    <3> QED
      BY <3>1, <3>2 DEF Life, SessionRecords
  <2> QED
    BY <1>1, <2>2, <2>3, <2>4, <2>5, <2>6 DEF Inv
<1>4. ASSUME NEW s \in Sessions, ShutdownNext(s) PROVE Inv'
  <2>1. /\ hub = "closing" /\ s \in todo /\ sess[s].registered /\ BeginClose(s)
        /\ todo' = todo \ {s}
        /\ hub' = IF sess[s].pump = "failed" THEN "down" ELSE hub
        /\ UNCHANGED <<upstream, notes, faults, rotations>>
    BY <1>4 DEF ShutdownNext, Inv, Shutdown
  <2>2. /\ Shapes' /\ Lives' /\ Pairing' /\ OwnerOnly'
        /\ ~sess'[s].registered
        /\ \A t \in Sessions \ {s} : sess'[t] = sess[t]
    BY <1>2, <2>1, CloseStep DEF Shapes
  <2>3. hub' = "down" => faults' > 0
    BY <1>2, <2>1 DEF Lives, Life
  <2>4. Shutdown' /\ FaultFreeTeardown'
    BY <1>2, <2>1, <2>2, <2>3 DEF Inv, Shutdown, FaultFreeTeardown
  <2> QED
    BY <1>1, <2>2, <2>4 DEF Inv
<1> QED
  BY <1>3, <1>4 DEF ShutdownStep

LEMMA HttpInitInv == Init => Inv
<1> SUFFICES ASSUME Init PROVE Inv
  OBVIOUS
<1>1. IdentityTypeOK /\ CacheIsRecent
  <2>1. PICK p \in SUBSET Kids : withdrawn = [k \in Kids |-> IF k \in p THEN 0 ELSE TTL + 2]
    BY DEF Init, IdentityInit
  <2>2. TTL \in Nat
    BY CredentialsAssumption
  <2>3. 0 \in 0..TTL + 2 /\ TTL + 2 \in 0..TTL + 2 /\ 0 \in 0..TTL + 1
    BY <2>2
  <2>4. withdrawn \in [Kids -> 0..TTL + 2]
    BY <2>1, <2>3
  <2>5. cache = {} /\ age = 0 /\ expired = {}
    BY DEF Init, IdentityInit
  <2> QED
    BY <2>3, <2>4, <2>5 DEF IdentityTypeOK, CacheIsRecent
<1>2. Unborn \in SessionRecords /\ Idle \in PostRecords
  BY DEF Unborn, Idle, SessionRecords, PostRecords, Principals
<1>3. Shapes
  BY <1>2, SessionAssumption DEF Init, Shapes
<1>4. \A s \in Sessions : sess[s] = Unborn /\ upstream[s] = {}
  BY DEF Init
<1>5. \A p \in Posts : post[p] = Idle
  BY DEF Init
<1>6. Lives
  <2>1. Life(Unborn, faults)
    BY DEF Life, Unborn, Exits
  <2> QED
    BY <1>4, <2>1 DEF Lives
<1>7. Shutdown /\ FaultFreeTeardown
  BY <1>4 DEF Init, Shutdown, FaultFreeTeardown, Unborn
<1>8. Pairing
  BY <1>4, <1>5, SessionAssumption
  DEF Pairing, PostsHaveSessions, PendingIsOpen, DecidingIsPending, OwedOnce, StreamedOnce,
      OneDelivery, Unborn, Idle
<1>9. OwnerOnly
  BY <1>5 DEF OwnerOnly, Idle
<1> QED
  BY <1>1, <1>3, <1>6, <1>7, <1>8, <1>9 DEF Inv

LEMMA HttpStep == Inv /\ [Next]_vars => Inv'
<1> SUFFICES ASSUME Inv, [Next]_vars PROVE Inv'
  OBVIOUS
<1>1. CASE Client
  BY <1>1, PostSteps, StreamAndProcessSteps, DeleteStep DEF Client
<1>2. CASE \E p \in Posts : GatewayStep(p) \/ Timeout(p) \/ Resume(p)
  BY <1>2, GatewaySteps, WaitingSteps
<1>3. CASE \E s \in Sessions, p \in Posts : UpstreamAnswers(s, p)
  BY <1>3, AnswerStep
<1>4. CASE \E s \in Sessions :
             \/ UpstreamNotifies(s) \/ StreamYields(s) \/ StreamEnds(s) \/ StreamClientLeaves(s)
             \/ ProcessExits(s) \/ PumpEnds(s) \/ CloseEnds(s)
  BY <1>4, StreamAndProcessSteps
<1>5. CASE StopServing \/ ShutdownStep
  BY <1>5, ShutdownSteps
<1>6. CASE OutsideWorld \/ UNCHANGED vars
  <2>1. UNCHANGED <<sess, post, upstream, hub, todo, notes, faults>>
    BY <1>6 DEF OutsideWorld, vars, httpVars
  <2>2. IdentityTypeOK' /\ CacheIsRecent'
    BY <1>6, OutsideKeeps, IdentityFrame DEF OutsideWorld, vars, Inv
  <2>3. rotations' \in 0..MaxEvents
    BY <1>6, SessionAssumption DEF OutsideWorld, EventLeft, vars, httpVars, Inv, Shapes
  <2>4. Shapes'
    BY <2>1, <2>3 DEF Inv, Shapes
  <2>5. Lives' /\ Shutdown' /\ FaultFreeTeardown' /\ OwnerOnly'
    BY <2>1 DEF Inv, Lives, Life, Shutdown, FaultFreeTeardown, OwnerOnly
  <2>6. Pairing'
    BY <2>1 DEF Inv, Pairing, PostsHaveSessions, PendingIsOpen, DecidingIsPending, OwedOnce,
                StreamedOnce, OneDelivery
  <2> QED
    BY <2>2, <2>4, <2>5, <2>6 DEF Inv
<1> QED
  BY <1>1, <1>2, <1>3, <1>4, <1>5, <1>6 DEF Next, Terminated

\* The inductive invariant of the transport holds in every reachable state.
THEOREM HttpInvariant == Spec => []Inv
BY HttpInitInv, HttpStep, PTL DEF Spec

\* Whatever the timeouts, deletions and late lines, an answer is delivered once
\* and to the POST that waits for it.  (_Session.send_client, handle_request)
THEOREM AnswersAreNotLost == Spec => []AnswersFindTheirPost
BY HttpInvariant, InvGivesProperties, PTL

\* However a session ends, its exit is on the trail, and a shutdown without
\* failures of the store leaves no process behind.  (close, shutdown_all)
THEOREM SessionsEndCompletely == Spec => []TeardownIsComplete
BY HttpInvariant, InvGivesProperties, PTL

\* A POST is let in with a bearer token only if the token was signed by the key
\* it names, has not expired, and the key was published within the lifetime of
\* the cache.  (JwksProvider.signing_key, OidcValidator.validate)
THEOREM WithdrawnKeysDie == Spec => WithdrawnKeyDies
<1> DEFINE LetIn(p) ==
      LET c == post'[p].cred IN
        (post[p].pc = "idle" /\ post'[p].pc = "deciding" /\ c.scheme = "bearer") =>
          /\ c.signedBy = c.kid /\ c \notin expired
          /\ withdrawn[c.kid] <= TTL + 1
<1>1. Inv /\ [Next]_vars => [\A p \in Posts : LetIn(p)]_vars
  <2> SUFFICES ASSUME Inv, Next, NEW p \in Posts, post[p].pc = "idle", post'[p].pc = "deciding",
                      post'[p].cred.scheme = "bearer"
               PROVE  LET c == post'[p].cred IN
                        /\ c.signedBy = c.kid /\ c \notin expired
                        /\ withdrawn[c.kid] <= TTL + 1
    OBVIOUS
  <2>1. post \in [Posts -> PostRecords] /\ post'[p].pc # post[p].pc
    BY DEF Inv, Shapes
  <2>2. ASSUME NEW c \in Credentials, NEW fetchOK \in BOOLEAN, NEW s \in Sessions, NEW old,
               NEW kind, Accept(p, s, kind, c, Resolve(c, fetchOK).who, old),
               Resolve(c, fetchOK).who # Nobody
        PROVE  LET d == post'[p].cred IN
                 /\ d.signedBy = d.kid /\ d \notin expired
                 /\ withdrawn[d.kid] <= TTL + 1
    <3>1. post'[p].cred = c
      BY <2>1, <2>2 DEF Accept
    <3> QED
      BY <2>2, <3>1, ResolveAnswers DEF Inv
  <2>3. ASSUME NEW q \in Posts, NEW status, Refuse(q, status) PROVE FALSE
    BY <2>1, <2>3 DEF Refuse, Done, Replied, Idle
  <2>4. ASSUME NEW q \in Posts \ {p}, NEW s, NEW kind, NEW c, NEW who, NEW old,
               Accept(q, s, kind, c, who, old)
        PROVE  FALSE
    BY <2>1, <2>4 DEF Accept
  <2>5. ASSUME NEW s \in Sessions, NEW c \in Credentials, NEW fetchOK \in BOOLEAN, NEW q \in Posts,
               \/ PostInitialize(q, s, c, fetchOK)
               \/ \E kind \in {"request", "notification"} : PostMessage(q, s, kind, c, fetchOK)
        PROVE  LET d == post'[p].cred IN
                 /\ d.signedBy = d.kid /\ d \notin expired
                 /\ withdrawn[d.kid] <= TTL + 1
    <3>1. PICK kind, old, status :
            \/ Refuse(q, status)
            \/ /\ Accept(q, s, kind, c, Resolve(c, fetchOK).who, old)
               /\ Resolve(c, fetchOK).who # Nobody
      BY <2>5 DEF PostInitialize, PostMessage
    <3> QED
      BY <2>2, <2>3, <2>4, <3>1
  \* No other step lets a POST in.
  <2>6. ASSUME NEW s \in Sessions, BeginClose(s) PROVE FALSE
    BY <2>1, <2>6 DEF BeginClose
  <2>7. UNCHANGED post => FALSE
    BY <2>1
  <2>8. ASSUME NEW q \in Posts, NEW reply, post' = Done(q, reply) PROVE FALSE
    BY <2>1, <2>8 DEF Done, Replied, Idle
  <2>9. ASSUME NEW q \in Posts, GatewayStep(q) \/ Timeout(q) \/ Resume(q) PROVE FALSE
    <3>1. q # p
      BY <2>9 DEF GatewayStep, GatewayForwards, GatewayCannotForward, GatewayDenies, Timeout, Resume
    <3>2. \/ \E reply : post' = Done(q, reply)
          \/ post' = Decided(post, q)
          \/ post' = Decided(ToClient(post[q].sess, q, "denial").posts, q)
      BY <2>9 DEF GatewayStep, GatewayForwards, GatewayCannotForward, GatewayDenies, Timeout, Resume
    <3>3. CASE post' = Decided(post, q)
      BY <2>1, <3>1, <3>3 DEF Decided
    <3>4. CASE post' = Decided(ToClient(post[q].sess, q, "denial").posts, q)
      BY <2>1, <3>1, <3>4 DEF Decided, ToClient
    <3> QED
      BY <2>8, <3>2, <3>3, <3>4
  <2>10. ASSUME NEW s \in Sessions, NEW q \in Posts, UpstreamAnswers(s, q) PROVE FALSE
    <3>1. post' = ToClient(s, q, "answer").posts
      BY <2>10 DEF UpstreamAnswers
    <3> QED
      BY <2>1, <3>1 DEF ToClient
  <2>11. ASSUME NEW s \in Sessions,
                \/ UpstreamNotifies(s) \/ StreamYields(s) \/ StreamEnds(s)
                \/ StreamClientLeaves(s) \/ ProcessExits(s) \/ PumpEnds(s) \/ CloseEnds(s)
         PROVE  FALSE
    BY <2>7, <2>11 DEF UpstreamNotifies, StreamYields, StreamEnds, StreamClientLeaves,
                       ProcessExits, PumpEnds, CloseEnds
  <2>12. ASSUME NEW s \in Sessions, NEW c, NEW fetchOK, OpenStream(s, c, fetchOK) PROVE FALSE
    BY <2>7, <2>12 DEF OpenStream
  <2>13. ASSUME NEW s \in Sessions, NEW c, NEW fetchOK, Delete(s, c, fetchOK) PROVE FALSE
    BY <2>6, <2>7, <2>13 DEF Delete
  <2>14. ASSUME StopServing \/ ShutdownStep PROVE FALSE
    BY <2>6, <2>7, <2>14 DEF StopServing, ShutdownStep, ShutdownAll, ShutdownNext, ShutdownReturns
  <2>15. ASSUME OutsideWorld \/ Terminated \/ UNCHANGED vars PROVE FALSE
    BY <2>7, <2>15 DEF OutsideWorld, Terminated, vars, httpVars
  <2> QED
    BY <2>5, <2>9, <2>10, <2>11, <2>12, <2>13, <2>14, <2>15 DEF Next, Client
<1> QED
  BY <1>1, HttpInvariant, PTL DEF Spec, WithdrawnKeyDies


---------------------------------------------------------------------------
(* Role mapping.  What the loop of to_principal gathers is found by an        *)
(* induction over the role file.                                              *)

LEMMA LoopInduction ==
  ASSUME NEW N \in Nat, NEW S, 0 \in S, \A n \in 1..N : n - 1 \in S => n \in S
  PROVE  \A n \in 0..N : n \in S
<1> SUFFICES ASSUME NEW m \in 0..N, m \notin S PROVE FALSE
  OBVIOUS
<1> DEFINE T == {n \in 0..N : n \notin S}
<1>1. T \subseteq Nat /\ T # {}
  OBVIOUS
<1>2. IsWellFoundedOn(OpToRel(<, Nat), Nat)
  BY NatLessThanWellFounded
<1>3. PICK x \in T : \A y \in T : ~(<<y, x>> \in OpToRel(<, Nat))
  BY <1>1, <1>2, WFMin
<1>4. \A y \in T : ~(y < x)
  BY <1>1, <1>3 DEF OpToRel
<1>5. x # 0 /\ x \in 1..N /\ x - 1 \in 0..N /\ x - 1 < x
  OBVIOUS
<1>6. x - 1 \in S
  BY <1>4, <1>5
<1> QED
  BY <1>5, <1>6

\* A loop of N turns over values in V has a value after each turn.
HasRun(V, N, base, step) ==
  \E f \in [0..N -> V] : f[0] = base /\ \A n \in 1..N : f[n] = step[<<f[n - 1], n>>]

LEMMA LoopRuns ==
  ASSUME NEW V, NEW N \in Nat, NEW base \in V, NEW step \in [V \X (1..N) -> V]
  PROVE  HasRun(V, N, base, step)
<1> DEFINE Runs(f, m) == f[0] = base /\ \A n \in 1..m : f[n] = step[<<f[n - 1], n>>]
           S == {m \in 0..N : \E f \in [0..m -> V] : Runs(f, m)}
<1>1. 0 \in S
  <2> DEFINE g == [n \in 0..0 |-> base]
  <2>1. g \in [0..0 -> V] /\ g[0] = base
    OBVIOUS
  <2> HIDE DEF g
  <2>2. Runs(g, 0)
    BY <2>1
  <2> QED
    BY <2>1, <2>2
<1>2. ASSUME NEW m \in 1..N, m - 1 \in S PROVE m \in S
  <2>1. PICK f \in [0..m - 1 -> V] : Runs(f, m - 1)
    BY <1>2
  <2> DEFINE g == [n \in 0..m |-> IF n = m THEN step[<<f[m - 1], m>>] ELSE f[n]]
  <2>2. m - 1 \in 0..m - 1 /\ f[m - 1] \in V
    BY <2>1
  <2>3. step[<<f[m - 1], m>>] \in V
    BY <2>2
  <2>4. g \in [0..m -> V]
    BY <2>1, <2>3
  <2>5. g[m] = step[<<f[m - 1], m>>] /\ \A n \in 0..m - 1 : g[n] = f[n]
    OBVIOUS
  <2> HIDE DEF g
  <2>6. Runs(g, m)
    <3>1. g[0] = base
      BY <2>1, <2>5
    <3>2. ASSUME NEW n \in 1..m PROVE g[n] = step[<<g[n - 1], n>>]
      <4>1. n - 1 \in 0..m - 1 /\ g[n - 1] = f[n - 1]
        BY <2>5
      <4>2. CASE n = m
        BY <2>5, <4>1, <4>2
      <4>3. CASE n # m
        <5>1. n \in 1..m - 1 /\ n \in 0..m - 1
          BY <4>3
        <5> QED
          BY <2>1, <2>5, <4>1, <5>1
      <4> QED
        BY <4>2, <4>3
    <3> QED
      BY <3>1, <3>2
  <2> QED
    BY <2>4, <2>6
<1> HIDE DEF S
<1>3. \A n \in 0..N : n \in S
  BY <1>1, <1>2, LoopInduction
<1>4. N \in S
  BY <1>3
<1> QED
  BY <1>4 DEF S, HasRun

FileRoles == {GroupRoles[i][2] : i \in 1..Len(GroupRoles)}

\* One turn of the loop: entry n of the file, after the roles gathered so far.
Gather(groups, roles, n) ==
  IF GroupRoles[n][1] \in ToSet(groups) /\ GroupRoles[n][2] \notin ToSet(roles)
  THEN Append(roles, GroupRoles[n][2]) ELSE roles

LEMMA FileLength == Len(GroupRoles) \in Nat
<1> DEFINE T == ToSet(GroupRoles)
<1>1. GroupRoles \in Seq(T)
  BY CredentialsAssumption
<1> HIDE DEF T
<1> QED
  BY <1>1

LEMMA RolesGathered ==
  ASSUME NEW groups
  PROVE  \E f \in [0..Len(GroupRoles) -> Seq(FileRoles)] :
           /\ f[0] = <<>>
           /\ \A n \in 1..Len(GroupRoles) : f[n] = Gather(groups, f[n - 1], n)
           /\ RolesOf(groups) = IF f[Len(GroupRoles)] = <<>> /\ DefaultRole # NoRole
                                THEN <<DefaultRole>> ELSE f[Len(GroupRoles)]
<1> DEFINE N == Len(GroupRoles)
           V == Seq(FileRoles)
           step == [x \in V \X (1..N) |-> Gather(groups, x[1], x[2])]
           Loop(f) == f = [n \in 0..N |->
                             IF n = 0 THEN <<>>
                             ELSE IF GroupRoles[n][1] \in ToSet(groups)
                                       /\ GroupRoles[n][2] \notin ToSet(f[n - 1])
                             THEN Append(f[n - 1], GroupRoles[n][2])
                             ELSE f[n - 1]]
<1>0. N \in Nat
  BY FileLength
<1>1. \A roles \in V, n \in 1..N : Gather(groups, roles, n) \in V
  BY DEF Gather, FileRoles
<1>2. step \in [V \X (1..N) -> V] /\ <<>> \in V
  BY <1>1
<1>3. \A roles \in V, n \in 1..N : step[<<roles, n>>] = Gather(groups, roles, n)
  OBVIOUS
<1> HIDE DEF step
<1>4. PICK f \in [0..N -> V] : f[0] = <<>> /\ \A n \in 1..N : f[n] = step[<<f[n - 1], n>>]
  <2> HIDE DEF V, N
  <2>1. HasRun(V, N, <<>>, step)
    BY <1>0, <1>2, LoopRuns
  <2> QED
    BY <2>1 DEF HasRun
<1>5. \A n \in 1..N : n - 1 \in 0..N /\ f[n - 1] \in V
  BY <1>0, <1>4
<1>6. \A n \in 1..N : f[n] = Gather(groups, f[n - 1], n)
  BY <1>3, <1>4, <1>5
<1>7. Loop(f)
  <2>1. \A n \in 0..N : n = 0 \/ n \in 1..N
    BY <1>0
  <2>2. ASSUME NEW n \in 0..N
        PROVE  f[n] = IF n = 0 THEN <<>>
                      ELSE IF GroupRoles[n][1] \in ToSet(groups)
                                /\ GroupRoles[n][2] \notin ToSet(f[n - 1])
                      THEN Append(f[n - 1], GroupRoles[n][2])
                      ELSE f[n - 1]
    BY <1>4, <1>6, <2>1 DEF Gather
  <2> QED
    BY <1>4, <2>2
<1> DEFINE F == CHOOSE g : Loop(g)
<1>8. Loop(F)
  BY <1>7
<1>9. RolesOf(groups) = IF F[N] = <<>> /\ DefaultRole # NoRole THEN <<DefaultRole>> ELSE F[N]
  BY DEF RolesOf
<1> HIDE DEF F
\* The loop has one outcome only.
<1>10. F = f
  <2> DEFINE S == {n \in 0..N : F[n] = f[n]}
  <2>0. /\ F[0] = <<>>
        /\ \A n \in 1..N : F[n] = Gather(groups, F[n - 1], n)
    <3>1. \A n \in 0..N :
            F[n] = IF n = 0 THEN <<>>
                   ELSE IF GroupRoles[n][1] \in ToSet(groups)
                             /\ GroupRoles[n][2] \notin ToSet(F[n - 1])
                   THEN Append(F[n - 1], GroupRoles[n][2])
                   ELSE F[n - 1]
      BY <1>8
    <3>2. 0 \in 0..N /\ \A n \in 1..N : n \in 0..N /\ n # 0
      BY <1>0
    <3> QED
      BY <3>1, <3>2 DEF Gather
  <2>1. 0 \in S
    BY <1>0, <1>4, <2>0
  <2>2. \A n \in 1..N : n - 1 \in S => n \in S
    BY <1>0, <1>6, <2>0
  <2> HIDE DEF S
  <2>3. \A n \in 0..N : n \in S
    BY <1>0, <2>1, <2>2, LoopInduction
  <2>4. \A n \in 0..N : F[n] = f[n]
    BY <2>3 DEF S
  <2> QED
    BY <1>4, <1>8, <2>4
<1> QED
  BY <1>4, <1>6, <1>9, <1>10

\* What the loop has gathered after n entries: the roles of the entries that hit,
\* each once, the first of them in front.
Hits(groups, n) == {i \in 1..n : GroupRoles[i][1] \in ToSet(groups)}

Gathered(groups, roles, n) ==
  /\ ToSet(roles) = {GroupRoles[i][2] : i \in Hits(groups, n)}
  /\ IsInjective(roles)
  /\ roles # <<>> => \E i \in Hits(groups, n) : /\ roles[1] = GroupRoles[i][2]
                                                /\ \A j \in Hits(groups, n) : i <= j

LEMMA GatherStep ==
  ASSUME NEW groups, NEW n \in 1..Len(GroupRoles), NEW roles \in Seq(FileRoles),
         Gathered(groups, roles, n - 1)
  PROVE  Gathered(groups, Gather(groups, roles, n), n)
<1> DEFINE role == GroupRoles[n][2]
           new == Append(roles, role)
<1>0. Len(GroupRoles) \in Nat /\ Len(roles) \in Nat /\ DOMAIN roles = 1..Len(roles)
  BY FileLength
<1>1. \A i \in 1..n : i \in 1..n - 1 \/ i = n
  BY <1>0
<1>2. \A i \in 1..n - 1 : i \in 1..n /\ i < n /\ i \in Int
  BY <1>0
<1>3. CASE GroupRoles[n][1] \notin ToSet(groups)
  <2>1. Hits(groups, n) = Hits(groups, n - 1)
    BY <1>1, <1>2, <1>3 DEF Hits
  <2>2. Gather(groups, roles, n) = roles
    BY <1>3 DEF Gather
  <2> QED
    BY <2>1, <2>2 DEF Gathered
<1>4. CASE GroupRoles[n][1] \in ToSet(groups)
  <2>1. /\ Hits(groups, n - 1) \subseteq Hits(groups, n) /\ n \in Hits(groups, n)
        /\ \A i \in Hits(groups, n) : i \in Hits(groups, n - 1) \/ i = n
        /\ \A i \in Hits(groups, n - 1) : i < n /\ i \in Int
    BY <1>0, <1>1, <1>2, <1>4 DEF Hits
  <2>2. CASE role \in ToSet(roles)
    <3>1. Gather(groups, roles, n) = roles
      BY <2>2 DEF Gather
    <3>2. {GroupRoles[i][2] : i \in Hits(groups, n)} = {GroupRoles[i][2] : i \in Hits(groups, n - 1)}
      BY <2>1, <2>2 DEF Gathered
    <3>3. roles # <<>> => \E i \in Hits(groups, n) : /\ roles[1] = GroupRoles[i][2]
                                                     /\ \A j \in Hits(groups, n) : i <= j
      BY <2>1 DEF Gathered
    <3> QED
      BY <3>1, <3>2, <3>3 DEF Gathered
  <2>3. CASE role \notin ToSet(roles)
    <3>1. Gather(groups, roles, n) = new
      BY <1>4, <2>3 DEF Gather
    <3>2. /\ DOMAIN new = 1..Len(roles) + 1 /\ new[Len(roles) + 1] = role
          /\ \A i \in 1..Len(roles) : new[i] = roles[i]
      BY <1>0
    <3>3. \A i \in 1..Len(roles) + 1 : i \in 1..Len(roles) \/ i = Len(roles) + 1
      BY <1>0
    <3>4. \A i \in 1..Len(roles) : i \in 1..Len(roles) + 1
      BY <1>0
    <3> HIDE DEF new, role
    <3>5. ToSet(new) = ToSet(roles) \cup {role}
      <4>1. \A x \in ToSet(new) : x \in ToSet(roles) \cup {role}
        BY <1>0, <3>2, <3>3 DEF ToSet
      <4>2. \A x \in ToSet(roles) : x \in ToSet(new)
        BY <1>0, <3>2, <3>4 DEF ToSet
      <4>3. role \in ToSet(new)
        BY <1>0, <3>2 DEF ToSet
      <4> QED
        BY <4>1, <4>2, <4>3
    <3>6. {GroupRoles[i][2] : i \in Hits(groups, n)} =
            {GroupRoles[i][2] : i \in Hits(groups, n - 1)} \cup {role}
      BY <2>1 DEF role
    <3>7. IsInjective(new)
      <4>1. \A i \in 1..Len(roles) : roles[i] # role
        BY <1>0, <2>3 DEF ToSet
      <4>2. \A i, j \in 1..Len(roles) : roles[i] = roles[j] => i = j
        BY <1>0 DEF Gathered, IsInjective
      <4> SUFFICES ASSUME NEW i \in 1..Len(roles) + 1, NEW j \in 1..Len(roles) + 1, new[i] = new[j]
                   PROVE  i = j
        BY <3>2 DEF IsInjective
      <4> QED
        BY <3>2, <3>3, <4>1, <4>2
    <3>8. \E i \in Hits(groups, n) : new[1] = GroupRoles[i][2] /\ \A j \in Hits(groups, n) : i <= j
      <4>1. CASE roles = <<>>
        <5>1. Hits(groups, n - 1) = {}
          <6>1. ToSet(roles) = {}
            BY <4>1 DEF ToSet
          <6> QED
            BY <6>1 DEF Gathered
        <5>2. new[1] = role
          BY <1>0, <3>2, <4>1
        <5> QED
          BY <2>1, <5>1, <5>2 DEF role
      <4>2. CASE roles # <<>>
        <5>1. 1 \in 1..Len(roles)
          BY <1>0, <4>2
        <5>2. PICK i \in Hits(groups, n - 1) :
                /\ roles[1] = GroupRoles[i][2]
                /\ \A j \in Hits(groups, n - 1) : i <= j
          BY <4>2 DEF Gathered
        <5>3. \A j \in Hits(groups, n) : i <= j
          BY <2>1, <5>2
        <5> QED
          BY <2>1, <3>2, <5>1, <5>2, <5>3
      <4> QED
        BY <4>1, <4>2
    <3> QED
      BY <3>1, <3>5, <3>6, <3>7, <3>8 DEF Gathered
  <2> QED
    BY <2>2, <2>3
<1> QED
  BY <1>3, <1>4

\* The roles of a caller, for every file and every list of groups.
LEMMA RolesFact ==
  ASSUME NEW groups
  PROVE  LET hits == Hits(groups, Len(GroupRoles))
             roles == RolesOf(groups) IN
         IF hits = {} THEN roles = (IF DefaultRole = NoRole THEN <<>> ELSE <<DefaultRole>>)
         ELSE /\ roles[1] = GroupRoles[Min(hits)][2]
              /\ ToSet(roles) = {GroupRoles[i][2] : i \in hits}
              /\ IsInjective(roles)
<1> DEFINE N == Len(GroupRoles)
           hits == Hits(groups, N)
<1>0. N \in Nat
  BY FileLength
<1>1. PICK f \in [0..N -> Seq(FileRoles)] :
           /\ f[0] = <<>>
           /\ \A n \in 1..N : f[n] = Gather(groups, f[n - 1], n)
           /\ RolesOf(groups) = IF f[N] = <<>> /\ DefaultRole # NoRole
                                THEN <<DefaultRole>> ELSE f[N]
  BY RolesGathered
<1>2. Gathered(groups, f[N], N)
  <2> DEFINE S == {n \in 0..N : Gathered(groups, f[n], n)}
  <2>1. 0 \in S
    <3>1. Hits(groups, 0) = {}
      BY DEF Hits
    <3>2. ToSet(<<>>) = {} /\ IsInjective(<<>>)
      BY DEF ToSet, IsInjective
    <3> QED
      BY <1>0, <1>1, <3>1, <3>2 DEF Gathered
  <2>2. ASSUME NEW n \in 1..N, n - 1 \in S PROVE n \in S
    <3>1. n - 1 \in 0..N /\ f[n - 1] \in Seq(FileRoles) /\ n \in 0..N
      BY <1>0, <1>1
    <3> QED
      BY <1>1, <2>2, <3>1, GatherStep
  <2> HIDE DEF S
  <2>3. \A n \in 0..N : n \in S
    BY <1>0, <2>1, <2>2, LoopInduction
  <2> QED
    BY <1>0, <2>3 DEF S
<1>3. f[N] \in Seq(FileRoles)
  BY <1>0, <1>1
<1>4. hits \subseteq Int
  BY <1>0 DEF Hits
<1> DEFINE roles == f[N]
<1> HIDE DEF hits, roles
<1>5. CASE hits = {}
  <2>1. ToSet(roles) = {}
    BY <1>2, <1>5 DEF Gathered, hits, roles
  <2>2. roles = <<>>
    BY <1>3, <2>1 DEF ToSet, roles
  <2> QED
    BY <1>1, <1>5, <2>2 DEF roles, hits
<1>6. CASE hits # {}
  <2>1. roles # <<>>
    <3>1. ToSet(roles) # {}
      BY <1>2, <1>6 DEF Gathered, hits, roles
    <3>2. ToSet(<<>>) = {}
      BY DEF ToSet
    <3> QED
      BY <3>1, <3>2
  <2>2. RolesOf(groups) = roles
    BY <1>1, <2>1 DEF roles
  <2>3. PICK i \in hits : roles[1] = GroupRoles[i][2] /\ \A j \in hits : i <= j
    BY <1>2, <2>1 DEF Gathered, hits, roles
  <2>4. Min(hits) = i
    <3>1. Min(hits) \in hits /\ \A j \in hits : Min(hits) <= j
      BY <2>3 DEF Min
    <3>2. i \in Int /\ Min(hits) \in Int /\ i <= Min(hits) /\ Min(hits) <= i
      BY <1>4, <2>3, <3>1
    <3> QED
      BY <3>2
  <2>5. ToSet(roles) = {GroupRoles[j][2] : j \in hits} /\ IsInjective(roles)
    BY <1>2 DEF Gathered, hits, roles
  <2> QED
    BY <1>6, <2>2, <2>3, <2>4, <2>5 DEF hits
<1> QED
  BY <1>5, <1>6

\* A principal has the id of its credential and, from a token, its roles.
LEMMA PrincipalsFact ==
  ASSUME NEW who \in Principals \ {Nobody}
  PROVE  /\ who.id = who.from.sub
         /\ who.from.scheme = "bearer" => who.roles = RolesOf(who.from.groups)
<1>1. CASE \E c \in Credentials : who = ToPrincipal(c)
  BY <1>1 DEF ToPrincipal, Principal
<1>2. CASE \E c \in {d \in Credentials : d.scheme = "apikey"} : who = Principal(c, c.groups)
  BY <1>2 DEF Principal
<1> QED
  BY <1>1, <1>2 DEF Principals

LEMMA OwnersHaveTheirRoles ==
  ASSUME Inv
  PROVE  RolesByFileOrder
<1> SUFFICES ASSUME NEW s \in Sessions, sess[s] # Unborn
             PROVE  LET acting == sess[s].owner
                        hits == Hits(acting.from.groups, Len(GroupRoles))
                        roles == acting.roles IN
                    /\ acting # Nobody /\ acting.id = acting.from.sub
                    /\ acting.from.scheme = "bearer" =>
                         IF hits = {}
                         THEN roles = (IF DefaultRole = NoRole THEN <<>> ELSE <<DefaultRole>>)
                         ELSE /\ roles[1] = GroupRoles[Min(hits)][2]
                              /\ ToSet(roles) = {GroupRoles[i][2] : i \in hits}
                              /\ IsInjective(roles)
  BY DEF RolesByFileOrder, Hits
<1>1. sess[s].owner \in Principals \ {Nobody}
  BY DEF Inv, Shapes, SessionRecords, Lives, Life
<1> DEFINE acting == sess[s].owner
<1> HIDE DEF acting
<1>2. /\ acting # Nobody /\ acting.id = acting.from.sub
      /\ acting.from.scheme = "bearer" => acting.roles = RolesOf(acting.from.groups)
  BY <1>1, PrincipalsFact DEF acting
<1> QED
  BY <1>2, RolesFact DEF acting

\* A caller acts on its own sessions only, for every role file and every set of
\* credentials, and every session acts under the principal that opened it, whose
\* roles are those of its token's groups in the order of the file, each once.
\* (_enforce_session_owner; create; RoleMapping.to_principal)
THEOREM CallersActAsThemselves == Spec => []CallersAreThemselves
<1>1. Inv => CallersAreThemselves
  BY OwnersHaveTheirRoles DEF Inv, CallersAreThemselves
<1> QED
  BY <1>1, HttpInvariant, PTL
=============================================================================
