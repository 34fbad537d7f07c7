----------------------------- MODULE HttpSession -----------------------------
(***************************************************************************)
(* Streamable HTTP (transports/streamable_http.py, upstream.py): a hub of  *)
(* sessions, each with a gateway, a child process and a pump that reads    *)
(* it.  A POST waits for the line that answers it, a GET streams what      *)
(* answers no POST, a DELETE and the server's shutdown tear sessions down. *)
(*                                                                         *)
(* One step is what runs between two awaits.  What the gateway decides     *)
(* about a message is Gateway.tla; here it forwards, denies or fails.  A   *)
(* client numbers its requests afresh, so a request id is its POST.        *)
(***************************************************************************)
EXTENDS Identity

CONSTANTS
  Sessions, Posts,
  MaxEvents    \* bound on what comes from outside: messages an upstream starts
               \* itself, failures of the session store, ticks, expired tokens
               \* and changes of the published keys, all together

Note == "note"

ASSUME SessionAssumption == Note \notin Posts /\ Nobody \notin Sessions /\ MaxEvents \in Nat

VARIABLES
  sess,     \* _Session, its Upstream and the hub's registry
  post,     \* the POSTs
  upstream, \* [Sessions -> SUBSET Posts]: requests the child process still owes
  hub,      \* the server: "up", "draining", "closing", "down"
  todo,     \* the sessions shutdown_all has still to close
  notes, faults, rotations

httpVars == <<sess, post, upstream, hub, todo, notes, faults, rotations>>
vars == <<httpVars, identityVars>>

Unborn == [registered |-> FALSE, owner |-> Nobody, closed |-> FALSE, pending |-> {}, sse |-> <<>>,
           streams |-> 0, proc |-> "none", pump |-> "none", close |-> "no", exits |-> 0,
           stopped |-> FALSE]

\* proc: the child process; pump: its reader task; close: how far close() is.
Fresh(who) == [Unborn EXCEPT !.registered = TRUE, !.owner = who, !.proc = "running",
                             !.pump = "running"]

Idle == [pc |-> "idle", sess |-> Nobody, kind |-> "none", future |-> "none", reply |-> "none",
         cred |-> Nobody, who |-> Nobody]

Replied(q, reply) == [Idle EXCEPT !.pc = "done", !.sess = q.sess, !.reply = reply]

EventLeft == notes + faults + rotations < MaxEvents

Done(p, reply) == [post EXCEPT ![p] = Replied(@, reply)]

TypeOK ==
  /\ IdentityTypeOK
  /\ \A s \in Sessions :
       /\ sess[s].registered \in BOOLEAN /\ sess[s].closed \in BOOLEAN
       /\ sess[s].pending \subseteq Posts
       /\ \A i \in 1..Len(sess[s].sse) : sess[s].sse[i] \in Posts \cup {Note}
       /\ sess[s].streams \in 0..1
       /\ sess[s].proc \in {"none", "running", "exited"}
       /\ sess[s].pump \in {"none", "running", "ended", "failed", "cancelled"}
       /\ sess[s].close \in {"no", "terminating", "done", "raised"}
       /\ sess[s].exits \in 0..2 /\ sess[s].stopped \in BOOLEAN
       /\ upstream[s] \subseteq Posts
  /\ \A p \in Posts :
       /\ post[p].pc \in {"idle", "deciding", "waiting", "done"}
       /\ post[p].sess \in Sessions \cup {Nobody}
       /\ post[p].kind \in {"none", "request", "notification"}
       /\ post[p].future \in {"none", "open", "answer", "denial", "cancelled"}
       /\ post[p].reply \in {"none", "answer", "denial", "timeout", "aborted", "error", "accepted",
                             "401", "403", "404"}
  /\ hub \in {"up", "draining", "closing", "down"}
  /\ todo \subseteq Sessions
  /\ notes \in 0..MaxEvents /\ faults \in 0..MaxEvents /\ rotations \in 0..MaxEvents

Init ==
  /\ IdentityInit
  /\ sess = [s \in Sessions |-> Unborn]
  /\ post = [p \in Posts |-> Idle]
  /\ upstream = [s \in Sessions |-> {}]
  /\ hub = "up"
  /\ todo = {}
  /\ notes = 0 /\ faults = 0 /\ rotations = 0

-----------------------------------------------------------------------------
(* The HTTP handlers, up to their first await.  Every one authenticates    *)
(* first; a session is then found in the registry and its owner compared.  *)

\* Mutant of Owns: a session id is as good as a credential.
AnyoneOwns(s, who) == TRUE

Owns(s, who) == sess[s].owner.id = who.id

Refuse(p, status) ==
  /\ post' = Done(p, status)
  /\ UNCHANGED <<sess, upstream, hub, todo, notes, faults, rotations>>

\* handle_request, handle_notification: only a request leaves a future behind.
\* who, the caller of this request, was only compared with the owner: what the
\* gateway decides, it decides under the owner, which create bound.
Accept(p, s, kind, c, who, session) ==
  /\ post' = [post EXCEPT ![p] =
                [pc |-> "deciding", sess |-> s, kind |-> kind, reply |-> "none", cred |-> c, who |-> who,
                 future |-> IF kind = "request" THEN "open" ELSE "none"]]
  /\ sess' = [sess EXCEPT ![s] = [session EXCEPT !.pending =
                IF kind = "request" THEN @ \cup {p} ELSE @]]
  /\ UNCHANGED <<upstream, hub, todo, notes, faults, rotations>>

\* initialize without a session: mint one, bound to the caller, and start its
\* process.  Nobody knows the session's id before the answer carries it.
PostInitialize(p, s, c, fetchOK) ==
  /\ hub = "up" /\ post[p].pc = "idle" /\ sess[s] = Unborn
  /\ LET answer == Resolve(c, fetchOK) IN
     /\ Resolving(answer)
     /\ \/ answer.who = Nobody /\ Refuse(p, "401")
        \/ answer.who # Nobody /\ Accept(p, s, "request", c, answer.who, Fresh(answer.who))
        \/ answer.who # Nobody /\ Refuse(p, "error")    \* the process does not start

\* Anything else must name a session this hub knows, and own it.
PostMessage(p, s, kind, c, fetchOK) ==
  /\ hub = "up" /\ post[p].pc = "idle" /\ sess[s] # Unborn
  /\ LET answer == Resolve(c, fetchOK) IN
     /\ Resolving(answer)
     /\ IF answer.who = Nobody THEN Refuse(p, "401")
        ELSE IF ~sess[s].registered THEN Refuse(p, "404")
        ELSE IF ~Owns(s, answer.who) THEN Refuse(p, "403")
        ELSE Accept(p, s, kind, c, answer.who, sess[s])

OpenStream(s, c, fetchOK) ==
  /\ hub = "up" /\ sess[s].registered /\ sess[s].streams = 0
  /\ LET answer == Resolve(c, fetchOK) IN
     /\ Resolving(answer)
     /\ answer.who # Nobody /\ Owns(s, answer.who)
     /\ sess' = [sess EXCEPT ![s].streams = 1]
  /\ UNCHANGED <<post, upstream, hub, todo, notes, faults, rotations>>

-----------------------------------------------------------------------------
(* Messages *)

\* Mutant of ToClient: the return after set_result is missing.
ToClientFallsThrough(s, p, what) ==
  IF p \in sess[s].pending
  THEN [session |-> [sess[s] EXCEPT !.pending = @ \ {p}, !.sse = Append(@, p)],
        posts |-> [post EXCEPT ![p].future = IF @ = "open" THEN what ELSE @]]
  ELSE [session |-> [sess[s] EXCEPT !.sse = Append(@, p)], posts |-> post]

\* send_client: an answer some POST waits for completes its future, whatever
\* nobody waits for goes to the stream.
ToClient(s, p, what) ==
  IF p \in sess[s].pending
  THEN [session |-> [sess[s] EXCEPT !.pending = @ \ {p}],
        posts |-> [post EXCEPT ![p].future = IF @ = "open" THEN what ELSE @]]
  ELSE [session |-> [sess[s] EXCEPT !.sse = Append(@, p)], posts |-> post]

\* A POST whose gateway is done: a notification is acknowledged, a request
\* waits for its future.
Decided(posts, p) ==
  IF post[p].kind = "request" THEN [posts EXCEPT ![p].pc = "waiting"]
  ELSE [posts EXCEPT ![p] = Replied(@, "accepted")]

\* The gateway forwards, then saves the session; a store that fails turns
\* the POST into a 500 although the call is on its way.
GatewayForwards(p) ==
  LET s == post[p].sess IN
  /\ post[p].pc = "deciding" /\ sess[s].proc = "running"
  /\ upstream' = IF post[p].kind = "request"
                 THEN [upstream EXCEPT ![s] = @ \cup {p}] ELSE upstream
  /\ \/ post' = Decided(post, p) /\ faults' = faults
     \/ EventLeft /\ faults' = faults + 1 /\ post' = Done(p, "error")
  /\ UNCHANGED <<sess, hub, todo, notes, rotations, identityVars>>

\* send raises TransportError: a 500, and the future stays in _pending.
GatewayCannotForward(p) ==
  /\ post[p].pc = "deciding" /\ sess[post[p].sess].proc = "exited"
  /\ post' = Done(p, "error")
  /\ UNCHANGED <<sess, upstream, hub, todo, notes, faults, rotations, identityVars>>

\* The denial completes the future; a store that fails after it still makes
\* the POST a 500.
GatewayDenies(p) ==
  LET s == post[p].sess
      sent == ToClient(s, p, "denial") IN
  /\ post[p].pc = "deciding" /\ post[p].kind = "request"
  /\ sess' = [sess EXCEPT ![s] = sent.session]
  /\ \/ post' = Decided(sent.posts, p) /\ faults' = faults
     \/ EventLeft /\ faults' = faults + 1 /\ post' = Done(p, "error")
  /\ UNCHANGED <<upstream, hub, todo, notes, rotations, identityVars>>

\* The pump reads an answer, also from what a dead process left in the pipe,
\* hands it to the gateway and saves the session; a failure of the store is
\* the end of the pump.
UpstreamAnswers(s, p) ==
  LET sent == ToClient(s, p, "answer") IN
  /\ sess[s].pump = "running" /\ p \in upstream[s]
  /\ upstream' = [upstream EXCEPT ![s] = @ \ {p}]
  /\ post' = sent.posts
  /\ \/ sess' = [sess EXCEPT ![s] = sent.session] /\ faults' = faults
     \/ /\ EventLeft /\ faults' = faults + 1
        /\ sess' = [sess EXCEPT ![s] = [sent.session EXCEPT !.pump = "failed"]]
  /\ UNCHANGED <<hub, todo, notes, rotations, identityVars>>

UpstreamNotifies(s) ==
  /\ sess[s].pump = "running" /\ EventLeft
  /\ notes' = notes + 1
  /\ sess' = [sess EXCEPT ![s].sse = Append(@, Note)]
  /\ UNCHANGED <<post, upstream, hub, todo, faults, rotations, identityVars>>

\* sse_events: a frame, after which a closed session ends the stream; the end
\* of a stream of a closed session without one; the client hangs up.
StreamYields(s) ==
  /\ sess[s].streams > 0 /\ sess[s].sse # <<>>
  /\ sess' = [sess EXCEPT ![s].sse = Tail(@),
                          ![s].streams = IF sess[s].closed THEN 0 ELSE @]
  /\ UNCHANGED <<post, upstream, hub, todo, notes, faults, rotations, identityVars>>

StreamEnds(s) ==
  /\ sess[s].streams > 0 /\ sess[s].closed
  /\ sess' = [sess EXCEPT ![s].streams = 0]
  /\ UNCHANGED <<post, upstream, hub, todo, notes, faults, rotations, identityVars>>

StreamClientLeaves(s) ==
  /\ sess[s].streams > 0
  /\ sess' = [sess EXCEPT ![s].streams = 0]
  /\ UNCHANGED <<post, upstream, hub, todo, notes, faults, rotations, identityVars>>

\* Mutant of Timeout: the future is abandoned but stays in _pending.
TimeoutForgetsPending(p) ==
  /\ post[p].pc = "waiting" /\ post[p].future # "cancelled"
  /\ post' = Done(p, "timeout")
  /\ UNCHANGED <<sess, upstream, hub, todo, notes, faults, rotations, identityVars>>

\* Mutant of Timeout: the deadline runs only while the upstream does.
TimeoutNeedsUpstream(p) ==
  LET s == post[p].sess IN
  /\ post[p].pc = "waiting" /\ post[p].future # "cancelled" /\ sess[s].proc = "running"
  /\ post' = Done(p, "timeout")
  /\ sess' = [sess EXCEPT ![s].pending = @ \ {p}]
  /\ UNCHANGED <<upstream, hub, todo, notes, faults, rotations, identityVars>>

\* wait_for: the deadline may win even over an answer that is already there.
Timeout(p) ==
  LET s == post[p].sess IN
  /\ post[p].pc = "waiting" /\ post[p].future # "cancelled"
  /\ post' = Done(p, "timeout")
  /\ sess' = [sess EXCEPT ![s].pending = @ \ {p}]
  /\ UNCHANGED <<upstream, hub, todo, notes, faults, rotations, identityVars>>

Resume(p) ==
  /\ post[p].pc = "waiting" /\ post[p].future \notin {"none", "open"}
  /\ post' = Done(p, IF post[p].future = "cancelled" THEN "aborted" ELSE post[p].future)
  /\ UNCHANGED <<sess, upstream, hub, todo, notes, faults, rotations, identityVars>>

-----------------------------------------------------------------------------
(* The end of an upstream *)

ProcessExits(s) ==
  /\ sess[s].proc = "running"
  /\ sess' = [sess EXCEPT ![s].proc = "exited"]
  /\ UNCHANGED <<post, upstream, hub, todo, notes, faults, rotations, identityVars>>

\* Mutant of PumpEnds: reported at the frame over the limit and at the end.
PumpEndsTwice(s) ==
  /\ sess[s].pump = "running"
  /\ sess' = [sess EXCEPT ![s].pump = "ended", ![s].closed = TRUE, ![s].exits = @ + 2]
  /\ UNCHANGED <<post, upstream, hub, todo, notes, faults, rotations, identityVars>>

\* _on_upstream_exit: at the end of the stream, or at a frame over the limit,
\* which leaves the process running.  The session stays registered.
PumpEnds(s) ==
  /\ sess[s].pump = "running"
  /\ sess' = [sess EXCEPT ![s].pump = "ended", ![s].closed = TRUE, ![s].exits = @ + 1]
  /\ UNCHANGED <<post, upstream, hub, todo, notes, faults, rotations, identityVars>>

\* close(), up to the wait for the process: nobody waits any more, the pump
\* is cancelled.  A pump that died of an exception raises it here again.
BeginClose(s) ==
  /\ post' = [p \in Posts |-> IF p \in sess[s].pending /\ post[p].future = "open"
                              THEN [post[p] EXCEPT !.future = "cancelled"] ELSE post[p]]
  /\ sess' = [sess EXCEPT ![s].registered = FALSE, ![s].closed = TRUE, ![s].pending = {},
                ![s].pump = IF @ = "running" THEN "cancelled" ELSE @,
                ![s].close = IF sess[s].pump = "failed" THEN "raised" ELSE "terminating"]

Delete(s, c, fetchOK) ==
  /\ hub = "up" /\ sess[s].registered
  /\ LET answer == Resolve(c, fetchOK) IN
     /\ Resolving(answer)
     /\ answer.who # Nobody /\ Owns(s, answer.who)
  /\ BeginClose(s)
  /\ UNCHANGED <<upstream, hub, todo, notes, faults, rotations>>

\* Mutant of CloseEnds: the exit is left for the pump to report.
CloseEndsQuietly(s) ==
  /\ sess[s].close = "terminating"
  /\ sess' = [sess EXCEPT ![s].proc = "exited", ![s].close = "done", ![s].stopped = TRUE]
  /\ UNCHANGED <<post, upstream, hub, todo, notes, faults, rotations, identityVars>>

\* Mutant of CloseEnds: a process that ignores the signal is not killed.
CloseEndsWithoutKill(s) ==
  /\ sess[s].close = "terminating" /\ sess[s].proc = "exited"
  /\ sess' = [sess EXCEPT ![s].close = "done", ![s].stopped = TRUE, ![s].exits = @ + 1]
  /\ UNCHANGED <<post, upstream, hub, todo, notes, faults, rotations, identityVars>>

\* Terminated, or killed after the grace period; the exit and the stop are
\* recorded.
CloseEnds(s) ==
  /\ sess[s].close = "terminating"
  /\ sess' = [sess EXCEPT ![s].proc = "exited", ![s].close = "done", ![s].stopped = TRUE,
                          ![s].exits = @ + 1]
  /\ UNCHANGED <<post, upstream, hub, todo, notes, faults, rotations, identityVars>>

-----------------------------------------------------------------------------
(* The server stops: no new request, then (the lifespan hook) every        *)
(* session is closed, one after the other.                                 *)

StopServing ==
  /\ hub = "up" /\ hub' = "draining"
  /\ UNCHANGED <<sess, post, upstream, todo, notes, faults, rotations, identityVars>>

\* Mutant of ShutdownAll: a session that is closed already is skipped.
ShutdownSkipsClosed ==
  /\ hub = "draining"
  /\ \A p \in Posts : post[p].pc \in {"idle", "done"}
  /\ \A s \in Sessions : sess[s].streams = 0 /\ sess[s].close # "terminating"
  /\ hub' = "closing"
  /\ todo' = {s \in Sessions : sess[s].registered /\ ~sess[s].closed}
  /\ UNCHANGED <<sess, post, upstream, notes, faults, rotations, identityVars>>

\* The HTTP server (external) runs the hook when no request is open.
ShutdownAll ==
  /\ hub = "draining"
  /\ \A p \in Posts : post[p].pc \in {"idle", "done"}
  /\ \A s \in Sessions : sess[s].streams = 0 /\ sess[s].close # "terminating"
  /\ hub' = "closing"
  /\ todo' = {s \in Sessions : sess[s].registered}
  /\ UNCHANGED <<sess, post, upstream, notes, faults, rotations, identityVars>>

ShutdownNext(s) ==
  /\ hub = "closing" /\ s \in todo
  /\ \A t \in Sessions : sess[t].close # "terminating"
  /\ BeginClose(s)
  /\ todo' = todo \ {s}
  /\ hub' = IF sess[s].pump = "failed" THEN "down" ELSE hub
  /\ UNCHANGED <<upstream, notes, faults, rotations, identityVars>>

ShutdownReturns ==
  /\ hub = "closing" /\ todo = {}
  /\ \A s \in Sessions : sess[s].close # "terminating"
  /\ hub' = "down"
  /\ UNCHANGED <<sess, post, upstream, todo, notes, faults, rotations, identityVars>>

\* The issuer, the clock.
OutsideWorld ==
  /\ EventLeft /\ rotations' = rotations + 1
  /\ Tick \/ (\E k \in Kids : Rotate(k)) \/ (\E c \in Credentials : Expire(c))
  /\ UNCHANGED <<sess, post, upstream, hub, todo, notes, faults>>

-----------------------------------------------------------------------------

Client ==
  \E s \in Sessions, c \in Credentials, fetchOK \in BOOLEAN :
    \/ \E p \in Posts : PostInitialize(p, s, c, fetchOK)
    \/ \E p \in Posts, kind \in {"request", "notification"} : PostMessage(p, s, kind, c, fetchOK)
    \/ OpenStream(s, c, fetchOK)
    \/ Delete(s, c, fetchOK)

GatewayStep(p) == GatewayForwards(p) \/ GatewayCannotForward(p) \/ GatewayDenies(p)

ShutdownStep == ShutdownAll \/ (\E s \in Sessions : ShutdownNext(s)) \/ ShutdownReturns

Terminated == hub = "down" /\ UNCHANGED vars

Next ==
  \/ Client
  \/ \E p \in Posts : GatewayStep(p) \/ Timeout(p) \/ Resume(p)
  \/ \E s \in Sessions, p \in Posts : UpstreamAnswers(s, p)
  \/ \E s \in Sessions :
       \/ UpstreamNotifies(s) \/ StreamYields(s) \/ StreamEnds(s) \/ StreamClientLeaves(s)
       \/ ProcessExits(s) \/ PumpEnds(s) \/ CloseEnds(s)
  \/ StopServing \/ ShutdownStep
  \/ OutsideWorld
  \/ Terminated

Spec == Init /\ [][Next]_vars

\* The event loop runs every ready task, a deadline passes, the grace period
\* of a process ends with a kill, and a client that holds a stream leaves.
Fairness ==
  /\ \A p \in Posts : WF_vars(GatewayStep(p) \/ Timeout(p) \/ Resume(p))
  /\ \A s \in Sessions : WF_vars(CloseEnds(s)) /\ WF_vars(StreamClientLeaves(s))
  /\ WF_vars(ShutdownStep)

FairSpec == Spec /\ Fairness

-----------------------------------------------------------------------------
(* Properties *)

\* A POST q of session x that did not get the answer: it timed out, was cut off
\* by the close of its session, or failed after that close.
WentWithout(q, x) ==
  \/ q.reply \in {"timeout", "aborted"} \/ q.future = "cancelled"
  \/ q.reply = "error" /\ x.pump # "running"

\* An answer reaches its client once: what goes to the stream is a message of
\* the server, or an answer whose POST went without it.
OneDelivery ==
  \A s \in Sessions :
    LET sse == sess[s].sse IN
    /\ \A i, j \in 1..Len(sse) : (sse[i] = sse[j] /\ sse[i] # Note) => i = j
    /\ \A i \in 1..Len(sse) : sse[i] # Note => WentWithout(post[sse[i]], sess[s])

\* _pending holds the POSTs that wait, so a late answer is never taken for
\* one; only a POST the gateway failed (a 500) leaves its entry behind.
PendingMeansWaiting ==
  \A s \in Sessions : \A p \in sess[s].pending :
    /\ post[p].sess = s
    /\ post[p].pc \in {"deciding", "waiting"} \/ post[p].reply = "error"

\* Nobody drives, and nobody waits on, a session of another principal.
OwnerOnly ==
  \A p \in Posts : post[p].who # Nobody =>
    post[p].who.id = sess[post[p].sess].owner.id

\* The exit of an upstream is on the trail of every session that stopped, and
\* it is there twice only if the upstream had ended by itself before.
ExitOnTrail ==
  \A s \in Sessions :
    /\ sess[s].stopped => sess[s].exits >= 1
    /\ sess[s].exits = 2 => sess[s].pump = "ended" /\ sess[s].stopped

\* Every session that exists has an owner, and the gateway decides every POST
\* on it under the roles of the token that opened the session, in the order of
\* the file whatever the order of the groups in the token.  The roles of the
\* POST's own token do not count: they take effect in the next session.
RolesByFileOrder ==
  \A s \in Sessions : sess[s] # Unborn =>
    LET acting == sess[s].owner
        groups == ToSet(acting.from.groups)
        hits == {i \in 1..Len(GroupRoles) : GroupRoles[i][1] \in groups}
        roles == acting.roles IN
    /\ acting # Nobody /\ acting.id = acting.from.sub
    /\ acting.from.scheme = "bearer" =>
         IF hits = {} THEN roles = (IF DefaultRole = NoRole THEN <<>> ELSE <<DefaultRole>>)
         ELSE /\ roles[1] = GroupRoles[Min(hits)][2]
              /\ ToSet(roles) = {GroupRoles[i][2] : i \in hits}
              /\ IsInjective(roles)

\* A request is let in only with a token that really was signed by the key it
\* names, has not expired, and whose key the issuer published less than one
\* cache lifetime ago: a withdrawn key dies with the cache, even when the
\* issuer cannot be reached.
WithdrawnKeyDies ==
  [][ \A p \in Posts :
        LET c == post'[p].cred IN
        (post[p].pc = "idle" /\ post'[p].pc = "deciding" /\ c.scheme = "bearer") =>
          /\ c.signedBy = c.kid /\ c \notin expired
          /\ withdrawn[c.kid] <= TTL + 1 ]_vars

\* As long as the session store did not fail, the server goes down with every
\* process it started ended and its stop recorded.  (shutdown_all, close)
FaultFreeTeardown ==
  (hub = "down" /\ faults = 0) => \A s \in Sessions :
    sess[s] # Unborn => sess[s].proc = "exited" /\ sess[s].stopped

\* No POST waits for its reply, and no shutdown is under way.
AtRest == /\ \A p \in Posts : post[p].pc \in {"idle", "done"}
          /\ hub \in {"up", "down"}


\* Answers and POSTs are paired whatever the timeouts, deletions and late lines:
\* nothing is delivered twice, nothing that no longer waits is paired, and the
\* records of both keep their shape.
\* (_Session.send_client, handle_request, close)
AnswersFindTheirPost == TypeOK /\ OneDelivery /\ PendingMeansWaiting


\* A caller acts on its own sessions only, and in each under the roles the file
\* gave it when it opened the session.
\* (_enforce_session_owner; create; RoleMapping.to_principal)
CallersAreThemselves == OwnerOnly /\ RolesByFileOrder


\* Whichever of a DELETE, the end of the upstream and the shutdown comes first,
\* sessions end with their process gone and their exit on the trail.
\* (_Session.close, _on_upstream_exit; shutdown_all)
TeardownIsComplete == ExitOnTrail /\ FaultFreeTeardown


\* Neither a POST nor the shutdown of the server waits for ever.  A POST is sent
\* once and a server stops once, so being at rest again and again means that
\* every POST got a reply, whether the upstream answers, dies, overruns its
\* frames or the session is deleted under it, and that the shutdown came to its
\* end once streaming clients left.
\* (handle_request, shutdown_all)
NothingHangs == []<>AtRest
=============================================================================
