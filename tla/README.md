# A TLA+ model of the MCP security gateway

`mcp_gateway` is an asyncio program that sits between an AI client and a Model
Context Protocol server.  It reads every JSON-RPC line in both directions, runs
each `tools/call` through a policy pipeline, and either refuses it, forwards it
(perhaps rewritten, scrubbed or after a human has approved), or transforms its
result.  Around that core there is an approval console, an audit spool with a
forwarder to a SIEM, shared session stores and a policy distribution system.

This directory holds TLA+ modules translated from that code, the TLC
configurations that check them on small instances, and TLAPS proofs of what they
say for every instance.  `PROJECT.json` lists components, runs, mutants, findings,
hazards and theorems, and maps every definition to the lines it models.

Run a configuration with `tlc -config gateway_stdio.cfg MCGateway`, check the
proofs of a module with `tlapm GatewayProofs.tla`.

## 1. Inventory

Paths are relative to `src/mcp_gateway/`.

| component | state it keeps | operations | modelled in |
|---|---|---|---|
| enforcement core (`core/`) | `Session`: suspended, history, taint, score, pending; tools/list ids in flight | one handler per client line and per upstream line | `Gateway` |
| action handlers (`policy/actions/`) | none (they write on the `CallContext`) | `on_request` of allow, block, rewrite, redact, quarantine, require_approval | `Gateway` |
| risk engine (`risk/`) | score and events of the session | `record` | `Gateway` |
| taint and sequence policy (`sequence/`) | none; reads history and taint | `check`, `record` | `Gateway` |
| anomaly monitor (`anomaly/`) | the debounce counter | `observe`, forced or not | `Gateway` |
| approval broker and channels (`approvals/`) | none; a deadline per call | `request` | `Gateway` (its outcome), `Approvals` (its inside) |
| console approval queue (`console/approvals.py`) | the parked requests and their futures | `submit`, `wait`, `resolve`, `pending` | `Approvals` |
| audit spool and reader (`audit/spool.py`, `reader.py`) | an append-only file | `emit`, `read_spool` | `AuditForwarder` |
| audit forwarder (`audit/forwarder.py`) | the watermark file | `pump_once`, `drain`, `run` | `AuditForwarder` |
| stdio transport (`transports/stdio.py`) | the subprocess and two pumps | run, stop | its ordering, `Gateway` with `Sequential = TRUE` |
| streamable HTTP transport (`transports/streamable_http.py`, `upstream.py`) | sessions, futures per request id, SSE queues | POST, GET, DELETE, response timeout, upstream exit, shutdown | `HttpSession`; what the gateway makes of concurrent POSTs in `Gateway` with `Sequential = FALSE` |
| session stores (`state/`) | a session per key, in memory or in Redis | `get_or_create`, `save`, expiry | `SessionStore` |
| audit index (`audit/index.py`, `state/postgres.py`) | rows, roll-up, read offset | catch up, rebuild, query | `AuditIndex` |
| policy bundles (`policy/bundle.py`, `signing.py`, `bundle_store.py`) | bundle files, the current and the last known good pointer | build, sign, install, roll back, start from the store | `BundleStore` |
| policy engine (`policy/loader.py`, `merge.py`, `engine.py`, `matcher.py`) | none | validate, merge, compile, evaluate | `Policy` |
| policy tooling (`policy/diff.py`, `backtest.py`, `testing.py`, `ci.py`) | none | diff, backtest, golden cases, the CI gate | `PolicyTools` |
| redaction engine (`redaction/engine.py`, `spans.py`, `operators/`) | none | resolve overlaps, replace, walk a payload | `Redaction` |
| token vault (`redaction/vault.py`) | the wrapped key and the tokens, in SQLite | open, tokenise, detokenise | `TokenVault` |
| identity (`identity/`) | the JWKS cache | resolve, refresh | `Identity` |
| console API and auth (`console/`) | none but its secret: cookies carry the login | login, list, resolve, live feed | `ConsoleAuth`, `AuditIndex`, `Approvals`, composed in `Console` |
| central configuration (`central/config.py`, `identity/config.py`) | none | load, assemble the hubs | `Central` |
| command line (`cli/`) | none | the commands that start or gate something | with the part they drive |
| detectors and profiles (`redaction/profiles.py`, `spec.py`) | none | floors and operators of a profile | `Redaction`; what a detector recognises is left open |
| SIEM sinks, connectors, observability | - | - | not modelled (see section 8) |

**How they interact.**  A transport feeds lines to the gateway and writes what it
returns.  Under stdio one pump awaits the handler of each client line before it
reads the next, while a second pump handles upstream lines; over HTTP every POST
is a task of its own, all of them sharing one `SecurityGateway` and one `Session`.
The pipeline calls the broker, which calls a channel, which may POST to the
console in another process and be kept waiting.  The gateway calls the anomaly
monitor after a decision and the redaction service, in a worker thread, on a
result.  Everything of consequence is written to the spool, which the forwarder
and the index read from other processes.  In central mode one server hosts a hub
of sessions per upstream, resolves the caller of every request, and may share its
sessions with other replicas through Redis and its token vault with other
processes through one SQLite file.  What a gateway enforces is compiled from
policy files or from a signed bundle that an operator installs in a store.

**What is hard.**  Asyncio code is interrupted at its awaits only, but those that
suspend (a human, an anomaly backend, a worker thread) separate the reading of
session state from its use.  Approvals run against three independent clocks.  A
response is matched with its call by an id that the client chooses.  The spool is
read while it is written, and both processes may die anywhere.  A session's
futures, its stream, its upstream process and its teardown race each other.  Stores
are shared by processes that each keep a copy or a transaction of their own.
Installing a bundle and rolling one back are several writes.  Policies are merged,
matched and diffed by rules that interact.  `PROJECT.json`
lists these hazards line by line, with the property that covers each of them.

## 2. Modules

| module | what it is |
|---|---|
| `Gateway` | the enforcement core, one session, its client, its upstream |
| `MCGateway` | two policies, a risk table and symmetry for TLC |
| `GatewayProofs` | type correctness, finality of refusals, accounting of suspensions; the trail against the wire, what gets through after a check, protection of results |
| `ApprovalContract` | abstract: what the approval path promises the pipeline |
| `Approvals` | broker, HTTP channel, console queue and browser; refines the contract |
| `MCApprovals` | calls of different sessions that carry the same wire id |
| `ApprovalsProofs` | single answers, and the refinement |
| `AuditForwarder` | spool writer, reader and forwarder |
| `MCAuditForwarder` | `AuditForwarder` for TLC |
| `AuditForwarderProofs` | at-least-once delivery, no holes, no torn lines |
| `Identity` | credentials, the JWKS cache, role mapping |
| `HttpSession` | the streamable HTTP transport, on top of `Identity` |
| `MCHttpSession` | one key, a caller in two groups and a second token of hers with one of them, a service, a forged token |
| `HttpSessionProofs` | pairing of answers, teardown, session owners and their roles, withdrawn keys |
| `BundleStore` | bundles, the store, the operators' commands, a gateway that starts |
| `MCBundleStore` | two texts, one of which does not compile, two versions; files that parse, do not parse, or cannot be read |
| `BundleStoreProofs` | type correctness, only signed policies run, the store never goes dark and heals, install makes live |
| `AuditIndex` | the read model of the spool, its catch-ups, and the live feed |
| `ConsoleAuth` | users, cookies, the checks at the start of a console |
| `Console` | composition: `AuditIndex` with `ConsoleAuth` |
| `MCConsole` | users files, secrets and tokens, an empty one too, for TLC |
| `ConsoleProofs` | an index without holes, exact roll-ups, pages that tile, the feed in order, the guarded queue |
| `SessionStore` | one session in Redis, several replicas |
| `TokenVault` | one encrypted vault, several processes |
| `SharedState` | composition: processes that hold both and lose both when they die |
| `MCSharedState` | symmetry for TLC |
| `SharedStateProofs` | marks survive a takeover, tokens reverse, the lock needs a race |
| `Policy` | the policy engine as operators |
| `PolicyTools` | diff, backtest, goldens and CI, over `Policy` |
| `Central` | configuration of central mode, over `PolicyTools` |
| `Redaction` | spans, operators and the walk as operators |
| `Algorithms` | a machine that enumerates their inputs, and the reference definitions |
| `MCAlgorithms` | rules, targets, claims, payloads and files for TLC |
| `AlgorithmsProofs` | merge, match, diff, backtest, the CI gate and central mode, for every input |

A definition that a comment calls a *mutant of* another is that definition with a
plausible bug.  It is not part of the model: it documents which bug the property
paired with it in `PROJECT.json` would find.

### Gateway

State.  `suspended`, `history`, `taint_origin`, `risk_score`, `risk_events` and
`pending` are the fields of `Session`; `pending_tools_list` and `since_last` belong
to the gateway and to the anomaly monitor.  `call[c]` is the progress of request
`c`: `phase` is the await it is suspended on, `stage` what decided it, `out` the
form its arguments are sent in.  `scanning` is the one response in the redaction
thread.  `sent`, `replies` and `audit` are the wire to the upstream, the wire to the
client and the trail.

Granularity.  A handler runs without interruption up to the next await that
really suspends.  There are three: the approval (`ToolCall` / `ApprovalReturns`), the
anomaly backend (`ToolCall` or `ApprovalReturns` / `AnomalyReturns`), the redaction
thread (`UpstreamResponse` / `RedactionReturns`).  The remaining awaits, on writing a
line to a pipe and on the audit sink, do not suspend in a way that reorders anything
the properties see: writes are queued in program order, and the spool is written
synchronously.

The pipeline is a set-valued function: each stage yields the outcomes it may
return, an outcome being a `StageOutcome` with what the handler left on the
`CallContext`.  `Refuse`, `ForwardUnchecked` and `Forward` are the three ends of
`_handle_tool_call`.  `CrashStages` and the `crash` field of a request inject an
exception into a stage, which the pipeline turns into a denial tagged
`internal_error` and the posture may turn into a forward.

Abstractions.  A tool's effective action is a constant of the session
(`ActionOf`, `ThenOf`); glob patterns are sets of tools; arguments are `clean`, `pii`
or `violating`; a scan finds few entities, many, or raises; a backend's verdict is
any of `Severities`.  The heuristic anomaly backend answers without suspending,
which is the behaviour in which `AnomalyReturns` follows at once.  The recorder
swallows what a sink raises, so what is said of the trail assumes a working spool.

### Approvals and ApprovalContract

The gateway's worker thread (`conn`), the console's queue (`pending`, `future`,
`waiter`, `response`) and the approver's browser (`screen`) are separate parties.
`Deadline`, `ChannelFails` and `WaitExpires` are the broker's deadline, the socket
timeout (or any other failure of the exchange) and the console's timeout; they are
not ordered.  A cancelled wait leaves the thread's POST open, so the console may
answer a gateway that no longer listens.  `WaitExpires` and `WaitReturns` are two
steps because a timer fires before the coroutine it wakes runs again, and `Resolve`
may come between.  A restart of the console empties the queue; approval ids are
minted fresh, so a list on a stale screen names either the same call or nothing.

`ApprovalContract` has two variables and four actions.  `Approvals` implements it
with `status <- resolution` and `consents <-` the calls that somebody who was
shown that very call approved.

### AuditForwarder

Offsets count complete lines.  `EmitBegin` / `EmitEnd` are an append seen by a
concurrent reader; `GatewayCrash(torn)` dies between them, with or without bytes
left behind, and the next event then shares the torn line.  `PumpChunk`, `Deliver`,
`Store` are the steps of `pump_once` a crash may fall between; `DeliverFails` may
have been accepted by the sink all the same.  `WatermarkLost` is a file that is
missing or does not parse.  `Once` tells `drain()` from `run()`.

### HttpSession and Identity

A step is what runs between two awaits.  `sess[s]` is `_Session` with its
`SubprocessUpstream` and its place in the hub (registered, closed, pending futures,
the SSE queue, process, pump, how far `close()` is); `post[p]` is one POST.  What
the gateway decides is three actions (`GatewayForwards`, `GatewayDenies`,
`GatewayCannotForward`), because `Gateway` models it.  `ToClient` is `send_client`: a line
completes the future of its id or goes to the stream.  `Timeout`, `Resume`, `Delete`,
`PumpEnds` and `ShutdownAll` race each other as the code lets them.  A client numbers
its requests afresh, so an id is its POST.  Resolving a credential is synchronous and
therefore part of the step that starts a request.  The principal that opens a session is
bound to its gateway (`sess[s].owner`), and every call of the session is decided under it; a
later request is only asked to be of the same subject, so the roles of a later token count
for the next session it opens.  A denial ends in a 500 when the session store fails
afterwards, as a forward does.  A token is accepted by the key that
is cached, the clock is the age of the cache, and `withdrawn` counts how long ago the
issuer stopped publishing a key.

### BundleStore

One atomic file write is one step (`_atomic_write` writes a temporary file and
renames it), so `install` is up to six steps and `rollback` four, and
`OperatorCrash` may fall between any two.  Two operators may overlap.  The hash of a
text is the text; a signature is the key and the manifest it covers.  `Tamper` makes
a bundle file hold an altered bundle, garbage, nothing, or what cannot be read at all
(`Unreadable`: a byte that is not UTF-8, a file without permission).  `load_bundle` turns a missing
file and one that is not JSON into a `BundleError`; anything else raises through `current()`
(`Raises`), and ends the command or the gateway that called it (`Crash`) without a fallback and
without an event.  A gateway resolves the store to current, then last known good, verifies,
compiles, or refuses to start.

### AuditIndex, ConsoleAuth and Console

A line's offset is its position.  Under SQLite an ingest is one transaction; under
Postgres, with autocommit, the insert, the select and the upsert of every event are
steps of their own.  A request reads the watermark, reads the spool, ingests and
stores the new watermark, and may die after each.  The feed polls the spool with an
exclusive cursor.  In `ConsoleAuth` a MAC is the secret and the body; a browser may
present any cookie it was given or an edited one.  `Console` opens a feed only with a
good cookie and ends it with the console.

### SessionStore, TokenVault and SharedState

A replica loads the session once, judges lines on its copy and writes all of it
back (`Bind`, `Create`, `Handle`, `Persist`).  `to_dict` leaves out the calls in
flight.  The vault is used through SQLite's rules as Python's driver applies them:
an INSERT opens a transaction that only `commit()` ends, also when it fails.

### Policy, PolicyTools, Central, Redaction, Algorithms

The algorithms are operators that keep the code's names.  A glob is the set of names
it matches and its specificity; a regular expression the set of values it matches; a
rule is a function on the fields it names, in which a field that is there and null has the
value `Unset` and one that is absent is outside the domain; a text is the sequence of its own offsets,
so that an output shows what survived and where.  `Algorithms` grows one input at a
time, and its invariants compare what the operators compute with what a reader of the
documentation would expect, stated without the algorithm.  A loop of the code (over layers,
over the rules of a layer, over the globs of a matcher, over the spans of a text) is a recursive
function of the number of its turns, `_walk` one of the JSON value it is given, and Python's sort
the permutation that the order of its key describes (`Sorted`).

Null fields take the paths the code gives them.  A null action passes the loader, takes the
place of an earlier action and is decided with; null roles make the merge (`MergeRaises`) or the
compilation (`CompileFails`) raise, as null constraints and rewrites do.  `PolicyError` stands
for every such end of a load.  A revision whose load raises something else than a `GatewayError`
ends `policy diff` with a traceback; such revisions are not among the inputs of the diff.  The
surface of a diff is built pattern by pattern, each glob being matched against what is shown so
far (`ShowAll`).  `Recorded` is what a gateway writes for a decided call, without the role when
it is refused; `Synthetic` is what `policy ci` writes in its place, with the role.  In `Central`
a token is its audience and algorithm, an identity file's lists may be empty, and a digest of
the right length need not be one.

## 3. Runs

| run | instance | shows |
|---|---|---|
| `gateway_stdio` | 3 requests, 2 ids, Office policy | protected data stays protected; at most one call overtakes a suspension; the trail shows the live score |
| `gateway_http` | 3 concurrent requests, Shop policy, a negative weight | refusals are final, suspensions are recorded once, order rules hold on the wire, the trail matches the wire |
| `gateway_open` | 2 concurrent requests, every posture open, any stage may raise, fairness | only unexpected errors go through unchecked; released results are on the record; every request is answered |
| `approvals_queue` | 2 calls with one wire id, 1 restart, fairness | the contract, single answers; every call is decided, the queue drains |
| `forwarder_run` | 5 events, batches of 2, one dropped by the mapper, 3 faults, fairness | at-least-once, no holes, whole events only; everything arrives |
| `http_session` | 1 session, 2 POSTs, 2 outside events, 4 credentials, two of one subject, fairness | answers are delivered once; nobody uses another's session, and its roles are those its opener had; the exit is on the trail; withdrawn keys die with the cache; every POST is answered; shutdown ends |
| `bundle_store` | 2 operators, 2 versions, 1 changed file | only signed policies run; a killed or overlapping command never leaves the store dark; one bad file is survived unless it is the live one and cannot be read; an install that returns is live |
| `console` | 3 requests, 2 or 3 lines, 1 rebuild, 1 crash, three backends; 8 command lines, 2 starts, 2 logins | the index has no holes and counts once; pages tile; the feed is in order; approvers are recent and of this secret; strangers cannot submit |
| `shared_state` | 2 processes, 2 values, 2 key-encryption keys | a saved taint or suspension survives a takeover; every token can be reversed; only an insert race leaves a vault locked |
| `algorithms` | 3 rules in 3 layers, with null actions and roles; 2 revisions of 2 rules over a name and two globs; 3 spans on 4 characters; 3 upstreams, 12 identity files | policy engine, diff, backtest, CI, redaction and the central service agree with their references |
| `gateway_id_reuse`, `forwarder_glued` | as above, with the assumption dropped | see section 5 |

A run checks some of its properties as a conjunction of named parts, each with a
comment of its own and most with a mutant of their own:

| checked | parts |
|---|---|
| `ChecksHoldOnTheWire` | `SequenceRespected`, `StragglersWereApproved` |
| `FailOpenIsBounded` | `PolicyDenialsHold`, `ProtectedDataStaysProtected` |
| `ApprovalsSettle` | `EveryCallIsDecided`, `QueueDrains` |
| `StartsOrExplains` | `HealsOneFile`, `FailureIsExplained` |
| `AnswersFindTheirPost` | `TypeOK`, `OneDelivery`, `PendingMeansWaiting` |
| `CallersAreThemselves` | `OwnerOnly`, `RolesByFileOrder` |
| `TeardownIsComplete` | `ExitOnTrail`, `FaultFreeTeardown` |
| `RequestSeesEachOnce` | `TypeOK`, `RequestSeesAll`, `PagesTile` |
| `QueueIsGuarded` | `ApproverAuthority`, `StrangersCannotSubmit` |
| `LaterLayersWin` | `LastWriterWins`, `SettingsOfTheLastLayer` |
| `EveryNameIsDecided` | `MostSpecificRuleDecides`, `OnlyKnownActions` |
| `ToolsTellTheTruth` | `DiffIsExact`, `BacktestAgreesWithDiff` |
| `RedactionIsExact` | `NoValueSurvivesWhole`, `RestIsUntouched`, `WalkReachesEveryString` |
| `CentralServesAsConfigured` | `EndpointsServeTheirOwn`, `IdentityGuardsEveryEndpoint` |

The type invariants of `Approvals`, `AuditForwarder` and `BundleStore` are part of what is
proved (section 6).  The run's spools are far shorter than
the 1000 events to which `query_events` cuts a page; the theorem on `PagesTile` has no such
bound.

**Why the bounds are enough.**  In `Gateway` an interleaving needs a call that is
suspended, a call that changes what it read, and a call that shows the difference:
three requests.  Two ids let ids be reused after an answer, and the weights are
such that two or three events suspend the session, so that the gate, the second
event above the threshold and the way back below it (a negative weight) all occur.
The Office policy has a source, a sink that waits for a human and whose result is
redacted, a redact tool and a blocked one; the Shop policy has the remaining actions
and a sequence rule.  In `Approvals` two calls with one wire id are enough for an answer to reach the wrong
call, and one restart for a list to outlive its queue; the theorems carry the safety
properties to any number of calls and restarts.  In
`AuditForwarder` five events with batches of two make a full batch, a batch that is
partly dropped, a short one, and a bad line in any position; `Once = TRUE` (`drain()`)
is covered by the theorems only.  In `HttpSession` two POSTs are enough for one to be
answered while another times out, and two outside events for a rotation and an expiry, or
a notification and a store failure.  Sessions of a hub share nothing but its
shutdown, which closes them one after the other; a single session is checked.  In
`BundleStore` two versions make a displaced bundle, a fallback and a re-install, and two
operators every overlap of two commands; the theorems carry the two main properties to
any number.  In `Console` three requests let two catch-ups and a rebuild overlap, or a
fourth look follow; the spool has three lines where the index is watched and two where
the feed and the users are (the feed shares only the spool with the index, and no request of
the index depends on who is logged in, so users move in the behaviours of backend "none").  In
`SharedState` two processes are a takeover and a race, and two values tell a lost row
from a lost key.  Three rules make two ties in a row; three spans an overlap chain.

Two assumptions limit what `Redaction` and `TokenVault` say: spans are not empty (a
custom recogniser could match the empty string), and the 48 bits of a MAC that reach a
token are distinct for distinct values.

`CHECK_DEADLOCK FALSE` appears where the run may really stop: the clients' requests
have all been answered, `drain()` has returned, every console request was made, or an
input cannot grow.  The other runs are checked for deadlock.

## 4. Fairness

- `Gateway`: an approval returns because the broker's deadline bounds it
  (`asyncio.wait_for`); an anomaly look returns because its client has a timeout
  and `observe` swallows what it raises; a scan returns because of its budget; and
  the upstream answers, which is an assumption on the upstream that
  `RequestsAreAnswered` needs (over HTTP the response timeout would answer in its
  place).  All are weak fairness: once enabled, nothing disables them but themselves.
  Nothing is assumed of clients.
- `Approvals`: weak fairness of the two timers and of the event loop running a
  coroutine that is ready.  Nothing is assumed of the approver, the network or the
  socket timeout.
- `AuditForwarder`: `run()` polls for ever (weak fairness of a pump and of storing),
  and a sink that is tried again and again accepts in the end (strong fairness of
  `Deliver`, because refusals disable it in between).

- `HttpSession`: weak fairness of the event loop running a task that is ready, of the response
  timeout (for a POST: of whichever of its steps is ready), of the end of a close (the process
  is killed after its grace period) and of the shutdown; and of a client that holds a stream
  leaving it, which the server's graceful shutdown waits for and `NothingHangs` needs.  Nothing
  is assumed of the upstream: POSTs are replied to when it never answers.
- The remaining modules state safety only.

## 5. Where the code and its documentation disagree

Two runs are expected to be violated.  Each states what a comment or docstring
says, and TLC's trace is the behaviour of the code that differs.

| run | says | does |
|---|---|---|
| `gateway_id_reuse` | reusing an id in flight is safe: nothing is released uninspected | a redact result is delivered raw, because the entry it needed was taken by the other response |
| `forwarder_glued` | never drop an event | the first event after a crash inside `emit` is glued to the torn line and unreadable |

Other differences were met while modelling.  They are in the models as the code has
them, and the properties are stated so that they say what does hold.

- `core/pipeline.py:132`, `:65`: a call that waits for a human was checked for taint and
  suspension before it waited; once approved it goes through in a session that has since
  been tainted or suspended.
- `core/gateway.py:193`: the forced anomaly look after a gate refusal can still add to
  the score of a session that is cut off.
- `console/approvals.py:7`: the console confirms an approval of a call that the gateway has
  denied at its own deadline.
- `audit/forwarder.py:191`: a batch that the mapper drops whole ends `drain()` before it is
  caught up.
- `transports/streamable_http.py:146`: "further requests fail closed" after an overrun; a
  request that was accepted earlier is still forwarded to, and times out on, a process
  nobody reads.
- `transports/upstream.py:91`, `streamable_http.py:222`: when a pump died of a failing session
  store, `shutdown()` raises on awaiting it, and the teardown of that session and the ones
  after it does not happen.  `FaultFreeTeardown` says that nothing else has this effect.
- `transports/streamable_http.py:194`, `:325`: a session is decided under the roles its opener had.
  A later request of the same subject with other groups is accepted and acts under the old roles
  until a new session is opened (`RolesByFileOrder` is about the opener).
- `transports/streamable_http.py:301`: a revoked token is refused at once only if its key is
  not cached; otherwise within the cache's lifetime (`WithdrawnKeyDies`).
- `state/redis.py:5`: "every replica reads the same truth"; two replicas that hold a session
  at once overwrite each other's marks.  `TakeoverKeepsMarks` holds without the overlap.  Over HTTP
  the server mints session ids, so a takeover needs the gateway's `session_id` parameter.
- `audit/index.py:6`: the index can be rebuilt "at any time"; a rebuild that overlaps a
  catch-up, or dies, may leave holes until the next one.  On Postgres, where every statement commits,
  so may any two catch-ups that overlap or one that dies (`state/postgres.py:187`).  `NothingSkipped`
  and `RollUpIsExact` are stated where none of this happened (`raced`).
- `policy/bundle_store.py:134`: a version is immutable by never being rewritten, so a second
  bundle under an old version, or a repaired file, is not stored by `install`.
- `policy/bundle.py`: a policy that parses and does not compile can be built and signed;
  the gateway that starts from it exits without an event (`FailureIsExplained`).
- `policy/bundle_store.py:20`: a live bundle found corrupt on disk ("bit-rot, a botched manual edit")
  "self-heals to LKG".  `load_bundle` (`bundle.py:321`) catches a missing file and bad JSON only, and
  `:234` only a `BundleError`: a file with a byte that is not UTF-8, or one that may not be read, raises
  out of `current()`, and the gateway ends with neither bundle and no event.  `HealsOneFile` asks that
  the live file can be read, and `FailureIsExplained` lists the silent end.
- `core/pipeline.py:162`: "The loader validates actions"; `loader.py:217` and `:229` look at an action or
  `then` only when it is not null, and `engine.py:102` only asks whether the key is there.  `action: null`
  takes away the action an earlier layer gave, and the call is refused for want of a handler
  (`OnlyKnownActions` is exact about it).
- `policy/diff.py:281`: "nothing concrete matches it - show the pattern itself"; each glob is matched
  against the set the loop is adding patterns to.  With the rules `a.*` and `*` and no concrete tool,
  `*` matches the pattern `a.*` and is not shown: its change from require_approval to allow is
  "unchanged" and passes `--fail-on-crossing`.  `DiffIsExact` is about the surface as it is.
- `policy/backtest.py:11`: "tool-name matching + role overlay" are replayed; `core/gateway.py:201` records
  a refused call without its role, so a denial that the new policy lifts for that role only does not
  flip.  `BacktestAgreesWithDiff` excepts refused calls of a role the new policy treats apart.
- `identity/config.py:29`: a config "that authenticates nobody is a mistake"; `audience: []` (`:105`),
  `algorithms: []` and a 64-character digest that is not hexadecimal (`:157`) load, and the service
  refuses every credential.  `IdentityGuardsEveryEndpoint` says that it never opens.
- `policy/diff.py:185`: `clean` looks at the surface of tools and roles, so a changed default
  action of an unlisted tool is reported by the pack's notes and not by it.
- `policy/loader.py:234`, `merge.py:60`, `engine.py:109`: null `constraints`, `rewrites`, `roles` or
  `weights` pass the loader and raise TypeError or AttributeError later, not the PolicyError callers
  catch; no policy is enforced either way.
- `policy/ci.py:393`: "the audit events a gateway would have recorded" have a role also when the
  call is refused, so the replay check of CI is cleaner than a replay of a gateway's trail.
- `policy/matcher.py:9`: ties go to the later rule; a glob that a later layer restates keeps
  the place of its first declaration.
- `cli` `policy backtest` counts redact as a denial (the bare `denying_actions`), unlike the
  diff and CI, which `backtest.py:100` says share one set.
- `policy/ci.py:338`: an inventory or tests file that does not load is caught by one check
  and raises in the next.
- `redaction/engine.py:100`: a denylisted literal is "always redacted", but for the last
  characters a partial mask of a stronger span keeps; the characters of a span that loses
  an overlap and are not under the winner stay (`NoValueSurvivesWhole` is exact about both);
  a sensitive key redacts a string value only.
- `redaction/vault.py:169`: an INSERT that fails is not rolled back, so the connection keeps
  its transaction and, after a lost race, the write lock.
- `central/config.py:5`: "never a silently degraded service"; an unknown or empty `identity`
  key in gateway.yaml starts a service without authentication, and a role mapping without
  an `oidc` section is not looked at; a `state` that is not a mapping (`:109`) starts a service whose
  sessions are in memory.
- `cli` `_run_console_serve` (`:1120`) and `console/app.py:254`: a token variable that is set to the
  empty string counts as a token, so a console on a network host starts and admits every gateway
  that sends an empty header.  `StrangersCannotSubmit` takes the operator at his word: who sends the
  token in force, empty or not, is no stranger.

The passing runs say how far these go.  `AtMostOneStraggler` and
`StragglersWereApproved` bound what gets through after a suspension: calls a human
was asked about before it, and over stdio one of them.  `gateway_http` shows that
`SequenceRespected` holds once no sink and no forbidden tool needs an approval, and
`gateway_stdio` that protected data stays protected as long as ids are not reused in
flight.

Some hazards have no property, because the code does not exclude them: a call approved after the
session was tainted, two replicas that hold one session, a pump that died of a store failure, a
rebuild or a Postgres catch-up that is overlapped or killed, a second bundle under an old version.
They are behaviours of the models, and the properties beside them say that nothing else
has their effect.  `LaterLayersWin` leaves out the default action and the two risk thresholds,
which are single assignments in `merge_layers`.

## 6. What is proved

The proofs hold for every value of the constants that satisfies the named assumptions.
`ConstantsAssumption` (of `Gateway` and of `BundleStore`), `ApprovalsAssumption`,
`BoundsAssumption`, `SessionAssumption`, `CredentialsAssumption`, `IndexAssumption`,
`CommandsAssumption`, `SessAssumption`, `VaultAssumption`, `NamesAssumption`,
`InputsAssumption`, `TargetsAssumption`, `IdentityAssumption`, `SpansAssumption` and
`JsonAssumption` only give the constants their types (documents are sequences of layers, layers
have sequences of rules, goldens and inventories are finite, a span is not empty and lies in the
text, a JSON value nests no deeper than `MaxDepth`, which Python's recursion limit bounds for
parser and `_walk` alike) and separate the sentinels (`NoCall`, `NoKey`, `Nobody`, `NoSession`,
`Unset`, `Broken`, ...) from the values.  Documents may be as wrong as files can be: that a rule
has known fields and actions is what validation is for, and is not assumed.  In particular the
weights are arbitrary integers, ids may be reused, and every posture, policy and number of
calls, requests, replicas and operators is covered.  Where a theorem needs more, the hypothesis
is in its statement:

| hypothesis | theorem | why the code needs it |
|---|---|---|
| `~IdReuse` | `ProtectionHolds`, `FailOpenReach` | `gateway_id_reuse` shows what happens without it |
| `NoOrderedApproval` | `ChecksReachTheWire` | an approved call is not checked again (section 5) |
| `Sequential` | `OneStragglerAtMost` | it is about the stdio pump |
| `OneFilePerVersion` | `StoreHeals` (whose `HealsOneFile` also asks that the live file can be read, section 5) | `_safe` may map two versions to one file name |
| `OneFilePerRelease` | `InstalledIsLive` | a file that exists is left as it is (section 5) |

Each hypothesis holds in the configuration whose run checks the same property.

- `GatewayProofs`.  `TypeCorrect`: `TypeOK`, including that the debounce counter stays
  below its limit.  `RefusalIsFinal`: a refused call is not on the wire, before or
  after.  `RefusedNeverSent` alone is not inductive, since it does not say that a call
  waiting for a human has neither been sent nor refused; `DecidedOnce` adds that a
  call in phase new or approval is undecided, and that what was sent or refused was
  decided by a stage of the matching kind.  `SuspensionIsAccounted`: the score, the
  flag and the number of suspension records agree.  It is inductive with `TypeOK`; the
  work is in lemmas on what appending one or two records does to the set of
  suspension records.
  The rest is about what goes through.  First, what every stage's outcome says about the call it
  decides (`Waits`, `Passes`, `Raised`), and that a step writes nothing or one call that
  was decided just now (`WireStep`): this gives `PolicyDenialsAreFinal`.  Then, what a step
  adds to the trail (`TrailStep`: records that let nothing through, then the one of the
  call it writes): `TrailShowsTheScore` and, with `RecordsAreDecided` (a call that is still
  to be written has no record), `TrailIsTheWire`.  `ChecksReachTheWire` needs that the
  session remembers every call the pipeline forwarded (`HistoryRemembers`);
  `OneStragglerAtMost` that one handler is between two steps at a time (`OneAtATime`) and
  that a call that waits finds no straggler before it (`AskedFirst`).  For
  `ProtectionHolds` the pending table and the calls that await a response are paired
  (`Pairs`: an id in flight names one request, the table has its entry with the
  disposition of its policy, a scan is of the call it answers); `FailOpenReach` joins it
  with the denials.
- `ApprovalsProofs`.  The invariant says that an approval id names one request in the
  queue and on every screen (`IdsName`), that a request is parked once and after it
  was asked (`ParkedOnce`), and that futures and responses say only what somebody
  signed (`AnswersSigned`).  `AnswersAreSingle` and `ApprovalsImplementContract` follow:
  every step of `Approvals` is a step of the contract or leaves it alone.
- `AuditForwarderProofs`.  `SpoolInOrder` says that the spool holds the events in the
  order of their emit, each at most once; `ChunkInHand` that the batch in hand and
  what the sink has are all there is up to the new watermark.  With the three
  properties themselves they are inductive: `AtLeastOnce`, `DeliveredWithoutHoles`,
  `TornLinesStayHome`.
- `BundleStoreProofs`.  `BundleTrust` says that a running gateway enforces a release,
  `BundleNeverDark` that the live pointer of a store whose files were left alone names a
  bundle that loads, `BundleTypeOK` that the state keeps its shape.  The invariant adds that,
  as long as nothing was changed, the files hold releases, and both pointers, those a command
  has read and the bundle a command has stored name files that are there (`StoreOK`); and that
  an install past its verification holds a release (`InstallsGood`).  Trust needs none of this: whatever
  is on disk, what verifies is a release (`BundleFacts`), and only that is enforced
  (`GatewayOK`).  `RefusalsAreExplained` needs that a refusal keeps its cause (`Explained`): an event, a signed
  policy that does not compile, or a file that was changed and cannot be read.
  `StoreHeals` needs that the two pointers differ while commands run alone (`Apart`) and
  that after one change everything `StoreOK` says still holds of all files but one
  (`OneBad`); `InstalledIsLive` that a file nobody changed has the name of the bundle in it
  (`Named`).
- `HttpSessionProofs`.  The invariant has three parts.  `Lives` and `Shutdown` say which
  combinations of registered, closed, stopped, pump and process a session goes through and
  what `shutdown_all` has still to do: `SessionsEndCompletely`.  `Pairing` says that an entry of
  `_pending` is an open future or what a 500 left behind, that a request the gateway still
  decides about is pending unless its session was closed, and that the child owes each answer
  once: `AnswersAreNotLost`.  `CacheIsRecent` says that a cached key was published when the
  cache was filled: `WithdrawnKeysDie`.  `CallersActAsThemselves` joins `OwnerOnly` (a POST runs in a
  session that a credential of its subject opened) with the roles of that opener, and with what the
  loop of the role mapping computes: after n entries of the role file the roles are those of the
  first n entries whose group the caller has, each once and in the order of the file, by induction
  over the entries (`LoopInduction`).
- `ConsoleProofs`.  The index: `Plan` says of every request what it may rely on at its
  program counter (everything below the offset it read is indexed; what is missing below an
  entry of its list comes before it in the list, or will be there when it stores its
  watermark); `Closed`, `Covered` and `DeletesAlone` say the same of the tables.  They are
  needed together: a request's plan survives the others' steps because indexing more spoils no
  plan and a new line is behind everything that was read.  `IndexHasNoHoles` and
  `RequestsSeeEachOnce` follow, the latter with the lemmas on `Ascending` and `Descending`, which
  rest on the fact that a finite set of numbers can be put in order (`Ranking`).  `RowsInv` says
  that a session's row adds up its indexed events but for the ones a batch in progress has still
  to add, and whose they are; that the loop over a batch adds each new event once is an induction
  over the batch (`RollUpsAreExact`).  The feed:
  `FeedOK` says that what was shown, followed by the batch in hand, is the beginning of what
  parses, and up to where (`FeedShowsEachInOrder`).  The users: `AuthOK` says that a cookie
  carries the MAC of the secret it was minted with and that a random secret belongs to one boot
  (`QueueGuarded`).
- `SharedStateProofs`.  `SessInv`: a score at the threshold means a suspended session, in the
  store and in every copy, only a holder has a line to save, a value that is not there carries
  no mark, and a gateway about to create a session nobody else holds has nothing to overwrite
  (`MarksSurviveTakeover`).  `VaultInv`: the race to create the data key has one winner,
  whose key every token and every open vault uses, rows of returned tokens stay
  (`TokensCanBeReversed`), and without a lost race no lock is held between calls
  (`LockNeedsARace`).

- `AlgorithmsProofs`.  Each loop has a run, a function from its turns to its results
  (`MergeRulesRuns`, `MergeLayersRuns`, `MatchRuns`), and what holds before the first turn and
  survives a turn holds at the end (`LoopInduction`, from the well-foundedness of the numbers).
  `InputOK` is the invariant of the inputs: layers are sequences of documents that name known
  patterns and roles.  Every merged rule consists of valid fields (`Merged`), an overlay over
  valid fields is valid, and the scan keeps the best of the globs it has seen (`ScanKeepsBest`).
  `LaterLayersAlwaysWin` needs besides that a layer states a pattern once (`OncePerLayer`,
  without which "the last layer to say it" is not one rule): after n layers the settings are
  those of the last of n to set them (`SettingsAt`), and a rule says what the layers since the
  last one that replaces it say (`RuleAt`, with `CutHere` and `CutBefore` on how a layer moves
  the cut; a prefix of layers that merge merges too, `MergedPrefix`).  `NamesAreDecided` uses
  all of it: an action that is decided with is valid, and one that is null was written as null
  by the last layer to say it (`NullIsWritten`), while the action stage has no handler for it
  (`NullIsDecided`).  `ToolsAreTruthful` rests on the fact that a role no side declares is
  decided as no role is (`UndeclaredRoles`), on what a surface that grows pattern by pattern has
  (`SurfaceShows`) and on when the replay of one recorded call flips it (`EventFlips`,
  `ReplayFlips`), `CiGateExact` on the replay of a policy's own decisions, as CI writes them,
  being clean (`OwnReplayIsClean`), `CentralIsAsConfigured` on names being distinct in a file
  that loads (`NamedOnce`) and on an API key being held by its last entry (`KeysHeld`).
  `RedactionAlwaysExact` has an argument for each of its three parts.  A strict total order of
  1..n can be listed (`InsertInOrder`, `SortedLists`), and the orders of `resolve_overlaps` are
  such (`PriorityIsAnOrder`; `StartIsAnOrder`, because the winners do not overlap).  After n
  turns of the greedy loop every claim looked at won or overlaps a winner at least as certain
  (`Settled`, `TakeNext`).  Replacing from the right keeps the text left of the last replaced
  span in place (`TextOK`), so that each turn takes away exactly what its span does not keep
  (`SpliceNext`, `RedactedTextIs`); `NoValueIsLeft` and `RestIsLeft` read off what is left.
  That the recursion over JSON values defines a function, and that the strings of the result are
  those of the payload with the contents their paths ask for, are inductions over the depth
  (`WalkIs`, `StringsIs`, `ValuesRewritten`).

The inductive invariants of the index and of the feed, the longest, were checked with TLC on
the whole `console` instance before they were proved.

Looking for the proofs changed the models in a few places.  Three CASE expressions
(`Judged` of `SessionStore`, `diff_pack` and `ChangeKind` of `PolicyTools`) had arms that
overlapped, which TLC resolves by order and the logic does not; their guards now exclude each
other.  `TrailMatchesWire` speaks of records and positions instead of a filtered sequence, and
`AuditIndex` sorts with `Ascending` and `Descending` and `Redaction` with `Sorted`, because the
library's filter and sort are defined recursively or natively and no proof can open them.  For the
same reason the loops of `Policy`, `Identity`, `Redaction` and `AuditIndex` are recursive functions
where they were folds, and a merge of two records is `Over` instead of TLC's `@@`.

Only model-checked is liveness (`RequestsAreAnswered`, `ApprovalsSettle`, `EverythingArrives`,
`NothingHangs`), which is out of the prover's reach.  Every safety property of a passing run has a
theorem.

## 7. Plan

Done: `Gateway`, `Approvals` with its contract, `AuditForwarder`, `HttpSession` with
`Identity`, `BundleStore`, `Console` with `AuditIndex` and `ConsoleAuth`, `SharedState`
with `SessionStore` and `TokenVault`, `Algorithms` over `Policy`, `PolicyTools`, `Central`
and `Redaction`, and a theorem for every safety property (section 6).  Next, in this order:

1. An abstract single-copy session that `SessionStore` implements while no two replicas
   hold it at once, and `ReferenceMonitor`, an abstract gateway (decide once, mediate
   every call) that `Gateway` implements.
2. The stdio transport's two pumps and the drain at end of input; a second session in
   `HttpSession`, for the lock of the hub.

## 8. What is not modelled, and why

Detectors match patterns over text, and OCSF mapping is formatting: there is no
state to explore, and strings are out of TLC's reach; `Redaction` lets a detector claim
any span.  SIEM services are external: the forwarder's model lets a sink accept, refuse,
or accept and fail to say so.  Metrics and health endpoints are read by no decision.
Connectors are data and a code generator.  Of the command line, the commands that decide
something are modelled with the part they drive; argument parsing and printing are not.
Cryptography (signatures of bundles and tokens, MACs, password hashes, AES) is modelled by
what it covers and by its verdict.  The evaluation corpus of the redaction engine
(`redaction/eval.py`) measures detectors.  Reports and their renderings are left out of
`PolicyTools` and `Redaction`.  Within the modelled parts: the `elevated` risk level, which
labels records and decides nothing; the lag alarm of the forwarder; the gateway's start
records; and the stdio transport's subprocess, which is driven like the one in
`HttpSession`.
