----------------------------- MODULE AuditIndex -----------------------------
(***************************************************************************)
(* The console's read model of the audit spool: the index over SQLite      *)
(* (audit/index.py) or Postgres (state/postgres.py), the requests that     *)
(* bring it up to date (console/app.py, cli audit reindex), and the live   *)
(* feed, which reads the spool itself.                                     *)
(*                                                                         *)
(* A line's byte offset is its position; a line that does not parse is     *)
(* BadLine.  A transaction is one step: SQLite commits a whole ingest,     *)
(* Postgres (autocommit) every statement of it.                            *)
(***************************************************************************)
EXTENDS Integers, FiniteSets, Sequences, SequencesExt, FiniteSetsExt, Functions

CONSTANTS
  Lines,        \* events: [sid, name, score]; score NoScore: none in the event
  BadLine,
  SessionIds, NoSession, NoScore, NoRow,
  Requests,     \* console requests and reindex commands, each made once
  Backends,     \* the index in use; "none": the live feed alone, which shares
                \* nothing with the index but the spool both read
  MaxLines,     \* bound on the spool, per backend
  MaxRebuilds, MaxCrashes,
  PageLimits    \* limits asked of query_events

ASSUME IndexAssumption ==
  /\ BadLine \notin Lines /\ NoSession \notin SessionIds
  /\ Backends \subseteq {"none", "sqlite", "postgres"}
  /\ \A e \in Lines : e.sid \in SessionIds \cup {NoSession}
  /\ NoRow \notin [count : Nat, allowed : Nat, blocked : Nat, tainted : BOOLEAN,
                    suspended : BOOLEAN, score : {0} \cup {e.score : e \in Lines}]
  /\ MaxRebuilds \in Nat /\ MaxCrashes \in Nat /\ PageLimits \subseteq Int

VARIABLES
  spool,     \* the complete lines
  events,    \* rows of the table events: the set of their offsets
  rows,      \* the table sessions
  next,      \* the watermark next_offset
  req,       \* the catch-up or rebuild of each request
  backend,
  feed,      \* a live feed and what its client received
  rebuilds, crashes,
  raced      \* history: a rebuild (Postgres: any catch-up) overlapped or died

vars == <<spool, events, rows, next, req, backend, feed, rebuilds, crashes, raced>>

-----------------------------------------------------------------------------
(* The reader, shared with the forwarder: offsets start at 0.              *)

At(i) == spool[i + 1]

\* Offsets in the order of the file, and newest first: an offset's place is one
\* more than the number of smaller ones.
Ascending(S) ==
  [n \in 1..Cardinality(S) |-> CHOOSE x \in S : Cardinality({y \in S : y < x}) = n - 1]

Descending(S) == Reverse(Ascending(S))

\* Mutant of ReadSpool: the last line is always taken for a torn one.
ReadSpoolLeavesLast(start) ==
  LET good == {i \in start..Len(spool) - 2 : At(i) # BadLine} IN
  [records |-> Ascending(good),
   end |-> IF good = {} THEN start ELSE Max(good) + 1]

\* read_spool: the records from `start` on, and the end of the last of them
\* (bad lines at the end are read again next time).
ReadSpool(start) ==
  LET good == {i \in start..Len(spool) - 1 : At(i) # BadLine} IN
  [records |-> Ascending(good),
   end |-> IF good = {} THEN start ELSE Max(good) + 1]

-----------------------------------------------------------------------------
(* The roll-up of a session *)

EmptyRow == [count |-> 0, allowed |-> 0, blocked |-> 0, tainted |-> FALSE,
             suspended |-> FALSE, score |-> 0]

RollUp(row, e) ==
  LET r == IF row = NoRow THEN EmptyRow ELSE row IN
  [count |-> r.count + 1,
   allowed |-> r.allowed + (IF e.name = "allowed" THEN 1 ELSE 0),
   blocked |-> r.blocked + (IF e.name \in {"blocked", "blocked_suspended"} THEN 1 ELSE 0),
   tainted |-> r.tainted \/ e.name = "tainted",
   suspended |-> r.suspended \/ e.name = "suspended",
   score |-> IF e.score = NoScore THEN r.score ELSE e.score]

\* _roll_up of a session's events, one after the other.
RolledUp(row, offsets) ==
  LET order == Ascending(offsets)
      rolled[n \in 0..Len(order)] ==
        IF n = 0 THEN row ELSE RollUp(rolled[n - 1], At(order[n])) IN
  rolled[Len(order)]

-----------------------------------------------------------------------------
(* Queries *)

MaxPage == 1000

\* Mutant of QueryEvents: the cursor is inclusive.
QueryEventsInclusive(sid, after, limit, ascending) ==
  LET match == {i \in events : /\ sid = NoSession \/ At(i).sid = sid
                               /\ after = NoScore \/ (IF ascending THEN i >= after ELSE i <= after)}
      sorted == IF ascending THEN Ascending(match) ELSE Descending(match) IN
  SubSeq(sorted, 1, Min({Len(sorted), Max({1, Min({limit, MaxPage})})}))

\* query_events: newest first below the cursor, or oldest first above it; a page
\* has between 1 and MaxPage events.
QueryEvents(sid, after, limit, ascending) ==
  LET match == {i \in events : /\ sid = NoSession \/ At(i).sid = sid
                               /\ after = NoScore \/ (IF ascending THEN i > after ELSE i < after)}
      sorted == IF ascending THEN Ascending(match) ELSE Descending(match) IN
  SubSeq(sorted, 1, Min({Len(sorted), Max({1, Min({limit, MaxPage})})}))

\* session_detail: the roll-up and the session's events, oldest first.
SessionDetail(sid, limit) ==
  IF rows[sid] = NoRow THEN NoRow
  ELSE [row |-> rows[sid], replay |-> QueryEvents(sid, NoScore, limit, TRUE)]

-----------------------------------------------------------------------------

Idle == [pc |-> "idle", start |-> 0, todo |-> <<>>, end |-> 0, upto |-> 0, row |-> NoRow]

Done == [Idle EXCEPT !.pc = "done"]

NoFeed == [on |-> FALSE, after |-> -1, pos |-> 0, batch |-> <<>>, first |-> FALSE]

TypeOK ==
  /\ \A i \in 1..Len(spool) : spool[i] \in Lines \cup {BadLine}
  /\ events \subseteq {i \in 0..Len(spool) - 1 : At(i) # BadLine}
  /\ DOMAIN rows = SessionIds
  /\ next \in 0..Len(spool)
  /\ \A r \in Requests :
       /\ req[r].pc \in {"idle", "start", "read", "insert", "select", "upsert", "mark", "serve",
                         "done", "delete_sessions", "delete_meta"}
       /\ \A i \in 1..Len(req[r].todo) : req[r].todo[i] \in 0..Len(spool) - 1
  /\ backend \in Backends
  /\ rebuilds \in 0..MaxRebuilds /\ crashes \in 0..MaxCrashes /\ raced \in BOOLEAN

Init ==
  /\ spool = <<>>
  /\ events = {}
  /\ rows = [s \in SessionIds |-> NoRow]
  /\ next = 0
  /\ req = [r \in Requests |-> Idle]
  /\ backend \in Backends
  /\ feed = [stream |-> NoFeed, got |-> <<>>]
  /\ rebuilds = 0 /\ crashes = 0 /\ raced = FALSE

\* The gateway appends (JsonlSpool.emit).
Emit(line) ==
  /\ Len(spool) < MaxLines[backend]
  /\ spool' = Append(spool, line)
  /\ UNCHANGED <<events, rows, next, req, backend, feed, rebuilds, crashes, raced>>

-----------------------------------------------------------------------------
(* catch_up *)

Busy(r) == req[r].pc \notin {"idle", "serve", "done"}

\* get_index, or audit reindex --incremental.
Begin(r) ==
  /\ req[r].pc = "idle" /\ backend # "none"
  /\ req' = [req EXCEPT ![r] = [Idle EXCEPT !.pc = "start"]]
  /\ raced' = (raced \/ (backend = "postgres" /\ \E q \in Requests \ {r} : Busy(q))
                     \/ \E q \in Requests \ {r} : req[q].pc \in {"delete_sessions", "delete_meta"})
  /\ UNCHANGED <<spool, events, rows, next, backend, feed, rebuilds, crashes>>

ReadOffset(r) ==
  /\ req[r].pc = "start"
  /\ req' = [req EXCEPT ![r].pc = "read", ![r].start = next]
  /\ UNCHANGED <<spool, events, rows, next, backend, feed, rebuilds, crashes, raced>>

ReadLines(r) ==
  LET result == ReadSpool(req[r].start) IN
  /\ req[r].pc = "read"
  /\ req' = [req EXCEPT ![r] = [pc |-> IF result.records = <<>> THEN "mark" ELSE "insert",
                                start |-> 0, todo |-> result.records, end |-> result.end,
                                upto |-> Len(spool), row |-> NoRow]]
  /\ UNCHANGED <<spool, events, rows, next, backend, feed, rebuilds, crashes, raced>>

\* Mutant of Ingest: an event that is already there is rolled up again.
IngestRollsUpAll(r) ==
  LET new == ToSet(req[r].todo) IN
  /\ backend = "sqlite" /\ req[r].pc = "insert"
  /\ events' = events \cup new
  /\ rows' = [s \in SessionIds |-> RolledUp(rows[s], {i \in new : At(i).sid = s})]
  /\ req' = [req EXCEPT ![r].pc = "mark", ![r].todo = <<>>]
  /\ UNCHANGED <<spool, next, backend, feed, rebuilds, crashes, raced>>

\* SQLite: INSERT OR IGNORE and the roll-up of what was new, one commit.
Ingest(r) ==
  LET new == ToSet(req[r].todo) \ events IN
  /\ backend = "sqlite" /\ req[r].pc = "insert"
  /\ events' = events \cup new
  /\ rows' = [s \in SessionIds |-> RolledUp(rows[s], {i \in new : At(i).sid = s})]
  /\ req' = [req EXCEPT ![r].pc = "mark", ![r].todo = <<>>]
  /\ UNCHANGED <<spool, next, backend, feed, rebuilds, crashes, raced>>

\* Postgres: INSERT ... DO NOTHING, SELECT and UPSERT of the roll-up are
\* committed one by one.
Following(q) == [pc |-> IF Len(q.todo) = 1 THEN "mark" ELSE "insert", start |-> 0,
                 todo |-> Tail(q.todo), end |-> q.end, upto |-> q.upto, row |-> NoRow]

InsertRow(r) ==
  LET i == Head(req[r].todo) IN
  /\ backend = "postgres" /\ req[r].pc = "insert"
  /\ events' = events \cup {i}
  /\ req' = [req EXCEPT ![r] = IF i \in events \/ At(i).sid = NoSession THEN Following(@)
                               ELSE [@ EXCEPT !.pc = "select"]]
  /\ UNCHANGED <<spool, rows, next, backend, feed, rebuilds, crashes, raced>>

SelectRow(r) ==
  /\ req[r].pc = "select"
  /\ req' = [req EXCEPT ![r].pc = "upsert", ![r].row = rows[At(Head(req[r].todo)).sid]]
  /\ UNCHANGED <<spool, events, rows, next, backend, feed, rebuilds, crashes, raced>>

\* A second INSERT of the same session is a duplicate key: the request fails.
UpsertRow(r) ==
  LET e == At(Head(req[r].todo)) IN
  /\ req[r].pc = "upsert"
  /\ IF req[r].row = NoRow /\ rows[e.sid] # NoRow
     THEN UNCHANGED rows /\ req' = [req EXCEPT ![r] = Done]
     ELSE rows' = [rows EXCEPT ![e.sid] = RollUp(req[r].row, e)]
            /\ req' = [req EXCEPT ![r] = Following(@)]
  /\ UNCHANGED <<spool, events, next, backend, feed, rebuilds, crashes, raced>>

\* Mutant of Mark: the watermark is the end of the file as it is now.
MarkEndOfFile(r) ==
  /\ req[r].pc = "mark"
  /\ next' = Len(spool)
  /\ req' = [req EXCEPT ![r].pc = "serve", ![r].end = 0]
  /\ UNCHANGED <<spool, events, rows, backend, feed, rebuilds, crashes, raced>>

\* Mutant of Mark: one past the end of the last record.
MarkOffByOne(r) ==
  /\ req[r].pc = "mark"
  /\ next' = req[r].end + 1
  /\ req' = [req EXCEPT ![r].pc = "serve", ![r].end = 0]
  /\ UNCHANGED <<spool, events, rows, backend, feed, rebuilds, crashes, raced>>

\* The watermark follows in a commit of its own, and may go back.
Mark(r) ==
  /\ req[r].pc = "mark"
  /\ next' = req[r].end
  /\ req' = [req EXCEPT ![r].pc = "serve", ![r].end = 0]
  /\ UNCHANGED <<spool, events, rows, backend, feed, rebuilds, crashes, raced>>

\* The request answers its queries and closes the index.
Serve(r) ==
  /\ req[r].pc = "serve"
  /\ req' = [req EXCEPT ![r] = Done]
  /\ UNCHANGED <<spool, events, rows, next, backend, feed, rebuilds, crashes, raced>>

\* The process dies: what was committed stays.
Crash(r) ==
  /\ req[r].pc \notin {"idle", "done"} /\ crashes < MaxCrashes
  /\ crashes' = crashes + 1
  /\ raced' = (raced \/ (backend = "postgres" /\ Busy(r))
                     \/ req[r].pc \in {"delete_sessions", "delete_meta"})
  /\ req' = [req EXCEPT ![r] = Done]
  /\ UNCHANGED <<spool, events, rows, next, backend, feed, rebuilds>>

-----------------------------------------------------------------------------
(* rebuild: SQLite's executescript commits each DELETE, Postgres truncates *)
(* the three tables at once; then a catch-up.                              *)

Rebuild(r) ==
  /\ req[r].pc = "idle" /\ backend # "none" /\ rebuilds < MaxRebuilds
  /\ rebuilds' = rebuilds + 1
  /\ raced' = (raced \/ \E q \in Requests \ {r} : Busy(q))
  /\ events' = {}
  /\ IF backend = "postgres"
     THEN rows' = [s \in SessionIds |-> NoRow] /\ next' = 0
            /\ req' = [req EXCEPT ![r] = [Idle EXCEPT !.pc = "start"]]
     ELSE UNCHANGED <<rows, next>>
            /\ req' = [req EXCEPT ![r] = [Idle EXCEPT !.pc = "delete_sessions"]]
  /\ UNCHANGED <<spool, backend, feed, crashes>>

DeleteSessions(r) ==
  /\ req[r].pc = "delete_sessions"
  /\ rows' = [s \in SessionIds |-> NoRow]
  /\ req' = [req EXCEPT ![r].pc = "delete_meta"]
  /\ UNCHANGED <<spool, events, next, backend, feed, rebuilds, crashes, raced>>

DeleteMeta(r) ==
  /\ req[r].pc = "delete_meta"
  /\ next' = 0
  /\ req' = [req EXCEPT ![r].pc = "start"]
  /\ UNCHANGED <<spool, events, rows, backend, feed, rebuilds, crashes, raced>>

-----------------------------------------------------------------------------
(* The live feed: an EventSource that reconnects with the id of the last   *)
(* event it has.                                                           *)

Connect ==
  /\ ~feed.stream.on /\ backend = "none"
  /\ LET after == IF feed.got = <<>> THEN -1 ELSE Last(feed.got) IN
     feed' = [feed EXCEPT !.stream = [on |-> TRUE, after |-> after, pos |-> Max({0, after}),
                                      batch |-> <<>>, first |-> TRUE]]
  /\ UNCHANGED <<spool, events, rows, next, req, backend, rebuilds, crashes, raced>>

\* Mutant of Poll: the cursor is taken for the next event, not the last one.
PollInclusive ==
  LET f == feed.stream
      result == ReadSpool(f.pos) IN
  /\ f.on /\ f.batch = <<>>
  /\ feed' = [feed EXCEPT !.stream.pos = result.end, !.stream.first = FALSE,
                          !.stream.batch = result.records]
  /\ feed' # feed
  /\ UNCHANGED <<spool, events, rows, next, req, backend, rebuilds, crashes, raced>>

\* One pass over the spool; the first one meets the last event again.
Poll ==
  LET f == feed.stream
      result == ReadSpool(f.pos) IN
  /\ f.on /\ f.batch = <<>>
  /\ feed' = [feed EXCEPT !.stream =
                [on |-> TRUE, after |-> f.after, pos |-> result.end, first |-> FALSE,
                 batch |-> IF f.first THEN Ascending({i \in ToSet(result.records) : i > f.after})
                           ELSE result.records]]
  /\ feed' # feed
  /\ UNCHANGED <<spool, events, rows, next, req, backend, rebuilds, crashes, raced>>

Deliver ==
  /\ feed.stream.on /\ feed.stream.batch # <<>>
  /\ feed' = [stream |-> [feed.stream EXCEPT !.batch = Tail(@)],
              got |-> Append(feed.got, Head(feed.stream.batch))]
  /\ UNCHANGED <<spool, events, rows, next, req, backend, rebuilds, crashes, raced>>

\* The connection is lost, with whatever had not been sent.
Disconnect ==
  /\ feed.stream.on /\ crashes < MaxCrashes
  /\ crashes' = crashes + 1
  /\ feed' = [feed EXCEPT !.stream = NoFeed]
  /\ UNCHANGED <<spool, events, rows, next, req, backend, rebuilds, raced>>

-----------------------------------------------------------------------------

CatchUpStep(r) ==
  \/ ReadOffset(r) \/ ReadLines(r) \/ Ingest(r) \/ InsertRow(r) \/ SelectRow(r)
  \/ UpsertRow(r) \/ Mark(r) \/ Serve(r) \/ DeleteSessions(r) \/ DeleteMeta(r)

FeedStep == Poll \/ Deliver

\* Everything but the opening of a feed, which Console.tla guards.
IndexNext ==
  \/ \E line \in Lines \cup {BadLine} : Emit(line)
  \/ \E r \in Requests : Begin(r) \/ Rebuild(r) \/ CatchUpStep(r) \/ Crash(r)
  \/ FeedStep \/ Disconnect

Next == IndexNext \/ Connect

Spec == Init /\ [][Next]_vars

-----------------------------------------------------------------------------
(* Properties *)

\* What the spool says of a session: how many of its events there are of each
\* kind, whether there is one at all, and the score of the last one that has one.
Of(sid, offsets) == {i \in offsets : At(i).sid = sid}

Named(names, offsets) == {i \in offsets : At(i).name \in names}

Scored(offsets) == {i \in offsets : At(i).score # NoScore}

Summary(offsets) ==
  [count |-> Cardinality(offsets),
   allowed |-> Cardinality(Named({"allowed"}, offsets)),
   blocked |-> Cardinality(Named({"blocked", "blocked_suspended"}, offsets)),
   tainted |-> Named({"tainted"}, offsets) # {},
   suspended |-> Named({"suspended"}, offsets) # {},
   score |-> IF Scored(offsets) = {} THEN 0 ELSE At(Max(Scored(offsets))).score]

Reference(sid, offsets) ==
  IF Of(sid, offsets) = {} THEN NoRow ELSE Summary(Of(sid, offsets))

\* However requests overlap and wherever one dies, the index is a prefix of
\* the spool without a hole: nothing below the watermark is missing.  Rebuilds
\* (and on Postgres catch-ups) must run alone, and to their end.
NothingSkipped ==
  raced \/ \A i \in 0..Len(spool) - 1 :
    (At(i) # BadLine /\ (i < next \/ \E j \in events : i < j)) =>
      \/ i \in events
      \/ \E r \in Requests : req[r].pc \in {"delete_sessions", "delete_meta"}

\* The roll-up of a session is what its indexed events add up to, each counted
\* once and in order, whatever was ingested twice, and its detail lists as many
\* of them as fit on a page.
RollUpIsExact ==
  (raced \/ \E r \in Requests : req[r].pc \in {"select", "upsert", "delete_sessions"})
    \/ \A s \in SessionIds :
         /\ rows[s] = Reference(s, events)
         /\ rows[s] # NoRow =>
              Len(SessionDetail(s, Len(spool)).replay) = Min({rows[s].count, MaxPage})

\* A console request answers from an index that has every event that was on
\* the spool when it looked.
RequestSeesAll ==
  raced \/ \A r \in Requests : (req[r].pc = "serve" /\ rebuilds = 0) =>
    \A i \in 0..req[r].upto - 1 : At(i) # BadLine => i \in events

\* Walking the pages of query_events by their last offset misses no event and
\* shows none twice, in both directions.
PagesTile ==
  \A limit \in PageLimits, asc \in BOOLEAN, after \in events \cup {NoScore} :
    LET page == QueryEvents(NoSession, after, limit, asc)
        rest == {i \in events : after = NoScore \/ (IF asc THEN i > after ELSE i < after)}
        shown == ToSet(page) IN
    /\ rest # {} => page # <<>>
    /\ IsInjective(page) /\ shown \subseteq rest
    /\ \A i \in rest \ shown : \A j \in shown : IF asc THEN i > j ELSE i < j

\* The live feed shows its client every event once and in order, across lost
\* connections and lines that do not parse.
FeedInOrder ==
  LET good == {i \in 0..Len(spool) - 1 : At(i) # BadLine} IN
  \A n \in 1..Len(feed.got) :
    {i \in good : i < feed.got[n]} = {feed.got[m] : m \in 1..n - 1}


\* A request that pages through the events meets each one that was on the spool
\* when it looked, and meets it once; the tables keep their shape, and the
\* watermark stays within the spool.  (catch_up, query_events)
RequestSeesEachOnce == TypeOK /\ RequestSeesAll /\ PagesTile
=============================================================================
