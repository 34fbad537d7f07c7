--------------------------- MODULE AuditForwarder ---------------------------
(***************************************************************************)
(* The audit spool and the forwarder that ships it to a SIEM: JsonlSpool   *)
(* (audit/spool.py) appends, read_spool (audit/reader.py) reads from a     *)
(* byte offset, and Forwarder.pump_once (audit/forwarder.py) delivers in   *)
(* batches behind a durable watermark.  The two run in processes of their  *)
(* own and share nothing but the file.                                     *)
(*                                                                         *)
(* Events are numbered in the order they are emitted.  An offset counts    *)
(* newline-terminated lines: line k ends at offset k.                      *)
(***************************************************************************)
EXTENDS Integers, Sequences, FiniteSets, Functions

CONSTANTS
  MaxEvents,   \* bound: the events the gateway emits
  BatchSize,
  Dropped,     \* the events the mapper maps to None
  MaxFaults,   \* bound: crashes, and losses of the watermark file
  Once         \* TRUE: drain() and stop (--once); FALSE: run() forever

Events == 1..MaxEvents
Bad == 0       \* a complete line that does not parse

ASSUME BoundsAssumption ==
  /\ MaxEvents \in Nat /\ MaxFaults \in Nat /\ BatchSize \in Nat \ {0}
  /\ Dropped \subseteq Events /\ Once \in BOOLEAN

VARIABLES
  spool,      \* the complete lines of the file: an event or Bad
  fragment,   \* the file ends in bytes left by a writer that died
  begun,      \* the last event the gateway began to write
  writing,    \* the gateway is inside emit
  emitted,    \* the events whose emit has returned
  watermark,  \* the offset in the watermark file
  phase,      \* where pump_once is
  seen,       \* the length of the spool at the last read
  batch,      \* the mapped events of the chunk
  goal,       \* new_watermark
  last,       \* what the last pump_once returned
  delivered,  \* the events the sink has accepted
  faults

writer == <<spool, fragment, begun, writing, emitted>>
vars == <<writer, watermark, phase, seen, batch, goal, last, delivered, faults>>

Init ==
  /\ spool = <<>> /\ fragment = FALSE /\ begun = 0 /\ writing = FALSE /\ emitted = {}
  /\ watermark = 0 /\ phase = "idle" /\ seen = 0 /\ batch = {} /\ goal = 0
  /\ last = "none" /\ delivered = {} /\ faults = 0

---------------------------------------------------------------------------
(* The gateway's side: append and flush one line per event. *)

\* emit has written part of the line; a reader sees no newline yet.
EmitBegin ==
  /\ ~writing /\ begun < MaxEvents
  /\ begun' = begun + 1 /\ writing' = TRUE
  /\ UNCHANGED <<spool, fragment, emitted, watermark, phase, seen, batch, goal,
                 last, delivered, faults>>

\* The line and its newline are in the file.  After a fragment the two share a
\* line, which no longer parses.
Line == IF fragment THEN Bad ELSE begun

EmitEnd ==
  /\ writing
  /\ spool' = Append(spool, Line)
  /\ fragment' = FALSE
  /\ emitted' = emitted \cup {begun}
  /\ writing' = FALSE
  /\ UNCHANGED <<begun, watermark, phase, seen, batch, goal, last, delivered, faults>>

\* The gateway dies inside emit; it starts again in append mode.
GatewayCrash(torn) ==
  /\ writing /\ faults < MaxFaults
  /\ faults' = faults + 1
  /\ writing' = FALSE
  /\ fragment' = (fragment \/ torn)
  /\ UNCHANGED <<spool, begun, emitted, watermark, phase, seen, batch, goal, last,
                 delivered>>

---------------------------------------------------------------------------
(* The forwarder's side: pump_once, in the steps a crash may fall between. *)

\* Mutant of Records: the last line is taken for a torn one, newline or not.
RecordsBeforeLast == {k \in (watermark + 1)..(Len(spool) - 1) : spool[k] # Bad}

\* The records read_spool returns from the watermark: bad lines are skipped.
Records == {k \in (watermark + 1)..Len(spool) : spool[k] # Bad}

\* Mutant of Chunk: the newest records are taken first.
ChunkFromTail(m) == {k \in Records : k >= m}

\* The first records up to line m are one chunk.
Chunk(m) == {k \in Records : k <= m}

\* No record to read.  next_offset is then where the read began, so the
\* watermark is not stored.
PumpNothing ==
  /\ phase = "idle" /\ Records = {}
  /\ seen' = Len(spool)
  /\ last' = "nothing"
  /\ phase' = IF Once THEN "stopped" ELSE "idle"
  /\ UNCHANGED <<writer, watermark, batch, goal, delivered, faults>>

\* Mutant of PumpChunk: the watermark is stored before the batch is delivered.
PumpChunkStoresFirst(m) ==
  /\ phase = "idle" /\ m \in Records
  /\ seen' = Len(spool) /\ goal' = m /\ watermark' = m
  /\ batch' = {spool[k] : k \in Chunk(m)} \ Dropped
  /\ phase' = IF batch' = {} THEN "store" ELSE "deliver"
  /\ UNCHANGED <<writer, last, delivered, faults>>

\* Mutant of PumpChunk: a final line without its newline is taken for an event.
PumpChunkReadsTorn(m) ==
  /\ phase = "idle" /\ m \in Records /\ Chunk(m) = Records
  /\ seen' = Len(spool) /\ goal' = m
  /\ batch' = ({spool[k] : k \in Chunk(m)} \cup {e \in {begun} : writing}) \ Dropped
  /\ phase' = IF batch' = {} THEN "store" ELSE "deliver"
  /\ UNCHANGED <<writer, watermark, last, delivered, faults>>

\* Read a chunk ending at line m, and map it; an all-dropped batch skips the sink.
PumpChunk(m) ==
  /\ phase = "idle" /\ m \in Records
  /\ \/ Cardinality(Chunk(m)) = BatchSize
     \/ Chunk(m) = Records /\ Cardinality(Records) < BatchSize
  /\ seen' = Len(spool)
  /\ goal' = m
  /\ batch' = {spool[k] : k \in Chunk(m)} \ Dropped
  /\ phase' = IF batch' = {} THEN "store" ELSE "deliver"
  /\ UNCHANGED <<writer, watermark, last, delivered, faults>>

\* The sink accepts the batch.
Deliver ==
  /\ phase = "deliver"
  /\ delivered' = delivered \cup batch
  /\ phase' = "store"
  /\ UNCHANGED <<writer, watermark, seen, batch, goal, last, faults>>

\* The sink raises SinkError: it refused the batch, or it accepted the batch and
\* the answer was lost.
DeliverFails(accepted) ==
  /\ phase = "deliver"
  /\ delivered' = IF accepted THEN delivered \cup batch ELSE delivered
  /\ last' = "failed"
  /\ phase' = IF Once THEN "stopped" ELSE "idle"
  /\ UNCHANGED <<writer, watermark, seen, batch, goal, faults>>

\* Watermark.store: the file is replaced atomically.  drain() goes on only after
\* a pump that delivered something.
Store ==
  /\ phase = "store"
  /\ watermark' = goal
  /\ last' = IF batch = {} THEN "nothing" ELSE "delivered"
  /\ phase' = IF Once /\ batch = {} THEN "stopped" ELSE "idle"
  /\ UNCHANGED <<writer, seen, batch, goal, delivered, faults>>

\* The forwarder dies and is started again.
ForwarderCrash ==
  /\ phase \in {"deliver", "store"} /\ faults < MaxFaults
  /\ faults' = faults + 1
  /\ phase' = "idle"
  /\ UNCHANGED <<writer, watermark, seen, batch, goal, last, delivered>>

\* The watermark file is missing or unreadable: it reads as 0.
WatermarkLost ==
  /\ watermark # 0 /\ faults < MaxFaults
  /\ faults' = faults + 1
  /\ watermark' = 0
  /\ UNCHANGED <<writer, phase, seen, batch, goal, last, delivered>>

---------------------------------------------------------------------------
Pump == PumpNothing \/ \E m \in DOMAIN spool : PumpChunk(m)

Next ==
  \/ EmitBegin \/ EmitEnd \/ \E torn \in BOOLEAN : GatewayCrash(torn)
  \/ Pump \/ Deliver \/ Store
  \/ \E accepted \in BOOLEAN : DeliverFails(accepted)
  \/ ForwarderCrash \/ WatermarkLost

Spec == Init /\ [][Next]_vars

\* run() polls for ever; a sink that is retried for ever accepts in the end.
Fairness == WF_vars(Pump) /\ SF_vars(Deliver) /\ WF_vars(Store)

FairSpec == Spec /\ Fairness

---------------------------------------------------------------------------
(* Properties. *)

\* Every variable keeps its shape, and the watermark stays within the spool.
TypeOK ==
  /\ spool \in Seq(Events \cup {Bad}) /\ fragment \in BOOLEAN
  /\ begun \in 0..MaxEvents /\ writing \in BOOLEAN /\ emitted \subseteq Events
  /\ watermark \in 0..Len(spool) /\ seen \in 0..Len(spool)
  /\ phase \in {"idle", "deliver", "store", "stopped"}
  /\ batch \subseteq Events /\ goal \in 0..Len(spool)
  /\ last \in {"none", "nothing", "delivered", "failed"}
  /\ delivered \subseteq Events /\ faults \in 0..MaxFaults

Forwardable(line) == line \in Events \ Dropped

\* At-least-once: the watermark never passes an event the sink has not accepted,
\* whatever crashes, refusals and appends come between reading, delivering and
\* storing.  (forwarder.py pump_once)
WatermarkIsHonest ==
  \A k \in 1..watermark : Forwardable(spool[k]) => spool[k] \in delivered

\* The sink never has a hole: an event is accepted only after every earlier event
\* that is to be forwarded, even when a lost watermark starts it all again.
NoHoles ==
  \A j, k \in DOMAIN spool :
    (j < k /\ Forwardable(spool[j]) /\ spool[k] \in delivered) => spool[j] \in delivered

\* The sink receives nothing but events the gateway finished writing: a torn line
\* is never shipped.  (reader.py read_spool)
OnlyEmittedIsDelivered == delivered \subseteq emitted

\* Every event that reached a line of its own is delivered in the end.
\* (forwarder.py run)
EverythingArrives ==
  \A e \in Events \ Dropped : (e \in Range(spool)) ~> (e \in delivered)

---------------------------------------------------------------------------
(* What the repository says of the program, refuted by what it does. *)

\* "never drop an event": an event whose emit returned can be read from the
\* spool.  (spool.py JsonlSpool)
NoEmittedEventIsLost == emitted \subseteq Range(spool)

=============================================================================
