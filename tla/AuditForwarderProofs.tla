----------------------- MODULE AuditForwarderProofs -----------------------
(* Theorems about AuditForwarder, for every number of events and faults, batch *)
(* size and mapper.                                                           *)
EXTENDS AuditForwarder, TLAPS

(* The inductive invariant: its first two parts are what the safety properties *)
(* need to be preserved.                                                       *)

\* The spool holds the events in the order of their emit, each at most once.
SpoolInOrder ==
  /\ emitted \subseteq 1..begun /\ (writing => begun \in Events \ emitted)
  /\ \A k \in DOMAIN spool : spool[k] # Bad => spool[k] \in emitted
  /\ \A j, k \in DOMAIN spool :
       (j < k /\ spool[j] # Bad /\ spool[k] # Bad) => spool[j] < spool[k]

\* While a chunk is in hand, its batch and what the sink already has are all
\* there is to forward up to the new watermark.
ChunkInHand ==
  phase \in {"deliver", "store"} =>
    /\ \A e \in batch : \E k \in 1..goal : spool[k] = e
    /\ \A k \in 1..goal : Forwardable(spool[k]) => spool[k] \in delivered \cup batch
    /\ phase = "store" => batch \subseteq delivered

ForwarderInv ==
  /\ TypeOK /\ SpoolInOrder /\ ChunkInHand
  /\ WatermarkIsHonest /\ NoHoles /\ OnlyEmittedIsDelivered

---------------------------------------------------------------------------
(* The actions, grouped by what they may disturb. *)

LEMMA InitForwarder == Init => ForwarderInv
<1> SUFFICES ASSUME Init PROVE ForwarderInv
  OBVIOUS
<1> USE DEF Init
<1>0. spool \in Seq(Events \cup {Bad}) /\ Len(spool) = 0 /\ DOMAIN spool = {}
  OBVIOUS
<1>1. TypeOK
  <2>1. fragment \in BOOLEAN /\ writing \in BOOLEAN
    OBVIOUS
  <2> QED
    BY <1>0, <2>1, BoundsAssumption DEF TypeOK
<1>2. SpoolInOrder
  BY <1>0 DEF SpoolInOrder
<1>3. ChunkInHand /\ WatermarkIsHonest /\ NoHoles /\ OnlyEmittedIsDelivered
  BY <1>0 DEF ChunkInHand, WatermarkIsHonest, NoHoles, OnlyEmittedIsDelivered
<1> QED
  BY <1>1, <1>2, <1>3 DEF ForwarderInv

\* Beginning a line, or dying inside it, leaves the complete lines alone.
LEMMA BeginStep == ForwarderInv /\ EmitBegin => ForwarderInv'
<1> SUFFICES ASSUME ForwarderInv, EmitBegin PROVE ForwarderInv'
  OBVIOUS
<1> USE DEF EmitBegin
<1>1. TypeOK'
  BY BoundsAssumption DEF ForwarderInv, TypeOK, Events
<1>2. SpoolInOrder'
  BY BoundsAssumption DEF ForwarderInv, TypeOK, SpoolInOrder, Events
<1>3. ChunkInHand' /\ WatermarkIsHonest' /\ NoHoles' /\ OnlyEmittedIsDelivered'
  BY DEF ForwarderInv, ChunkInHand, WatermarkIsHonest, NoHoles, OnlyEmittedIsDelivered
<1> QED
  BY <1>1, <1>2, <1>3 DEF ForwarderInv

LEMMA GatewayCrashStep ==
  ASSUME ForwarderInv, NEW torn \in BOOLEAN, GatewayCrash(torn)
  PROVE  ForwarderInv'
<1> USE DEF GatewayCrash
<1>1. TypeOK'
  <2>1. fragment' \in BOOLEAN /\ writing' \in BOOLEAN
    OBVIOUS
  <2>2. faults' \in 0..MaxFaults
    BY BoundsAssumption DEF ForwarderInv, TypeOK
  <2> QED
    BY <2>1, <2>2 DEF ForwarderInv, TypeOK
<1>2. SpoolInOrder'
  BY DEF ForwarderInv, SpoolInOrder
<1>3. ChunkInHand' /\ WatermarkIsHonest' /\ NoHoles' /\ OnlyEmittedIsDelivered'
  BY DEF ForwarderInv, ChunkInHand, WatermarkIsHonest, NoHoles, OnlyEmittedIsDelivered
<1> QED
  BY <1>1, <1>2, <1>3 DEF ForwarderInv

\* A line is appended behind everything the forwarder knows of.
LEMMA EndStep == ForwarderInv /\ EmitEnd => ForwarderInv'
<1> SUFFICES ASSUME ForwarderInv, EmitEnd PROVE ForwarderInv'
  OBVIOUS
<1> USE DEF EmitEnd
<1>0. begun \in Events /\ begun \notin emitted /\ Line \in {Bad, begun}
  BY DEF ForwarderInv, SpoolInOrder, Line
<1>1. /\ spool \in Seq(Events \cup {Bad}) /\ spool' \in Seq(Events \cup {Bad})
      /\ Len(spool') = Len(spool) + 1 /\ DOMAIN spool' = 1..(Len(spool) + 1)
      /\ \A k \in 1..Len(spool) : spool'[k] = spool[k]
      /\ spool'[Len(spool) + 1] = Line
  BY <1>0 DEF ForwarderInv, TypeOK
<1>2. TypeOK'
  <2>1. fragment' \in BOOLEAN /\ writing' \in BOOLEAN /\ emitted' \subseteq Events
    BY <1>0 DEF ForwarderInv, TypeOK
  <2>2. /\ watermark' \in 0..Len(spool)' /\ seen' \in 0..Len(spool)'
        /\ goal' \in 0..Len(spool)'
    BY <1>1 DEF ForwarderInv, TypeOK
  <2> QED
    BY <1>1, <2>1, <2>2 DEF ForwarderInv, TypeOK
<1>3. SpoolInOrder'
  BY <1>0, <1>1, BoundsAssumption DEF ForwarderInv, TypeOK, SpoolInOrder, Events, Bad
<1>4. ChunkInHand'
  BY <1>1 DEF ForwarderInv, TypeOK, ChunkInHand, Forwardable
<1>5. WatermarkIsHonest'
  BY <1>1 DEF ForwarderInv, TypeOK, WatermarkIsHonest, Forwardable
<1>6. NoHoles'
  BY <1>0, <1>1 DEF ForwarderInv, TypeOK, NoHoles, Forwardable, OnlyEmittedIsDelivered, Events, Bad
<1>7. OnlyEmittedIsDelivered'
  BY DEF ForwarderInv, OnlyEmittedIsDelivered
<1> QED
  BY <1>2, <1>3, <1>4, <1>5, <1>6, <1>7 DEF ForwarderInv

\* The chunk takes over where the watermark stands: before it everything is
\* delivered, and every record between the two is in the batch.
LEMMA ChunkStep ==
  ASSUME ForwarderInv, NEW m \in DOMAIN spool, PumpChunk(m)
  PROVE  ForwarderInv'
<1> USE DEF PumpChunk, writer
<1>0. /\ m \in (watermark + 1)..Len(spool) /\ goal' = m
      /\ \A e \in batch' : \E k \in (watermark + 1)..m : spool[k] = e /\ e # Bad /\ e \notin Dropped
      /\ \A k \in (watermark + 1)..m : spool[k] # Bad => spool[k] \in batch' \cup Dropped
  BY DEF ForwarderInv, TypeOK, Records, Chunk
<1>1. TypeOK'
  <2>1. batch' \subseteq Events
    BY <1>0 DEF ForwarderInv, TypeOK
  <2>2. phase' \in {"deliver", "store"}
    OBVIOUS
  <2> QED
    BY <1>0, <2>1, <2>2 DEF ForwarderInv, TypeOK
<1>2. ChunkInHand'
  <2>1. \A e \in batch' : \E k \in 1..m : spool[k] = e
    BY <1>0 DEF ForwarderInv, TypeOK
  <2>2. ASSUME NEW k \in 1..m, Forwardable(spool[k])
        PROVE  spool[k] \in delivered \cup batch'
    <3>1. CASE k \in 1..watermark
      BY <3>1, <2>2 DEF ForwarderInv, WatermarkIsHonest
    <3>2. CASE k \in (watermark + 1)..m
      BY <3>2, <2>2, <1>0 DEF Forwardable, Bad, Events
    <3> QED
      BY <3>1, <3>2, <1>0 DEF ForwarderInv, TypeOK
  <2>3. phase' = "store" => batch' \subseteq delivered
    OBVIOUS
  <2> QED
    BY <1>0, <2>1, <2>2, <2>3 DEF ChunkInHand, Forwardable
<1>3. SpoolInOrder' /\ WatermarkIsHonest' /\ NoHoles' /\ OnlyEmittedIsDelivered'
  BY DEF ForwarderInv, SpoolInOrder, WatermarkIsHonest, NoHoles, OnlyEmittedIsDelivered
<1> QED
  BY <1>1, <1>2, <1>3 DEF ForwarderInv

\* The sink accepts the batch whole: an event of it sits at one place of the
\* spool only, at or before the new watermark, so everything before it is in the
\* batch or delivered already.
LEMMA Accepted ==
  ASSUME ForwarderInv, phase = "deliver", delivered' = delivered \cup batch,
         UNCHANGED <<writer, watermark, goal, batch>>
  PROVE  WatermarkIsHonest' /\ NoHoles' /\ OnlyEmittedIsDelivered'
<1> USE DEF writer
<1>0. \A e \in batch : e \in emitted /\ \E k \in 1..goal : k \in DOMAIN spool /\ spool[k] = e /\ e # Bad
  BY DEF ForwarderInv, TypeOK, ChunkInHand, SpoolInOrder, Events, Bad
<1>1. WatermarkIsHonest'
  BY DEF ForwarderInv, WatermarkIsHonest, Forwardable
<1>2. OnlyEmittedIsDelivered'
  BY <1>0 DEF ForwarderInv, OnlyEmittedIsDelivered
<1>3. NoHoles'
  <2> SUFFICES ASSUME NEW j \in DOMAIN spool, NEW k \in DOMAIN spool,
                      j < k, Forwardable(spool[j]), spool[k] \in delivered \cup batch
               PROVE  spool[j] \in delivered \cup batch
    BY DEF NoHoles, Forwardable
  <2>1. CASE spool[k] \in delivered
    BY <2>1 DEF ForwarderInv, NoHoles
  <2>2. CASE spool[k] \in batch
    <3>1. PICK i \in 1..goal : i \in DOMAIN spool /\ spool[i] = spool[k] /\ spool[k] # Bad
      BY <2>2, <1>0
    <3>2. i = k
      BY <3>1 DEF ForwarderInv, TypeOK, SpoolInOrder, Events, Bad
    <3>3. j \in 1..goal
      BY <3>2, <3>1 DEF ForwarderInv, TypeOK
    <3> QED
      BY <3>3 DEF ForwarderInv, ChunkInHand
  <2> QED
    BY <2>1, <2>2
<1> QED
  BY <1>1, <1>2, <1>3

LEMMA DeliverStep == ForwarderInv /\ Deliver => ForwarderInv'
<1> SUFFICES ASSUME ForwarderInv, Deliver PROVE ForwarderInv'
  OBVIOUS
<1> USE DEF Deliver, writer
<1>1. WatermarkIsHonest' /\ NoHoles' /\ OnlyEmittedIsDelivered'
  BY Accepted
<1>2. TypeOK' /\ SpoolInOrder' /\ ChunkInHand'
  BY DEF ForwarderInv, TypeOK, SpoolInOrder, ChunkInHand, Forwardable
<1> QED
  BY <1>1, <1>2 DEF ForwarderInv

LEMMA DeliverFailsStep ==
  ASSUME ForwarderInv, NEW accepted \in BOOLEAN, DeliverFails(accepted)
  PROVE  ForwarderInv'
<1> USE DEF DeliverFails, writer
<1>1. WatermarkIsHonest' /\ NoHoles' /\ OnlyEmittedIsDelivered'
  <2>1. CASE accepted
    BY <2>1, Accepted
  <2>2. CASE ~accepted
    BY <2>2 DEF ForwarderInv, WatermarkIsHonest, NoHoles, OnlyEmittedIsDelivered
  <2> QED
    BY <2>1, <2>2
<1>2. TypeOK' /\ SpoolInOrder' /\ ChunkInHand'
  BY DEF ForwarderInv, TypeOK, SpoolInOrder, ChunkInHand
<1> QED
  BY <1>1, <1>2 DEF ForwarderInv

LEMMA StoreStep == ForwarderInv /\ Store => ForwarderInv'
<1> SUFFICES ASSUME ForwarderInv, Store PROVE ForwarderInv'
  OBVIOUS
<1> USE DEF Store, writer
<1>1. WatermarkIsHonest'
  BY DEF ForwarderInv, ChunkInHand, WatermarkIsHonest
<1>2. TypeOK' /\ SpoolInOrder' /\ ChunkInHand'
  BY DEF ForwarderInv, TypeOK, SpoolInOrder, ChunkInHand
<1>3. NoHoles' /\ OnlyEmittedIsDelivered'
  BY DEF ForwarderInv, NoHoles, OnlyEmittedIsDelivered
<1> QED
  BY <1>1, <1>2, <1>3 DEF ForwarderInv

\* Steps that deliver nothing and move the watermark only backwards.
LEMMA OtherStep ==
  ForwarderInv /\ (PumpNothing \/ ForwarderCrash \/ WatermarkLost \/ UNCHANGED vars) => ForwarderInv'
<1> SUFFICES ASSUME ForwarderInv,
                    PumpNothing \/ ForwarderCrash \/ WatermarkLost \/ UNCHANGED vars
             PROVE  ForwarderInv'
  OBVIOUS
<1>0. /\ UNCHANGED <<writer, batch, goal, delivered>>
      /\ watermark' \in {watermark, 0}
      /\ phase' \in {phase, "idle", "stopped"}
  BY DEF PumpNothing, ForwarderCrash, WatermarkLost, vars
<1>1. TypeOK'
  BY BoundsAssumption
  DEF ForwarderInv, TypeOK, PumpNothing, ForwarderCrash, WatermarkLost, vars, writer
<1>2. SpoolInOrder' /\ ChunkInHand'
  BY <1>0 DEF ForwarderInv, SpoolInOrder, ChunkInHand, writer
<1>3. WatermarkIsHonest' /\ NoHoles' /\ OnlyEmittedIsDelivered'
  BY <1>0 DEF ForwarderInv, TypeOK, WatermarkIsHonest, NoHoles, OnlyEmittedIsDelivered, writer
<1> QED
  BY <1>1, <1>2, <1>3 DEF ForwarderInv

LEMMA ForwarderStep == ForwarderInv /\ [Next]_vars => ForwarderInv'
  BY BeginStep, EndStep, GatewayCrashStep, ChunkStep, DeliverStep, DeliverFailsStep,
     StoreStep, OtherStep
  DEF Next, Pump

---------------------------------------------------------------------------
\* The inductive invariant holds throughout, whatever the faults.
THEOREM ForwarderInvariant == Spec => []ForwarderInv
<1> QED
  BY InitForwarder, ForwarderStep, PTL DEF Spec

\* At-least-once delivery: the stored watermark never passes an event the sink has
\* not accepted.  (forwarder.py pump_once, Watermark)
THEOREM AtLeastOnce == Spec => []WatermarkIsHonest
<1>1. ForwarderInv => WatermarkIsHonest
  BY DEF ForwarderInv
<1> QED
  BY <1>1, ForwarderInvariant, PTL

\* The sink receives the trail in order and without holes, also when the
\* watermark is lost and everything is sent again.  (forwarder.py pump_once)
THEOREM DeliveredWithoutHoles == Spec => []NoHoles
<1>1. ForwarderInv => NoHoles
  BY DEF ForwarderInv
<1> QED
  BY <1>1, ForwarderInvariant, PTL

\* The sink receives only events the gateway finished writing.  (reader.py
\* read_spool)
THEOREM TornLinesStayHome == Spec => []OnlyEmittedIsDelivered
<1>1. ForwarderInv => OnlyEmittedIsDelivered
  BY DEF ForwarderInv
<1> QED
  BY <1>1, ForwarderInvariant, PTL
=============================================================================
