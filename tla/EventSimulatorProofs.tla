------------------------ MODULE EventSimulatorProofs ------------------------
(***************************************************************************)
(* A run of the simulator, for any fleet, anomaly specifications, limits,  *)
(* queue and chances.                                                      *)
(***************************************************************************)
EXTENDS EventSimulator, FiniteSetTheorems, TLAPS

-----------------------------------------------------------------------------
(* The shape of the state *)

\* The fields of a machine's hidden state and of its scheduler.
IsHidden(h) ==
    /\ h = [load |-> h.load, wear |-> h.wear, temperature |-> h.temperature, mode |-> h.mode,
            remaining |-> h.remaining, noise |-> h.noise]
    /\ h.wear \in 0..WearMax /\ h.mode \in Modes

IsScheduler(s) ==
    s = [active |-> s.active, lastEnd |-> s.lastEnd, seq |-> s.seq, fired |-> s.fired]

Parcels == [at : Int, n : Nat \ {0}, sample : Samples]

Telemetry(s) == Message("telemetry", s)
Label(s) == Message("label", s)
HasLabel(s) == s.episode # 0 \/ EmitNormalLabels

Stats == [telemetry : Nat, labels : Nat, delivered : Nat, failures : Nat, dropped : Nat]
Results == [ticks : Nat, generated : Nat, published : Nat, labels : Nat, delayed : Nat,
            buffered : Nat]

\* What is left of a sample's messages.
Remains(s) ==
    IF HasLabel(s) THEN {<<Telemetry(s), Label(s)>>, <<Label(s)>>} ELSE {<<Telemetry(s)>>}

Shape ==
    /\ pc \in {"top", "generate", "route", "publish", "flush", "done"}
    /\ stop \in BOOLEAN /\ exit \in {0, 1}
    /\ tick \in Nat /\ emitted \in 0..MaxEvents /\ chances \in 0..MaxChances
    /\ batch \in Seq(Samples) /\ generated \subseteq Samples
    /\ DOMAIN machine = Machines /\ machine = [m \in Machines |-> machine[m]]
    /\ DOMAIN twin = Machines /\ twin = [m \in Machines |-> twin[m]]
    /\ outage \in [Machines -> Int]
    /\ DOMAIN sched = Machines /\ sched = [m \in Machines |-> sched[m]]
    /\ \A m \in Machines :
          IsHidden(machine[m]) /\ IsHidden(twin[m]) /\ IsScheduler(sched[m])
    /\ held \in Nat /\ buffer \subseteq Parcels /\ IsFiniteSet(buffer)
    /\ attempt \in 0..(BufferRetries - 1) /\ broken \in 0..MaxEncodingFailures
    /\ inflight \in Nat /\ acked \in Nat /\ failed \in Nat /\ Queued <= QueueCapacity
    /\ stats \in Stats /\ result \in Results
    /\ IF pc = "publish" THEN \E s \in generated : outbox \in Remains(s) ELSE outbox = <<>>
    /\ exit = 1 => pc \in {"flush", "done"}
    /\ broken = MaxEncodingFailures => pc \in {"flush", "done"} /\ exit = 1
    /\ pc = "top" => batch = <<>>

-----------------------------------------------------------------------------
(* Where the samples are *)

\* The machines of a tick are taken in the order of the fleet, each once.
BatchInOrder ==
    /\ \A i \in DOMAIN batch : batch[i] \in generated /\ batch[i].at = Now
    /\ \A i, j \in DOMAIN batch : i # j => batch[i].machine # batch[j].machine
    /\ pc = "generate" =>
          /\ Len(batch) <= Len(Fleet)
          /\ \A i \in DOMAIN batch : batch[i].machine = Fleet[i]

\* A sample that is still to come is not one that has been generated.
OnceATick ==
    /\ \A s \in generated : s.at <= Now
    /\ emitted < MaxEvents =>
          /\ pc = "top" => \A s \in generated : s.at < Now
          /\ pc = "generate" => \A s \in generated : s.at = Now => s \in Waiting

SampleInHand == outbox # <<>> /\ Head(outbox).topic = "telemetry"

\* The places of a sample exclude each other.
OnePlace ==
    /\ generated = Waiting \cup InHand \cup HeldSamples \cup sent \cup lost
    /\ Waiting \cap (InHand \cup HeldSamples \cup sent \cup lost) = {}
    /\ InHand \cap (HeldSamples \cup sent \cup lost) = {}
    /\ HeldSamples \cap (sent \cup lost) = {}
    /\ sent \cap lost = {}

Placed == IF exit = 0 THEN OnePlace ELSE sent \cup lost \subseteq generated

\* The parcels of the buffer are numbered in the order their samples were measured.
ParcelsInOrder ==
    /\ \A p \in buffer : p.n <= held /\ p.sample \in generated
    /\ \A p, q \in buffer : p.n <= q.n => p.sample.at <= q.sample.at
    /\ \A p, q \in buffer : p.n = q.n \/ p.sample = q.sample => p = q

-----------------------------------------------------------------------------
(* What the counters count *)

QueueTold == stats.telemetry + stats.labels = stats.delivered + stats.failures + Queued

\* Until a run is aborted, every sample routed is counted once more.
RunTold ==
    /\ result.published = stats.telemetry /\ result.labels = stats.labels
    /\ IsFiniteSet(lost)
    /\ broken < MaxEncodingFailures =>
          /\ result.generated = result.published + Cardinality(lost) + Cardinality(buffer)
                                  + (IF SampleInHand THEN 1 ELSE 0)
          /\ pc \in {"flush", "done"} => result.buffered = Cardinality(buffer)
          /\ exit = 1 => pc = "done"
          /\ pc = "done" => (exit = 0 <=> Queued = 0)

-----------------------------------------------------------------------------
(* The episodes *)

\* The episodes of a machine follow one another; all but the active one are over.
EpisodesInOrder ==
    /\ \A m \in Machines :
          /\ sched[m].seq \in Nat
          /\ sched[m].active # NoEpisode => [machine |-> m, episode |-> sched[m].active] \in history
    /\ \A h \in history :
          /\ h.machine \in Machines
          /\ h.episode.seq \in 1..sched[h.machine].seq
          /\ h.episode.from \in Nat /\ h.episode.to \in Nat
          /\ h.episode.from <= Now /\ h.episode.from < h.episode.to
          /\ h.episode = sched[h.machine].active \/ h.episode.to <= Now
    /\ \A h, k \in history : h.machine = k.machine /\ h.episode.seq = k.episode.seq => h = k
    /\ \A s \in generated : s.episode <= sched[s.machine].seq

TruthTold ==
    \A s \in generated, h \in history :
        s.machine = h.machine =>
            (s.episode = h.episode.seq <=> h.episode.from <= s.at /\ s.at < h.episode.to)

LabelsAsked ==
    /\ ~EmitNormalLabels => \A s \in labelled : s.episode # 0
    /\ labelled \subseteq generated

SimInv ==
    /\ Shape /\ BatchInOrder /\ OnceATick /\ Placed /\ ParcelsInOrder
    /\ QueueTold /\ RunTold /\ EpisodesInOrder /\ TruthTold /\ LabelsAsked
    /\ AnomaliesLeaveNoTrace

-----------------------------------------------------------------------------
(* Time, messages and the queue *)

LEMMA TimePasses ==
    ASSUME tick \in Nat
    PROVE  /\ Now \in Nat /\ TickLen \in Nat /\ TickLen > 0
           /\ (tick + 1) * TickLen = Now + TickLen
<1>1. TickLen \in Nat /\ TickLen > 0
  BY ValidFleet DEF FleetAssumption
<1> QED
  BY <1>1 DEF Now

\* The constants of a run, as their assumption has them.
LEMMA RunConstants ==
    /\ MaxEvents \in Nat /\ MaxEvents > 0 /\ QueueCapacity \in Nat /\ QueueCapacity > 0
    /\ BufferRetries \in Nat /\ BufferRetries > 0
    /\ MaxEncodingFailures \in Nat /\ MaxEncodingFailures > 0
    /\ EmitNormalLabels \in BOOLEAN /\ MaxChances \in Nat
BY ValidRun DEF RunAssumption

LEMMA MessagesOf ==
    ASSUME NEW s \in generated
    PROVE  /\ Messages(s) = IF HasLabel(s) THEN <<Telemetry(s), Label(s)>> ELSE <<Telemetry(s)>>
           /\ Telemetry(s).topic = "telemetry" /\ Telemetry(s).sample = s
           /\ Label(s).topic = "label" /\ Label(s).sample = s
BY DEF Messages, HasLabel, Telemetry, Label, Message

\* The samples whose telemetry a list of messages holds.
Carried(o) == {o[i].sample : i \in {j \in DOMAIN o : o[j].topic = "telemetry"}}
Carries(o) == o # <<>> /\ Head(o).topic = "telemetry"

LEMMA CarriedIs ==
    ASSUME NEW s, NEW o
    PROVE  /\ o = <<Telemetry(s)>> => Carried(o) = {s} /\ Carries(o)
           /\ o = <<Telemetry(s), Label(s)>> => Carried(o) = {s} /\ Carries(o)
           /\ o = <<Label(s)>> => Carried(o) = {} /\ ~Carries(o)
           /\ o = <<>> => Carried(o) = {} /\ ~Carries(o)
<1>1. /\ Telemetry(s).topic = "telemetry" /\ Telemetry(s).sample = s
      /\ Label(s).topic = "label" /\ Label(s).sample = s
  BY DEF Telemetry, Label, Message
<1>2. CASE o = <<Telemetry(s)>>
  <2>1. DOMAIN o = {1} /\ o[1] = Telemetry(s) /\ o # <<>> /\ Head(o) = Telemetry(s)
    BY <1>2
  <2> QED
    BY <1>1, <1>2, <2>1 DEF Carried, Carries
<1>3. CASE o = <<Telemetry(s), Label(s)>>
  <2>1. /\ DOMAIN o = {1, 2} /\ o[1] = Telemetry(s) /\ o[2] = Label(s)
        /\ o # <<>> /\ Head(o) = Telemetry(s)
    BY <1>3
  <2> QED
    BY <1>1, <1>3, <2>1 DEF Carried, Carries
<1>4. CASE o = <<Label(s)>>
  <2>1. DOMAIN o = {1} /\ o[1] = Label(s) /\ o # <<>> /\ Head(o) = Label(s)
    BY <1>4
  <2> QED
    BY <1>1, <1>4, <2>1 DEF Carried, Carries
<1>5. CASE o = <<>>
  <2>1. DOMAIN o = {}
    BY <1>5
  <2> QED
    BY <1>5, <2>1 DEF Carried, Carries
<1> QED
  BY <1>2, <1>3, <1>4, <1>5

\* The three things a publisher may still have to do for a sample.
LEMMA InHandIs ==
    ASSUME NEW s
    PROVE  /\ InHand = Carried(outbox) /\ (SampleInHand <=> Carries(outbox))
           /\ outbox = <<Telemetry(s)>> => InHand = {s} /\ SampleInHand
           /\ outbox = <<Telemetry(s), Label(s)>> => InHand = {s} /\ SampleInHand
           /\ outbox = <<Label(s)>> => InHand = {} /\ ~SampleInHand
           /\ outbox = <<>> => InHand = {} /\ ~SampleInHand
<1>1. InHand = Carried(outbox) /\ (SampleInHand <=> Carries(outbox))
  BY DEF InHand, Carried, SampleInHand, Carries
<1> QED
  BY <1>1, CarriedIs

LEMMA InHandOfNext ==
    ASSUME NEW s
    PROVE  /\ outbox' = <<Telemetry(s)>> => InHand' = {s} /\ SampleInHand'
           /\ outbox' = <<Telemetry(s), Label(s)>> => InHand' = {s} /\ SampleInHand'
           /\ outbox' = <<Label(s)>> => InHand' = {} /\ ~SampleInHand'
           /\ outbox' = <<>> => InHand' = {} /\ ~SampleInHand'
<1>1. InHand' = Carried(outbox') /\ (SampleInHand' <=> Carries(outbox'))
  BY DEF InHand, Carried, SampleInHand, Carries
<1> QED
  BY <1>1, CarriedIs

\* What a step leaves alone is as it was.
LEMMA GenerationKept ==
    ASSUME SimInv, UNCHANGED <<generation, lateness>>,
           pc' = pc \/ pc' \in {"route", "publish", "flush", "done"}
    PROVE  BatchInOrder' /\ OnceATick' /\ ParcelsInOrder' /\ EpisodesInOrder' /\ TruthTold'
             /\ AnomaliesLeaveNoTrace'
<1> USE DEF SimInv, generation, lateness
<1>1. Now' = Now
  BY DEF Now
<1>2. BatchInOrder' /\ OnceATick'
  BY <1>1 DEF BatchInOrder, OnceATick, Waiting
<1>3. ParcelsInOrder' /\ TruthTold' /\ AnomaliesLeaveNoTrace'
  BY DEF ParcelsInOrder, TruthTold, AnomaliesLeaveNoTrace
<1>4. EpisodesInOrder'
  BY <1>1 DEF EpisodesInOrder
<1> QED
  BY <1>2, <1>3, <1>4

\* The part of the shape that the publisher and the client do not touch.
LEMMA ShapeKept ==
    ASSUME Shape, UNCHANGED <<generation, lateness>>
    PROVE  /\ tick' \in Nat /\ emitted' \in 0..MaxEvents
           /\ batch' \in Seq(Samples) /\ generated' \subseteq Samples
           /\ DOMAIN machine' = Machines /\ machine' = [m \in Machines |-> machine'[m]]
           /\ DOMAIN twin' = Machines /\ twin' = [m \in Machines |-> twin'[m]]
           /\ outage' \in [Machines -> Int]
           /\ DOMAIN sched' = Machines /\ sched' = [m \in Machines |-> sched'[m]]
           /\ \A m \in Machines :
                 IsHidden(machine'[m]) /\ IsHidden(twin'[m]) /\ IsScheduler(sched'[m])
           /\ held' \in Nat /\ buffer' \subseteq Parcels /\ IsFiniteSet(buffer')
BY DEF Shape, generation, lateness

-----------------------------------------------------------------------------
(* The client's queue, the stop signal and the end of a run *)

LEMMA BrokerStep ==
    ASSUME SimInv, BrokerAcks \/ DeliveryFails
    PROVE  SimInv'
<1> USE DEF SimInv
<1>1. /\ inflight > 0 /\ inflight' = inflight - 1
      /\ \/ acked' = acked + 1 /\ failed' = failed
         \/ acked' = acked /\ failed' = failed + 1
      /\ chances' = chances \/ (chances + 1 <= MaxChances /\ chances' = chances + 1)
      /\ pc \in {"publish", "flush"}
      /\ UNCHANGED <<pc, stop, generation, lateness, publishing, result, exit>>
  BY DEF BrokerAcks, DeliveryFails, Chance
<1>2. /\ outbox' = outbox /\ attempt' = attempt /\ broken' = broken /\ stats' = stats
      /\ sent' = sent /\ lost' = lost /\ labelled' = labelled /\ pc' = pc /\ stop' = stop
      /\ result' = result /\ exit' = exit /\ generated' = generated /\ buffer' = buffer
      /\ batch' = batch
  BY <1>1 DEF publishing, generation, lateness
<1>3. /\ inflight' \in Nat /\ acked' \in Nat /\ failed' \in Nat /\ Queued' = Queued
      /\ chances' \in 0..MaxChances
  <2>1. inflight \in Nat /\ acked \in Nat /\ failed \in Nat /\ chances \in 0..MaxChances
    BY DEF Shape
  <2>2. inflight' \in Nat /\ acked' \in Nat /\ failed' \in Nat
    BY <1>1, <2>1
  <2>3. inflight' + acked' + failed' = inflight + acked + failed
    BY <1>1, <2>1
  <2>4. chances' \in 0..MaxChances
    BY <1>1, <2>1, RunConstants
  <2> QED
    BY <2>2, <2>3, <2>4 DEF Queued
<1>4. Shape'
  BY <1>1, <1>2, <1>3, ShapeKept DEF Shape
<1>5. Placed' /\ LabelsAsked'
  BY <1>2 DEF Placed, OnePlace, Waiting, InHand, HeldSamples, LabelsAsked
<1>6. QueueTold' /\ RunTold'
  BY <1>1, <1>2, <1>3 DEF QueueTold, RunTold, SampleInHand
<1> QED
  BY <1>1, <1>4, <1>5, <1>6, GenerationKept

LEMMA FlagStep ==
    ASSUME SimInv, Signal \/ StartTick \/ Finish \/ YieldBatch
    PROVE  SimInv'
<1> USE DEF SimInv
<1>1. /\ UNCHANGED <<generation, lateness, publishing, client, exit, chances>>
      /\ pc \in {"top", "generate"} /\ stop' \in {stop, TRUE}
      /\ \/ Signal /\ pc' = pc /\ result' = result
         \/ StartTick /\ pc' = "generate" /\ result' = result
         \/ YieldBatch /\ pc' = "route" /\ result' = [result EXCEPT !.ticks = @ + 1]
         \/ Finish /\ pc' = "flush" /\ result' = [result EXCEPT !.buffered = Cardinality(buffer)]
  BY DEF Signal, StartTick, Finish, YieldBatch
<1>2. /\ outbox' = outbox /\ attempt' = attempt /\ broken' = broken /\ stats' = stats
      /\ sent' = sent /\ lost' = lost /\ labelled' = labelled /\ exit' = exit
      /\ generated' = generated /\ buffer' = buffer /\ batch' = batch
      /\ inflight' = inflight /\ acked' = acked /\ failed' = failed /\ chances' = chances
  BY <1>1 DEF publishing, client, generation, lateness
<1>3. outbox = <<>> /\ exit = 0 /\ broken < MaxEncodingFailures /\ ~SampleInHand
  <2>1. pc # "publish" /\ pc # "flush" /\ pc # "done"
    BY <1>1
  <2>2. outbox = <<>>
    BY <2>1 DEF Shape
  <2>3. exit = 0 /\ broken # MaxEncodingFailures /\ broken \in 0..MaxEncodingFailures
    BY <2>1 DEF Shape
  <2>4. broken < MaxEncodingFailures
    BY <2>3, RunConstants
  <2> QED
    BY <2>2, <2>3, <2>4 DEF SampleInHand
<1>4. Cardinality(buffer) \in Nat
  BY FS_CardinalityType DEF Shape
<1>5. /\ result' \in Results
      /\ result'.generated = result.generated /\ result'.published = result.published
      /\ result'.labels = result.labels
      /\ pc' = "flush" => result'.buffered = Cardinality(buffer)
  <2>1. result \in Results /\ pc # "flush"
    BY <1>1 DEF Shape
  <2>2. CASE result' = result /\ pc' # "flush"
    BY <2>1, <2>2
  <2>3. CASE result' = [result EXCEPT !.ticks = @ + 1] /\ pc' # "flush"
    BY <2>1, <2>3 DEF Results
  <2>4. CASE result' = [result EXCEPT !.buffered = Cardinality(buffer)]
    BY <2>1, <2>4, <1>4 DEF Results
  <2> QED
    BY <1>1, <2>1, <2>2, <2>3, <2>4
<1>6. Shape'
  <2>1. stop' \in BOOLEAN /\ pc' \in {"top", "generate", "route", "flush"}
    BY <1>1 DEF Shape
  <2>2. pc' = "top" => batch' = <<>>
    BY <1>1, <1>2 DEF Shape
  <2>3. Queued' = Queued
    BY <1>2 DEF Queued
  <2> QED
    BY <1>1, <1>2, <1>3, <1>5, <2>1, <2>2, <2>3, ShapeKept DEF Shape
<1>7. Placed' /\ LabelsAsked' /\ QueueTold'
  BY <1>2 DEF Placed, OnePlace, Waiting, InHand, HeldSamples, LabelsAsked, QueueTold, Queued
<1>8. RunTold'
  <2>1. pc' # "done" /\ (pc' \in {"flush", "done"} => pc' = "flush") /\ ~SampleInHand'
    BY <1>1, <1>2, <1>3 DEF SampleInHand
  <2> QED
    BY <1>2, <1>3, <1>5, <2>1 DEF RunTold
<1>9. BatchInOrder' /\ OnceATick'
  <2>1. CASE StartTick
    <3>1. pc = "top" /\ emitted < MaxEvents /\ batch = <<>> /\ Now' = Now
      BY <1>1, <2>1 DEF StartTick, Shape, generation, Now
    <3>2. /\ Len(batch) = 0 /\ DOMAIN batch = {} /\ Len(Fleet) \in Nat
          /\ \A s \in generated : s.at < Now
      BY <3>1, ValidFleet DEF FleetAssumption, OnceATick
    <3>3. BatchInOrder'
      BY <1>2, <3>1, <3>2 DEF BatchInOrder
    <3>4. Now \in Nat /\ \A s \in generated : s.at \in Nat
      BY TimePasses DEF Shape, Samples
    <3>5. OnceATick'
      BY <1>1, <1>2, <3>1, <3>2, <3>4 DEF OnceATick, generation
    <3> QED
      BY <3>3, <3>5
  <2>2. CASE ~StartTick
    BY <1>1, <2>2, GenerationKept
  <2> QED
    BY <2>1, <2>2
<1>10. ParcelsInOrder' /\ EpisodesInOrder' /\ TruthTold' /\ AnomaliesLeaveNoTrace'
  BY <1>1 DEF ParcelsInOrder, EpisodesInOrder, TruthTold, AnomaliesLeaveNoTrace, Now,
              generation, lateness
<1> QED
  BY <1>6, <1>7, <1>8, <1>9, <1>10

-----------------------------------------------------------------------------
(* The scheduler *)

\* A set of naturals has a least member.
LEMMA LeastIsMember ==
    ASSUME NEW T \in SUBSET Nat, T # {}
    PROVE  Least(T) \in T
<1> DEFINE R == StrictSubsetOrdering(Nat)
           F == {0..k : k \in T}
<1>1. IsWellFoundedOn(R, FiniteSubsetsOf(Nat))
  BY FS_StrictSubsetOrderingWellFounded
<1>2. F \subseteq FiniteSubsetsOf(Nat) /\ F # {}
  <2>1. ASSUME NEW k \in T PROVE 0..k \in FiniteSubsetsOf(Nat)
    <3>1. IsFiniteSet(0..k) /\ 0..k \in SUBSET Nat
      BY FS_Interval
    <3> QED
      BY <3>1 DEF FiniteSubsetsOf
  <2> QED
    BY <2>1
<1>3. PICK x \in F : \A y \in F : <<y, x>> \notin R
  <2> HIDE DEF R, F
  <2> QED
    BY <1>1, <1>2, WFMin
<1>4. PICK n \in T : x = 0..n
  OBVIOUS
<1>5. \A k \in T : n <= k
  <2> SUFFICES ASSUME NEW k \in T, k < n PROVE FALSE
    OBVIOUS
  <2>1. 0..k \in F /\ 0..k \subseteq 0..n /\ 0..k # 0..n
    OBVIOUS
  <2>2. 0..k \subseteq Nat /\ 0..n \subseteq Nat
    OBVIOUS
  <2>3. <<0..k, 0..n>> \in R
    BY <2>1, <2>2 DEF StrictSubsetOrdering
  <2> QED
    BY <2>1, <2>3, <1>3, <1>4
<1> QED
  BY <1>5 DEF Least

\* Whether the machine is in the middle of an episode.
MidEpisode(s, at) == s.active # NoEpisode /\ IsActive(s.active, at)

\* What becomes of a scheduler: its episode goes on, there is none, or a new one begins.
Goes(s, state, at) ==
    s.seq = state.seq /\ s.active = state.active /\ MidEpisode(state, at)

Rests(s, state, at) ==
    s.seq = state.seq /\ s.active = NoEpisode /\ ~MidEpisode(state, at)

Begins(s, state, at) ==
    /\ s.seq = state.seq + 1 /\ ~MidEpisode(state, at)
    /\ s.active # NoEpisode
    /\ s.active.seq = s.seq /\ s.active.from = at
    /\ s.active.to \in Nat /\ s.active.to > at

LEMMA BegunIs ==
    ASSUME NEW state, NEW r, IsScheduler(r), r.seq \in Nat, r.seq = state.seq,
           NEW at \in Nat, ~MidEpisode(state, at),
           NEW spec, NEW d \in Nat \ {0}, NEW drawn
    PROVE  IsScheduler(Begun(r, spec, at, d, drawn)) /\ Begins(Begun(r, spec, at, d, drawn), state, at)
<1> DEFINE e == Episode(r.seq + 1, spec, at, d, drawn)
           b == Begun(r, spec, at, d, drawn)
<1>1. e.seq = r.seq + 1 /\ e.from = at /\ e.to = at + d
  BY DEF Episode
<1>2. e # NoEpisode
  <2>1. e.seq # NoEpisode.seq
    BY <1>1 DEF NoEpisode
  <2> QED
    BY <2>1
<1>3. IsScheduler(b) /\ b.active = e /\ b.seq = r.seq + 1
  <2>1. b = [r EXCEPT !.active = e, !.seq = @ + 1]
    BY DEF Begun
  <2> HIDE DEF b, e
  <2>2. b = [active |-> e, lastEnd |-> r.lastEnd, seq |-> r.seq + 1, fired |-> r.fired]
    BY <2>1 DEF IsScheduler
  <2> QED
    BY <2>2 DEF IsScheduler
<1>4. at + d \in Nat /\ at + d > at
  OBVIOUS
<1> QED
  BY <1>1, <1>2, <1>3, <1>4 DEF Begins

LEMMA EpisodeAtIs ==
    ASSUME NEW m \in Machines, NEW state, IsScheduler(state), state.seq \in Nat,
           NEW at \in Nat, NEW s \in EpisodeAt(m, state, at)
    PROVE  IsScheduler(s) /\ (Goes(s, state, at) \/ Rests(s, state, at) \/ Begins(s, state, at))
<1> DEFINE r == Retired(state, at)
           due == DueScenarios(m, r, at)
<1>1. IsScheduler(r) /\ r.seq = state.seq
  BY DEF Retired, IsScheduler
<1>2. IF MidEpisode(state, at) THEN r = state ELSE r.active = NoEpisode
  BY DEF Retired, IsScheduler, MidEpisode
<1>3. CASE r.active # NoEpisode
  <2>1. s = r /\ MidEpisode(state, at) /\ r = state
    BY <1>2, <1>3 DEF EpisodeAt
  <2> QED
    BY <1>1, <2>1 DEF Goes
<1>4. CASE r.active = NoEpisode /\ s = r
  BY <1>1, <1>2, <1>4 DEF Rests, MidEpisode
<1>5. CASE r.active = NoEpisode /\ due # {} /\ s = ScenarioBegun(r, Least(due), at)
  <2> DEFINE i == Least(due)
             b == Begun(r, Scenarios[i].spec, at, Scenarios[i].duration, FALSE)
             E == [machine : Machines, spec : Specs, offset : Nat, duration : Nat \ {0}]
  <2>1. Scenarios \in Seq(E)
    BY ValidFleet DEF FleetAssumption
  <2>2. due \in SUBSET Nat /\ due \subseteq DOMAIN Scenarios
    BY <2>1 DEF DueScenarios
  <2>3. i \in DOMAIN Scenarios
    BY <1>5, <2>2, LeastIsMember
  <2>4. Scenarios[i].duration \in Nat \ {0}
    <3>1. Scenarios[i] \in E
      <4> HIDE DEF i, E
      <4> QED
        BY <2>1, <2>3
    <3> QED
      BY <3>1
  <2>5. ~MidEpisode(state, at)
    BY <1>2, <1>5 DEF MidEpisode
  <2>6. IsScheduler(b) /\ Begins(b, state, at)
    BY <1>1, <2>4, <2>5, BegunIs
  <2>7. s = [b EXCEPT !.fired = @ \cup {i}]
    BY <1>5 DEF ScenarioBegun
  <2>8. IsScheduler(s) /\ s.active = b.active /\ s.seq = b.seq
    BY <2>6, <2>7 DEF IsScheduler
  <2> QED
    BY <2>6, <2>8 DEF Begins
<1>6. CASE r.active = NoEpisode /\ s \in DrawnEpisodes(r, at)
  <2> PICK spec \in Specs :
          s \in {Begun(r, spec, at, AtLeast(d, TickLen), TRUE) : d \in spec.durations}
    BY <1>6 DEF DrawnEpisodes
  <2>1. PICK d \in spec.durations : s = Begun(r, spec, at, AtLeast(d, TickLen), TRUE)
    OBVIOUS
  <2>2. d \in Nat \ {0} /\ TickLen \in Nat
    BY ValidFleet DEF FleetAssumption
  <2>3. AtLeast(d, TickLen) \in Nat \ {0}
    BY <2>2 DEF AtLeast
  <2>4. ~MidEpisode(state, at)
    BY <1>2, <1>6 DEF MidEpisode
  <2> QED
    BY <1>1, <2>1, <2>3, <2>4, BegunIs
<1> QED
  BY <1>3, <1>4, <1>5, <1>6 DEF EpisodeAt

-----------------------------------------------------------------------------
(* The machine *)

Moved(h, goesIdle, residence) == AdvanceLoadAndWear(AdvanceLifecycle(h, goesIdle, residence))

\* Two hidden states that differ in the temperature at most.
Alike(h, k) ==
    /\ h.load = k.load /\ h.wear = k.wear /\ h.mode = k.mode
    /\ h.remaining = k.remaining /\ h.noise = k.noise

LEMMA LifecycleIs ==
    ASSUME NEW h, IsHidden(h), NEW goesIdle \in BOOLEAN, NEW residence
    PROVE  IsHidden(AdvanceLifecycle(h, goesIdle, residence))
<1>1. WearMax \in Nat \ {0}
  BY ValidFleet DEF FleetAssumption
<1>2. NextMode(h.mode, goesIdle) \in Modes
  BY DEF NextMode, IsHidden, Modes
<1> DEFINE a == AdvanceLifecycle(h, goesIdle, residence)
<1>3. CASE h.remaining - TickLen > 0
  BY <1>3 DEF AdvanceLifecycle, IsHidden
<1>4. CASE ~(h.remaining - TickLen > 0)
  <2> DEFINE mode == NextMode(h.mode, goesIdle)
             wear == IF h.mode = "MAINTENANCE" THEN 0 ELSE h.wear
             left == AtLeast(residence, TickLen)
  <2>1. a = [h EXCEPT !.mode = mode, !.remaining = left, !.wear = wear]
    BY <1>4 DEF AdvanceLifecycle
  <2>2. wear \in 0..WearMax /\ mode \in Modes
    BY <1>1, <1>2 DEF IsHidden
  <2> HIDE DEF mode, wear, left, a
  <2>3. a = [load |-> h.load, wear |-> wear, temperature |-> h.temperature, mode |-> mode,
             remaining |-> left, noise |-> h.noise]
    BY <2>1 DEF IsHidden
  <2>4. IsHidden(a)
    BY <2>2, <2>3 DEF IsHidden
  <2> QED
    BY <2>4 DEF a
<1> QED
  BY <1>3, <1>4

LEMMA MovedIs ==
    ASSUME NEW h, IsHidden(h), NEW goesIdle \in BOOLEAN, NEW residence
    PROVE  IsHidden(Moved(h, goesIdle, residence))
<1>1. WearMax \in Nat \ {0}
  BY ValidFleet DEF FleetAssumption
<1> DEFINE a == AdvanceLifecycle(h, goesIdle, residence)
<1>3. IsHidden(a)
  BY LifecycleIs
<1>4. IsHidden(AdvanceLoadAndWear(a))
  <2> HIDE DEF a
  <2> DEFINE wear == IF a.mode \in {"RUNNING", "STARTING"} THEN AtMost(a.wear + 1, WearMax)
                     ELSE a.wear
             b == AdvanceLoadAndWear(a)
  <2>1. wear \in 0..WearMax
    BY <1>1, <1>3 DEF IsHidden, AtMost
  <2>2. b = [a EXCEPT !.load = NoiseAt(a.noise), !.noise = @ + 1, !.wear = wear]
    BY DEF AdvanceLoadAndWear
  <2> HIDE DEF wear, b
  <2>3. b = [load |-> NoiseAt(a.noise), wear |-> wear, temperature |-> a.temperature,
             mode |-> a.mode, remaining |-> a.remaining, noise |-> a.noise + 1]
    BY <1>3, <2>2 DEF IsHidden
  <2>4. IsHidden(b)
    BY <1>3, <2>1, <2>3 DEF IsHidden
  <2> QED
    BY <2>4 DEF b
<1> QED
  BY <1>4 DEF Moved

LEMMA MovedAlike ==
    ASSUME NEW h, NEW k, IsHidden(h), IsHidden(k), Alike(h, k),
           NEW goesIdle \in BOOLEAN, NEW residence
    PROVE  Alike(Moved(h, goesIdle, residence), Moved(k, goesIdle, residence))
<1> DEFINE a == AdvanceLifecycle(h, goesIdle, residence)
           b == AdvanceLifecycle(k, goesIdle, residence)
<1>1. Alike(a, b)
  <2>1. CASE h.remaining - TickLen > 0
    BY <2>1 DEF AdvanceLifecycle, IsHidden, Alike
  <2>2. CASE ~(h.remaining - TickLen > 0)
    BY <2>2 DEF AdvanceLifecycle, IsHidden, Alike
  <2> QED
    BY <2>1, <2>2
<1>2. IsHidden(a) /\ IsHidden(b)
  BY LifecycleIs
<1> HIDE DEF a, b
<1>3. Alike(AdvanceLoadAndWear(a), AdvanceLoadAndWear(b))
  BY <1>1, <1>2 DEF AdvanceLoadAndWear, Alike, IsHidden
<1> QED
  BY <1>3 DEF Moved, a, b

LEMMA StepIs ==
    ASSUME NEW h, IsHidden(h), NEW e, NEW at, NEW goesIdle \in BOOLEAN, NEW residence, NEW frozen
    PROVE  IsHidden(Step(h, e, at, goesIdle, residence, frozen).hidden)
<1> DEFINE moved == Moved(h, goesIdle, residence)
           x == Observe(AffectState(moved, e, at)).temperature_c
           stepped == Step(h, e, at, goesIdle, residence, frozen).hidden
<1>1. stepped = [moved EXCEPT !.temperature = x, !.noise = @ + NoiseDraws]
  BY DEF Step, Moved
<1>2. IsHidden(moved)
  BY MovedIs
<1> HIDE DEF moved, x, stepped
<1>3. IsHidden(stepped)
  BY <1>1, <1>2 DEF IsHidden
<1> QED
  BY <1>3 DEF stepped

\* Two machines that differ in temperature at most differ in no more after a tick, whatever
\* the episodes; without one that acts on the wear, equal machines stay equal.
LEMMA StepForgets ==
    ASSUME NEW h, NEW k, IsHidden(h), IsHidden(k), Alike(h, k),
           NEW e, NEW at, NEW goesIdle \in BOOLEAN, NEW residence, NEW frozen
    PROVE  LET a == Step(h, e, at, goesIdle, residence, frozen).hidden
               b == Step(k, NoEpisode, at, goesIdle, residence, NoReading).hidden
           IN  /\ a = [b EXCEPT !.temperature = a.temperature]
               /\ h = k /\ ~ActsOnWear(e) => a = b
<1> DEFINE a == Step(h, e, at, goesIdle, residence, frozen).hidden
           b == Step(k, NoEpisode, at, goesIdle, residence, NoReading).hidden
           p == Moved(h, goesIdle, residence)
           q == Moved(k, goesIdle, residence)
           x == Observe(AffectState(p, e, at)).temperature_c
           y == Observe(AffectState(q, NoEpisode, at)).temperature_c
<1>1. a = [p EXCEPT !.temperature = x, !.noise = @ + NoiseDraws]
  BY DEF Step, Moved
<1>2. b = [q EXCEPT !.temperature = y, !.noise = @ + NoiseDraws]
  BY DEF Step, Moved
<1>3. Alike(p, q)
  BY MovedAlike
<1>4. IsHidden(p) /\ IsHidden(q)
  BY MovedIs
<1>5. h = k /\ ~ActsOnWear(e) => p = q /\ x = y
  BY DEF AffectState, ActsOnWear
<1> HIDE DEF a, b, p, q, x, y
<1>6. a = [b EXCEPT !.temperature = a.temperature]
  BY <1>1, <1>2, <1>3, <1>4 DEF IsHidden, Alike
<1>7. h = k /\ ~ActsOnWear(e) => a = b
  BY <1>1, <1>2, <1>5
<1> QED
  BY <1>6, <1>7 DEF a, b

-----------------------------------------------------------------------------
(* A sample is generated *)

\* The machine whose turn it is has no sample of this tick yet.
LEMMA TurnIsFresh ==
    ASSUME SimInv, pc = "generate", Len(batch) < Len(Fleet), emitted < MaxEvents
    PROVE  LET m == Fleet[Len(batch) + 1]
           IN  /\ m \in Machines
               /\ \A i \in DOMAIN batch : batch[i].machine # m
               /\ \A s \in generated : s.machine = m => s.at < Now
<1> USE DEF SimInv
<1> DEFINE m == Fleet[Len(batch) + 1]
<1>1. /\ Fleet \in Seq(Machines)
      /\ \A i, j \in DOMAIN Fleet : i # j => Fleet[i] # Fleet[j]
  BY ValidFleet DEF FleetAssumption
<1>2. Len(batch) \in Nat /\ DOMAIN batch = 1..Len(batch) /\ Len(Fleet) \in Nat
      /\ DOMAIN Fleet = 1..Len(Fleet)
  <2>1. batch \in Seq(Samples)
    BY DEF Shape
  <2> QED
    BY <1>1, <2>1
<1>3. Len(batch) + 1 \in DOMAIN Fleet /\ m \in Machines
  BY <1>1, <1>2 DEF Machines
<1>4. ASSUME NEW i \in DOMAIN batch PROVE batch[i].machine # m
  <2>1. i \in DOMAIN Fleet /\ i # Len(batch) + 1
    BY <1>2
  <2> QED
    BY <1>1, <1>3, <2>1 DEF BatchInOrder
<1>5. ASSUME NEW s \in generated, s.machine = m PROVE s.at < Now
  <2>1. s.at # Now
    BY <1>4, <1>5 DEF OnceATick, Waiting
  <2>2. s.at \in Nat /\ Now \in Nat /\ s.at <= Now
    BY TimePasses DEF OnceATick, Shape, Samples
  <2> QED
    BY <2>1, <2>2
<1> QED
  BY <1>3, <1>4, <1>5

\* The episodes after the scheduler of one machine has moved.
LEMMA EpisodesGoOn ==
    ASSUME SimInv, Now' = Now,
           NEW m \in Machines, NEW s, IsScheduler(s),
           Goes(s, sched[m], Now) \/ Rests(s, sched[m], Now) \/ Begins(s, sched[m], Now),
           \A t \in generated : t.machine = m => t.at < Now,
           sched' = [sched EXCEPT ![m] = s],
           generated' = generated \cup {Sample(m, Now, s.active)},
           history' = IF s.seq # sched[m].seq
                      THEN history \cup {[machine |-> m, episode |-> s.active]} ELSE history
    PROVE  EpisodesInOrder' /\ TruthTold' /\ s.active.seq \in Nat
<1> USE DEF SimInv
<1> DEFINE e == s.active
           T == Sample(m, Now, e)
           H == [machine |-> m, episode |-> e]
<1>1. T.machine = m /\ T.at = Now /\ T.episode = e.seq /\ H.machine = m /\ H.episode = e
  BY DEF Sample
<1>2. sched'[m] = s /\ \A k \in Machines : k # m => sched'[k] = sched[k]
  BY DEF Shape
<1>3. Now \in Nat /\ sched[m].seq \in Nat
  BY TimePasses DEF Shape, EpisodesInOrder
<1>4. NoEpisode.seq = 0
  BY DEF NoEpisode
<1>5. \A h \in history :
           /\ h.machine \in Machines
           /\ h.episode.seq \in Nat /\ h.episode.seq >= 1
           /\ sched[h.machine].seq \in Nat /\ h.episode.seq <= sched[h.machine].seq
           /\ h.episode.from \in Nat /\ h.episode.to \in Nat
           /\ h.episode.from <= Now /\ h.episode.from < h.episode.to
           /\ h.episode = sched[h.machine].active \/ h.episode.to <= Now
           /\ h.episode # NoEpisode
  <2> TAKE h \in history
  <2>1. h.machine \in Machines /\ h.episode.seq \in 1..sched[h.machine].seq
    BY DEF EpisodesInOrder
  <2>2. sched[h.machine].seq \in Nat
    BY <2>1 DEF EpisodesInOrder
  <2>3. /\ h.episode.seq \in Nat /\ h.episode.seq >= 1
        /\ h.episode.seq <= sched[h.machine].seq
    BY <2>1, <2>2
  <2>4. h.episode # NoEpisode
    BY <1>4, <2>3
  <2>5. /\ h.episode.from \in Nat /\ h.episode.to \in Nat
        /\ h.episode.from <= Now /\ h.episode.from < h.episode.to
        /\ h.episode = sched[h.machine].active \/ h.episode.to <= Now
    BY DEF EpisodesInOrder
  <2> QED
    BY <2>1, <2>2, <2>3, <2>4, <2>5
<1>6. \A t \in generated : t.machine \in Machines /\ t.at \in Nat /\ t.episode \in Nat
                             /\ t.at <= Now /\ t.episode <= sched[t.machine].seq
  BY DEF Shape, Samples, OnceATick, EpisodesInOrder
\* No earlier episode of the machine is active unless it goes on.
<1>7. ASSUME NEW h \in history, h.machine = m, ~MidEpisode(sched[m], Now)
      PROVE  h.episode.to <= Now
  BY <1>3, <1>5, <1>7 DEF MidEpisode, IsActive
<1>8. CASE Goes(s, sched[m], Now)
  <2>1. /\ s.seq = sched[m].seq /\ e = sched[m].active /\ e # NoEpisode
        /\ e.from <= Now /\ Now < e.to /\ history' = history
    BY <1>8 DEF Goes, MidEpisode, IsActive
  <2>2. H \in history /\ e.seq \in Nat /\ e.seq <= s.seq
    BY <1>5, <1>1, <2>1 DEF EpisodesInOrder
  <2>3. EpisodesInOrder'
    <3>1. \A k \in Machines : sched'[k].seq = sched[k].seq /\ sched'[k].active = sched[k].active
      BY <1>2, <2>1
    <3>2. T.episode <= sched'[T.machine].seq
      BY <1>1, <1>2, <2>2
    <3>3. ASSUME NEW t \in generated' PROVE t.episode <= sched'[t.machine].seq
      BY <1>6, <3>1, <3>2
    <3>4. \A k \in Machines :
            /\ sched'[k].seq \in Nat
            /\ sched'[k].active # NoEpisode =>
                 [machine |-> k, episode |-> sched'[k].active] \in history'
      BY <2>1, <3>1 DEF EpisodesInOrder
    <3>5. \A h \in history' :
            /\ h.machine \in Machines
            /\ h.episode.seq \in 1..sched'[h.machine].seq
            /\ h.episode.from \in Nat /\ h.episode.to \in Nat
            /\ h.episode.from <= Now /\ h.episode.from < h.episode.to
            /\ h.episode = sched'[h.machine].active \/ h.episode.to <= Now
      BY <2>1, <3>1 DEF EpisodesInOrder
    <3> QED
      BY <2>1, <3>3, <3>4, <3>5 DEF EpisodesInOrder
  <2>4. ASSUME NEW h \in history, h.machine = m
        PROVE  e.seq = h.episode.seq <=> h.episode.from <= Now /\ Now < h.episode.to
    <3>1. e.seq = h.episode.seq => h = H
      BY <1>1, <2>2, <2>4 DEF EpisodesInOrder
    <3>2. h.episode.from <= Now /\ Now < h.episode.to => h.episode = e
      BY <1>3, <1>5, <2>1, <2>4
    <3> QED
      BY <1>1, <2>1, <3>1, <3>2
  <2>5. TruthTold'
    BY <1>1, <2>1, <2>4 DEF TruthTold
  <2> QED
    BY <2>2, <2>3, <2>5
<1>9. CASE Rests(s, sched[m], Now)
  <2>1. s.seq = sched[m].seq /\ e = NoEpisode /\ ~MidEpisode(sched[m], Now) /\ history' = history
    BY <1>9 DEF Rests
  <2>2. EpisodesInOrder'
    <3>1. ASSUME NEW h \in history
          PROVE  h.episode = sched'[h.machine].active \/ h.episode.to <= Now
      BY <1>2, <1>5, <1>7, <2>1
    <3>2. \A k \in Machines : sched'[k].seq = sched[k].seq
      BY <1>2, <2>1
    <3>3. \A k \in Machines : sched'[k].active # NoEpisode =>
              [machine |-> k, episode |-> sched'[k].active] \in history
      BY <1>2, <2>1 DEF EpisodesInOrder
    <3>4. T.episode <= sched'[T.machine].seq
      BY <1>1, <1>2, <1>3, <1>4, <2>1
    <3>5. ASSUME NEW t \in generated' PROVE t.episode <= sched'[t.machine].seq
      BY <1>6, <3>2, <3>4
    <3>6. \A k \in Machines : sched'[k].seq \in Nat
      BY <3>2 DEF EpisodesInOrder
    <3>7. \A h \in history' :
            /\ h.machine \in Machines
            /\ h.episode.seq \in 1..sched'[h.machine].seq
            /\ h.episode.from \in Nat /\ h.episode.to \in Nat
            /\ h.episode.from <= Now /\ h.episode.from < h.episode.to
            /\ h.episode = sched'[h.machine].active \/ h.episode.to <= Now
      BY <2>1, <3>1, <3>2 DEF EpisodesInOrder
    <3> QED
      BY <2>1, <3>3, <3>5, <3>6, <3>7 DEF EpisodesInOrder
  <2>3. ASSUME NEW h \in history, h.machine = m
        PROVE  e.seq # h.episode.seq /\ h.episode.to <= Now
    BY <1>4, <1>5, <1>7, <2>1, <2>3
  <2>4. TruthTold'
    <3>1. ASSUME NEW h \in history, h.machine = m
          PROVE  ~(Now < h.episode.to)
      BY <1>3, <1>5, <2>3, <3>1
    <3> QED
      BY <1>1, <2>1, <2>3, <3>1 DEF TruthTold
  <2> QED
    BY <1>4, <2>1, <2>2, <2>4
<1>10. CASE Begins(s, sched[m], Now)
  <2>1. /\ s.seq = sched[m].seq + 1 /\ ~MidEpisode(sched[m], Now) /\ e # NoEpisode
        /\ e.seq = s.seq /\ e.from = Now /\ e.to \in Nat /\ e.to > Now
    BY <1>10 DEF Begins
  <2>2. s.seq \in Nat /\ s.seq # sched[m].seq /\ history' = history \cup {H}
    BY <1>3, <2>1
  <2>3. ASSUME NEW h \in history, h.machine = m
        PROVE  h.episode.seq # e.seq /\ h.episode.to <= Now /\ h.episode.seq <= s.seq
    BY <1>3, <1>5, <1>7, <2>1, <2>3
  <2>4. EpisodesInOrder'
    <3>1. ASSUME NEW k \in Machines
          PROVE  /\ sched'[k].seq \in Nat
                 /\ sched'[k].active # NoEpisode =>
                      [machine |-> k, episode |-> sched'[k].active] \in history'
      BY <1>2, <2>2 DEF EpisodesInOrder
    <3>2. ASSUME NEW h \in history'
          PROVE  /\ h.machine \in Machines
                 /\ h.episode.seq \in 1..sched'[h.machine].seq
                 /\ h.episode.from \in Nat /\ h.episode.to \in Nat
                 /\ h.episode.from <= Now /\ h.episode.from < h.episode.to
                 /\ h.episode = sched'[h.machine].active \/ h.episode.to <= Now
      <4>1. CASE h = H
        BY <1>1, <1>2, <1>3, <2>1, <2>2, <4>1
      <4>2. CASE h \in history /\ h.machine = m
        BY <1>2, <1>5, <2>2, <2>3, <4>2
      <4>3. CASE h \in history /\ h.machine # m
        BY <1>2, <1>5, <4>3
      <4> QED
        BY <2>2, <4>1, <4>2, <4>3
    <3>3. ASSUME NEW h \in history', NEW k \in history', h.machine = k.machine,
                 h.episode.seq = k.episode.seq
          PROVE  h = k
      <4>1. CASE h \in history /\ k \in history
        BY <3>3, <4>1 DEF EpisodesInOrder
      <4> QED
        BY <1>1, <2>2, <2>3, <3>3, <4>1
    <3>4. ASSUME NEW t \in generated' PROVE t.episode <= sched'[t.machine].seq
      <4>1. CASE t = T
        BY <1>1, <1>2, <2>1, <2>2, <4>1
      <4>2. CASE t \in generated /\ t.machine = m
        BY <1>2, <1>3, <1>6, <2>1, <4>2
      <4>3. CASE t \in generated /\ t.machine # m
        BY <1>2, <1>6, <4>3
      <4> QED
        BY <4>1, <4>2, <4>3
    <3> HIDE DEF H, T, e
    <3> QED
      BY <3>1, <3>2, <3>3, <3>4 DEF EpisodesInOrder
  <2>5. TruthTold'
    <3> SUFFICES ASSUME NEW t \in generated', NEW h \in history', t.machine = h.machine
                 PROVE  t.episode = h.episode.seq <=> h.episode.from <= t.at /\ t.at < h.episode.to
      BY DEF TruthTold
    <3>1. CASE t \in generated /\ h \in history
      BY <3>1 DEF TruthTold
    <3>2. CASE t \in generated /\ h = H
      <4>1. t.machine = m /\ t.at < Now /\ t.episode <= sched[m].seq /\ t.at \in Nat /\ t.episode \in Nat
        BY <1>1, <1>6, <3>2
      <4>2. t.episode # e.seq /\ ~(Now <= t.at)
        BY <1>3, <2>1, <4>1
      <4> QED
        BY <1>1, <2>1, <3>2, <4>2
    <3>3. CASE t = T /\ h \in history
      <4>1. h.machine = m
        BY <1>1, <3>3
      <4>2. h.episode.seq # e.seq /\ h.episode.to <= Now /\ h.episode.to \in Nat
        BY <1>5, <2>3, <3>3, <4>1
      <4>3. ~(Now < h.episode.to)
        BY <1>3, <4>2
      <4> QED
        BY <1>1, <3>3, <4>2, <4>3
    <3>4. CASE t = T /\ h = H
      BY <1>1, <1>3, <2>1, <3>4
    <3> QED
      BY <2>2, <3>1, <3>2, <3>3, <3>4
  <2> QED
    BY <2>1, <2>2, <2>4, <2>5
<1> QED
  BY <1>8, <1>9, <1>10

\* A machine and its twin after a tick.
LEMMA TraceGoesOn ==
    ASSUME SimInv, EpisodesInOrder',
           NEW m \in Machines, NEW s, IsScheduler(s), sched' = [sched EXCEPT ![m] = s],
           history \subseteq history',
           NEW goesIdle \in BOOLEAN, NEW residence, NEW frozen, NEW at,
           machine' = [machine EXCEPT
                         ![m] = Step(machine[m], s.active, at, goesIdle, residence, frozen).hidden],
           twin' = [twin EXCEPT
                      ![m] = Step(twin[m], NoEpisode, at, goesIdle, residence, NoReading).hidden]
    PROVE  AnomaliesLeaveNoTrace'
<1> USE DEF SimInv
<1> DEFINE e == s.active
           a == Step(machine[m], e, at, goesIdle, residence, frozen).hidden
           b == Step(twin[m], NoEpisode, at, goesIdle, residence, NoReading).hidden
           Traced == \E h \in history' : h.machine = m /\ ActsOnWear(h.episode)
<1>1. IsHidden(machine[m]) /\ IsHidden(twin[m])
  BY DEF Shape
<1>2. machine'[m] = a /\ twin'[m] = b /\ sched'[m] = s
  BY DEF Shape
<1>3. \A k \in Machines : k # m => machine'[k] = machine[k] /\ twin'[k] = twin[k]
  BY DEF Shape
<1>4. Alike(machine[m], twin[m])
  <2>1. CASE machine[m] = twin[m]
    BY <2>1 DEF Alike
  <2>2. CASE machine[m] = [twin[m] EXCEPT !.temperature = machine[m].temperature]
    BY <1>1, <2>2 DEF Alike, IsHidden
  <2> QED
    BY <2>1, <2>2 DEF AnomaliesLeaveNoTrace
<1>5. /\ a = [b EXCEPT !.temperature = a.temperature]
      /\ machine[m] = twin[m] /\ ~ActsOnWear(e) => a = b
  BY <1>1, <1>4, StepForgets
<1>6. ActsOnWear(e) => Traced
  <2>1. e # NoEpisode => [machine |-> m, episode |-> e] \in history'
    BY <1>2 DEF EpisodesInOrder
  <2> QED
    BY <2>1 DEF ActsOnWear
<1>7. machine[m] # twin[m] => Traced
  BY DEF AnomaliesLeaveNoTrace
<1> HIDE DEF a, b, e
<1>8. a = b \/ (Traced /\ a = [b EXCEPT !.temperature = a.temperature])
  BY <1>5, <1>6, <1>7
<1>9. ASSUME NEW k \in Machines, k # m
      PROVE  \/ machine'[k] = twin'[k]
             \/ /\ \E h \in history' : h.machine = k /\ ActsOnWear(h.episode)
                /\ machine'[k] = [twin'[k] EXCEPT !.temperature = machine'[k].temperature]
  BY <1>3, <1>9 DEF AnomaliesLeaveNoTrace
<1> QED
  BY <1>2, <1>8, <1>9 DEF AnomaliesLeaveNoTrace

LEMMA GenerateStep ==
    ASSUME SimInv, GenerateSample
    PROVE  SimInv'
<1> USE DEF SimInv
<1> DEFINE m == Fleet[Len(batch) + 1]
           T(e) == Sample(m, Now, e)
<1>1. /\ pc = "generate" /\ Len(batch) < Len(Fleet) /\ emitted < MaxEvents /\ emitted' = emitted + 1
      /\ UNCHANGED <<pc, stop, tick, lateness, publishing, client, result, exit>>
  BY DEF GenerateSample
<1>2. PICK s, goesIdle, residence, frozen :
         /\ s \in EpisodeAt(m, sched[m], Now)
         /\ goesIdle \in BOOLEAN /\ residence \in Residences
         /\ \E n \in {0, 1, 2} : Chance(n)
         /\ sched' = [sched EXCEPT ![m] = s]
         /\ machine' = [machine EXCEPT
                          ![m] = Step(machine[m], s.active, Now, goesIdle, residence, frozen).hidden]
         /\ twin' = [twin EXCEPT
                       ![m] = Step(@, NoEpisode, Now, goesIdle, residence, NoReading).hidden]
         /\ batch' = Append(batch, T(s.active))
         /\ generated' = generated \cup {T(s.active)}
         /\ history' = IF s.seq # sched[m].seq
                       THEN history \cup {[machine |-> m, episode |-> s.active]} ELSE history
  <2> PICK s \in EpisodeAt(m, sched[m], Now), goesIdle \in BOOLEAN, residence \in Residences :
         Advance(m, s, goesIdle, residence)
    BY DEF GenerateSample
  <2> DEFINE frozen == IF memory[m].seq = s.active.seq THEN memory[m].frozen ELSE NoReading
             n == (IF s.seq # sched[m].seq /\ s.active.drawn THEN 1 ELSE 0)
                    + (IF goesIdle THEN 0 ELSE 1)
  <2>1. /\ Chance(n)
        /\ sched' = [sched EXCEPT ![m] = s]
        /\ machine' = [machine EXCEPT
                         ![m] = Step(machine[m], s.active, Now, goesIdle, residence, frozen).hidden]
        /\ twin' = [twin EXCEPT
                      ![m] = Step(@, NoEpisode, Now, goesIdle, residence, NoReading).hidden]
        /\ batch' = Append(batch, T(s.active))
        /\ generated' = generated \cup {T(s.active)}
        /\ history' = IF s.seq # sched[m].seq
                      THEN history \cup {[machine |-> m, episode |-> s.active]} ELSE history
    BY DEF Advance
  <2>2. n \in {0, 1, 2}
    OBVIOUS
  <2> HIDE DEF n, m, T, frozen
  <2> QED
    BY <2>1, <2>2
<1> DEFINE t == T(s.active)
<1>3. /\ m \in Machines
      /\ \A i \in DOMAIN batch : batch[i].machine # m
      /\ \A g \in generated : g.machine = m => g.at < Now
  BY <1>1, TurnIsFresh
<1>4. Now' = Now /\ Now \in Nat
  BY <1>1, TimePasses DEF Now, Shape
<1>5. IsScheduler(sched[m]) /\ sched[m].seq \in Nat /\ IsHidden(machine[m]) /\ IsHidden(twin[m])
  BY <1>3 DEF Shape, EpisodesInOrder
<1>6. IsScheduler(s) /\ (Goes(s, sched[m], Now) \/ Rests(s, sched[m], Now) \/ Begins(s, sched[m], Now))
  BY <1>2, <1>3, <1>4, <1>5, EpisodeAtIs
<1>7. EpisodesInOrder' /\ TruthTold' /\ s.active.seq \in Nat
  BY <1>2, <1>3, <1>4, <1>6, EpisodesGoOn
<1>8. AnomaliesLeaveNoTrace'
  BY <1>2, <1>3, <1>6, <1>7, TraceGoesOn
<1>9. t \in Samples /\ t.machine = m /\ t.at = Now /\ t \notin generated
  BY <1>3, <1>4, <1>7 DEF Sample, Samples
<1>10. /\ outbox' = outbox /\ attempt' = attempt /\ broken' = broken /\ stats' = stats
       /\ sent' = sent /\ lost' = lost /\ labelled' = labelled /\ exit' = exit /\ pc' = pc
       /\ buffer' = buffer /\ outage' = outage /\ held' = held /\ stop' = stop /\ result' = result
       /\ inflight' = inflight /\ acked' = acked /\ failed' = failed /\ tick' = tick
  BY <1>1 DEF publishing, client, lateness
<1> HIDE DEF t, m
<1>11. /\ batch' = Append(batch, t) /\ batch' \in Seq(Samples)
       /\ Len(batch) \in Nat /\ Len(batch') = Len(batch) + 1
       /\ DOMAIN batch = 1..Len(batch) /\ DOMAIN batch' = 1..(Len(batch) + 1)
       /\ batch'[Len(batch) + 1] = t /\ \A i \in DOMAIN batch : batch'[i] = batch[i]
  <2>1. batch \in Seq(Samples) /\ batch' = Append(batch, t)
    BY <1>2 DEF Shape, t
  <2> QED
    BY <1>9, <2>1
<1>12. Waiting' = Waiting \cup {t} /\ generated' = generated \cup {t}
  <2>1. DOMAIN batch' = DOMAIN batch \cup {Len(batch) + 1}
    BY <1>11
  <2> QED
    BY <1>2, <1>11, <2>1 DEF Waiting, t
<1>13. Shape'
  <2>1. emitted' \in 0..MaxEvents
    <3>1. emitted \in 0..MaxEvents
      BY DEF Shape
    <3> QED
      BY <1>1, <3>1, RunConstants
  <2>2. chances' \in 0..MaxChances
    <3>1. PICK n \in {0, 1, 2} : Chance(n)
      BY <1>2
    <3>2. chances \in 0..MaxChances
      BY DEF Shape
    <3> QED
      BY <3>1, <3>2, RunConstants DEF Chance
  <2>3. /\ DOMAIN machine' = Machines /\ machine' = [k \in Machines |-> machine'[k]]
        /\ DOMAIN twin' = Machines /\ twin' = [k \in Machines |-> twin'[k]]
        /\ DOMAIN sched' = Machines /\ sched' = [k \in Machines |-> sched'[k]]
    BY <1>2 DEF Shape, m
  <2>4. ASSUME NEW k \in Machines
        PROVE  IsHidden(machine'[k]) /\ IsHidden(twin'[k]) /\ IsScheduler(sched'[k])
    <3>1. CASE k = m
      <4>1. /\ machine'[m] = Step(machine[m], s.active, Now, goesIdle, residence, frozen).hidden
            /\ twin'[m] = Step(twin[m], NoEpisode, Now, goesIdle, residence, NoReading).hidden
            /\ sched'[m] = s
        BY <1>2, <1>3 DEF Shape, m
      <4> QED
        BY <1>2, <1>5, <1>6, <3>1, <4>1, StepIs
    <3>2. CASE k # m
      <4>1. machine'[k] = machine[k] /\ twin'[k] = twin[k] /\ sched'[k] = sched[k]
        BY <1>2, <1>3, <3>2 DEF Shape, m
      <4> QED
        BY <4>1 DEF Shape
    <3> QED
      BY <3>1, <3>2
  <2>5. generated' \subseteq Samples
    BY <1>9, <1>12 DEF Shape
  <2>6. Queued' = Queued
    BY <1>10 DEF Queued
  <2>7. outbox' = <<>> /\ pc' = "generate"
    BY <1>1, <1>10 DEF Shape
  <2>8. tick' \in Nat /\ stop' \in BOOLEAN /\ exit' \in {0, 1} /\ exit' = 0
        /\ broken' # MaxEncodingFailures
    BY <1>1, <1>10 DEF Shape
  <2> QED
    BY <1>10, <1>11, <2>1, <2>2, <2>3, <2>4, <2>5, <2>6, <2>7, <2>8 DEF Shape
<1>14. BatchInOrder'
  <2>1. ASSUME NEW i \in DOMAIN batch' PROVE i \in DOMAIN batch \/ i = Len(batch) + 1
    BY <1>11
  <2>2. ASSUME NEW i \in DOMAIN batch' PROVE batch'[i] \in generated' /\ batch'[i].at = Now
    BY <1>9, <1>11, <1>12, <2>1 DEF BatchInOrder
  <2>3. ASSUME NEW i \in DOMAIN batch', NEW j \in DOMAIN batch', i # j
        PROVE  batch'[i].machine # batch'[j].machine
    <3>1. CASE i \in DOMAIN batch /\ j \in DOMAIN batch
      BY <1>11, <2>3, <3>1 DEF BatchInOrder
    <3>2. CASE i = Len(batch) + 1 /\ j \in DOMAIN batch
      BY <1>3, <1>9, <1>11, <3>2
    <3>3. CASE j = Len(batch) + 1 /\ i \in DOMAIN batch
      BY <1>3, <1>9, <1>11, <3>3
    <3> QED
      BY <2>1, <2>3, <3>1, <3>2, <3>3
  <2>4. ASSUME NEW i \in DOMAIN batch' PROVE batch'[i].machine = Fleet[i]
    <3>1. t.machine = Fleet[Len(batch) + 1]
      BY <1>9 DEF m
    <3> QED
      BY <1>1, <1>11, <2>1, <3>1 DEF BatchInOrder
  <2>5. Len(batch') <= Len(Fleet)
    <3>1. Len(Fleet) \in Nat
      BY ValidFleet DEF FleetAssumption
    <3> QED
      BY <1>1, <1>11, <3>1
  <2> QED
    BY <1>4, <2>2, <2>3, <2>4, <2>5 DEF BatchInOrder
<1>15. OnceATick'
  <2>1. ASSUME NEW g \in generated' PROVE g.at <= Now /\ (g.at = Now => g \in Waiting')
    <3>1. CASE g = t
      BY <1>4, <1>9, <1>12, <3>1
    <3>2. CASE g \in generated
      BY <1>1, <1>12, <3>2 DEF OnceATick
    <3> QED
      BY <1>12, <3>1, <3>2
  <2> QED
    BY <1>1, <1>4, <2>1 DEF OnceATick
<1>16. Placed'
  <2>1. InHand' = InHand /\ HeldSamples' = HeldSamples
    BY <1>10 DEF InHand, HeldSamples
  <2>2. exit = 0 /\ exit' = 0 /\ OnePlace
    BY <1>1, <1>10 DEF Placed, Shape
  <2>3. t \notin InHand \cup HeldSamples \cup sent \cup lost
    BY <1>9, <2>2 DEF OnePlace
  <2> QED
    BY <1>10, <1>12, <2>1, <2>2, <2>3 DEF Placed, OnePlace
<1>17. ParcelsInOrder'
  BY <1>10, <1>12 DEF ParcelsInOrder
<1>18. QueueTold' /\ RunTold'
  BY <1>10 DEF QueueTold, RunTold, Queued, SampleInHand
<1>19. LabelsAsked'
  BY <1>10, <1>12 DEF LabelsAsked
<1> QED
  BY <1>7, <1>8, <1>13, <1>14, <1>15, <1>16, <1>17, <1>18, <1>19

-----------------------------------------------------------------------------
(* Routing *)

LEMMA DelaysAre ==
    ASSUME NEW until \in Int, NEW at \in Nat, NEW d \in Delays(until, at)
    PROVE  d.delay \in Nat /\ d.until \in Int
<1>1. Jitters \subseteq Nat /\ Outages \subseteq Nat
  BY ValidFleet DEF FleetAssumption
<1>2. CASE d = [delay |-> until - at, until |-> until] /\ at < until
  BY <1>2
<1>3. CASE d = [delay |-> 0, until |-> NoTime]
  BY <1>3 DEF NoTime
<1>4. CASE \E x \in Jitters : d = [delay |-> x, until |-> NoTime]
  BY <1>1, <1>4 DEF NoTime
<1>5. CASE \E x \in Outages : d = [delay |-> x, until |-> at + x]
  BY <1>1, <1>5
<1> QED
  BY <1>2, <1>3, <1>4, <1>5 DEF Delays

\* The first sample of the batch leaves it; the others stay.
LEMMA TailOfBatch ==
    ASSUME SimInv, batch # <<>>, batch' = Tail(batch), Now' = Now, pc' # "generate",
           generated' = generated
    PROVE  LET s == Head(batch)
           IN  /\ s \in generated /\ s.at = Now /\ s.machine \in Machines /\ s.at \in Nat
               /\ Waiting = Waiting' \cup {s} /\ s \notin Waiting'
               /\ batch' \in Seq(Samples) /\ BatchInOrder'
<1> USE DEF SimInv
<1>1. /\ batch \in Seq(Samples) /\ Len(batch) \in Nat \ {0} /\ DOMAIN batch = 1..Len(batch)
      /\ Head(batch) = batch[1] /\ 1 \in DOMAIN batch
      /\ batch' \in Seq(Samples) /\ DOMAIN batch' = 1..(Len(batch) - 1)
      /\ \A i \in DOMAIN batch' : batch'[i] = batch[i + 1]
  <2>1. batch \in Seq(Samples)
    BY DEF Shape
  <2> QED
    BY <2>1
<1>2. \A i \in DOMAIN batch' : i + 1 \in DOMAIN batch /\ i + 1 # 1
  BY <1>1
<1>3. \A i \in DOMAIN batch : i # 1 => i - 1 \in DOMAIN batch' /\ (i - 1) + 1 = i
  BY <1>1
<1>4. Head(batch) \in generated /\ Head(batch).at = Now
  BY <1>1 DEF BatchInOrder
<1>5. Head(batch) \in Samples
  BY <1>4 DEF Shape
<1>6. Head(batch).machine \in Machines /\ Head(batch).at \in Nat
  BY <1>5 DEF Samples
<1>7. Waiting = Waiting' \cup {Head(batch)}
  <2>1. ASSUME NEW i \in DOMAIN batch PROVE batch[i] \in Waiting' \cup {Head(batch)}
    <3>1. CASE i = 1
      BY <1>1, <3>1
    <3>2. CASE i # 1
      <4>1. batch'[i - 1] = batch[i] /\ i - 1 \in DOMAIN batch'
        BY <1>1, <1>3, <3>2
      <4> QED
        BY <4>1 DEF Waiting
    <3> QED
      BY <3>1, <3>2
  <2>2. ASSUME NEW i \in DOMAIN batch' PROVE batch'[i] \in Waiting
    BY <1>1, <1>2 DEF Waiting
  <2>3. Waiting \subseteq Waiting' \cup {Head(batch)}
    BY <2>1 DEF Waiting
  <2>4. Waiting' \subseteq Waiting
    BY <2>2 DEF Waiting
  <2>5. Head(batch) \in Waiting
    BY <1>1 DEF Waiting
  <2> QED
    BY <2>3, <2>4, <2>5
<1>8. Head(batch) \notin Waiting'
  <2> SUFFICES ASSUME NEW i \in DOMAIN batch', batch'[i] = Head(batch) PROVE FALSE
    BY DEF Waiting
  <2>1. batch[i + 1] = batch[1] /\ i + 1 \in DOMAIN batch /\ i + 1 # 1
    BY <1>1, <1>2
  <2> QED
    BY <1>1, <2>1 DEF BatchInOrder
<1>9. BatchInOrder'
  <2>1. \A i \in DOMAIN batch' : batch'[i] \in generated' /\ batch'[i].at = Now'
    BY <1>1, <1>2 DEF BatchInOrder
  <2>2. ASSUME NEW i \in DOMAIN batch', NEW j \in DOMAIN batch', i # j
        PROVE  batch'[i].machine # batch'[j].machine
    <3>1. /\ i + 1 \in DOMAIN batch /\ j + 1 \in DOMAIN batch /\ i + 1 # j + 1
          /\ batch'[i] = batch[i + 1] /\ batch'[j] = batch[j + 1]
      BY <1>1, <1>2, <2>2
    <3> QED
      BY <3>1 DEF BatchInOrder
  <2> QED
    BY <2>1, <2>2 DEF BatchInOrder
<1> QED
  BY <1>1, <1>4, <1>6, <1>7, <1>8, <1>9

LEMMA RouteStep ==
    ASSUME SimInv, RouteSample
    PROVE  SimInv'
<1> USE DEF SimInv
<1> DEFINE s == Head(batch)
<1>1. PICK d \in Delays(outage[s.machine], s.at) :
         /\ \E n \in {0, 1} : Chance(n)
         /\ outage' = [outage EXCEPT ![s.machine] = d.until]
         /\ IF d.delay > 0
            THEN /\ buffer' = buffer \cup {Held(s, d.delay)} /\ held' = held + 1
                 /\ UNCHANGED <<pc, outbox>>
            ELSE /\ outbox' = Messages(s) /\ pc' = "publish"
                 /\ UNCHANGED <<buffer, held>>
         /\ result' = [result EXCEPT !.generated = @ + 1,
                                     !.delayed = @ + (IF d.delay > 0 THEN 1 ELSE 0)]
  BY DEF RouteSample
<1>2. /\ pc = "route" /\ batch # <<>> /\ batch' = Tail(batch)
      /\ stop' = stop /\ tick' = tick /\ emitted' = emitted /\ machine' = machine /\ twin' = twin
      /\ memory' = memory /\ sched' = sched /\ generated' = generated /\ history' = history
      /\ attempt' = attempt /\ broken' = broken /\ stats' = stats /\ sent' = sent /\ lost' = lost
      /\ labelled' = labelled /\ exit' = exit
      /\ inflight' = inflight /\ acked' = acked /\ failed' = failed
  BY DEF RouteSample, client
<1>3. Now' = Now /\ Now \in Nat /\ pc' \in {"route", "publish"}
  BY <1>1, <1>2, TimePasses DEF Now, Shape
<1>4. /\ s \in generated /\ s.at = Now /\ s.machine \in Machines /\ s.at \in Nat
      /\ Waiting = Waiting' \cup {s} /\ s \notin Waiting'
      /\ batch' \in Seq(Samples) /\ BatchInOrder'
  BY <1>2, <1>3, TailOfBatch
<1>5. outage[s.machine] \in Int
  BY <1>4 DEF Shape
<1>6. d.delay \in Nat /\ d.until \in Int
  BY <1>4, <1>5, DelaysAre
<1> HIDE DEF s
<1>7. exit = 0 /\ outbox = <<>> /\ broken # MaxEncodingFailures /\ broken \in 0..MaxEncodingFailures
      /\ pc # "publish"
  BY <1>2 DEF Shape
<1>8. InHand = {} /\ ~SampleInHand
  BY <1>7, InHandIs
<1>9. OnePlace /\ s \notin InHand \cup HeldSamples \cup sent \cup lost
  BY <1>4, <1>7 DEF Placed, OnePlace
<1>10. /\ result' \in Results
       /\ result'.generated = result.generated + 1 /\ result'.published = result.published
       /\ result'.labels = result.labels
  <2> DEFINE n == IF d.delay > 0 THEN 1 ELSE 0
  <2>1. n \in Nat
    OBVIOUS
  <2>2. result' = [result EXCEPT !.generated = @ + 1, !.delayed = @ + n]
    BY <1>1
  <2>3. result \in Results
    BY DEF Shape
  <2> HIDE DEF n
  <2>4. result' = [ticks |-> result.ticks, generated |-> result.generated + 1,
                   published |-> result.published, labels |-> result.labels,
                   delayed |-> result.delayed + n, buffered |-> result.buffered]
    BY <2>2, <2>3 DEF Results
  <2> QED
    BY <2>1, <2>3, <2>4 DEF Results
<1>11. IsFiniteSet(buffer) /\ Cardinality(buffer) \in Nat /\ Cardinality(lost) \in Nat
       /\ result.generated \in Nat /\ result.published \in Nat /\ held \in Nat
       /\ buffer \subseteq Parcels /\ s \in Samples
  BY <1>4, FS_CardinalityType DEF Shape, RunTold, Results
<1>12. outage' \in [Machines -> Int] /\ chances' \in 0..MaxChances /\ Queued' = Queued
  <2>1. outage' \in [Machines -> Int]
    BY <1>1, <1>4, <1>6 DEF Shape
  <2>2. chances' \in 0..MaxChances
    <3>1. PICK n \in {0, 1} : Chance(n)
      BY <1>1
    <3>2. chances \in 0..MaxChances
      BY DEF Shape
    <3> QED
      BY <3>1, <3>2, RunConstants DEF Chance
  <2>3. Queued' = Queued
    BY <1>2 DEF Queued
  <2> QED
    BY <2>1, <2>2, <2>3
<1>13. EpisodesInOrder' /\ TruthTold' /\ LabelsAsked' /\ AnomaliesLeaveNoTrace' /\ OnceATick'
  BY <1>2, <1>3 DEF EpisodesInOrder, TruthTold, LabelsAsked, AnomaliesLeaveNoTrace, OnceATick
<1>14. QueueTold'
  BY <1>2, <1>12 DEF QueueTold
<1>15. result.generated = result.published + Cardinality(lost) + Cardinality(buffer)
  <2>1. broken < MaxEncodingFailures
    BY <1>7, RunConstants
  <2>2. result.generated = result.published + Cardinality(lost) + Cardinality(buffer)
                             + (IF SampleInHand THEN 1 ELSE 0)
    BY <2>1 DEF RunTold
  <2> QED
    BY <1>8, <1>11, <2>2
<1>16. CASE d.delay > 0
  <2> DEFINE p == Held(s, d.delay)
  <2>1. p.at = s.at + d.delay /\ p.n = held + 1 /\ p.sample = s
    BY DEF Held
  <2>2. p \in Parcels
    <3>1. s \in Samples /\ held + 1 \in Nat \ {0} /\ s.at + d.delay \in Int
      BY <1>4, <1>6, <1>11
    <3> QED
      BY <3>1 DEF Held, Parcels
  <2>3. buffer' = buffer \cup {p} /\ held' = held + 1 /\ pc' = pc /\ outbox' = outbox
    BY <1>1, <1>16
  <2>4. \A q \in buffer : /\ q.n \in Nat /\ q.n <= held /\ held \in Nat
                          /\ q.sample \in generated /\ q.sample.at <= Now /\ q.sample # s
    <3> SUFFICES ASSUME NEW q \in buffer
                 PROVE  /\ q.n \in Nat /\ q.n <= held /\ held \in Nat
                        /\ q.sample \in generated /\ q.sample.at <= Now /\ q.sample # s
      OBVIOUS
    <3>1. q \in Parcels /\ held \in Nat
      BY DEF Shape
    <3>2. q.n \in Nat
      BY <3>1 DEF Parcels
    <3>3. q.n <= held /\ q.sample \in generated /\ q.sample.at <= Now
      BY DEF ParcelsInOrder, OnceATick
    <3>4. q.sample \in HeldSamples
      BY DEF HeldSamples
    <3> QED
      BY <1>9, <3>1, <3>2, <3>3, <3>4
  <2> HIDE DEF p
  <2>5. p \notin buffer
    BY <2>1, <2>4
  <2>6. IsFiniteSet(buffer') /\ Cardinality(buffer') = Cardinality(buffer) + 1
    BY <1>11, <2>3, <2>5, FS_AddElement
  <2>7. HeldSamples' = HeldSamples \cup {s} /\ InHand' = InHand /\ ~SampleInHand'
    BY <1>8, <2>1, <2>3 DEF HeldSamples, InHand, SampleInHand
  <2>8. Shape'
    <3>1. buffer' \subseteq Parcels /\ held' \in Nat
      BY <1>11, <2>2, <2>3
    <3> QED
      BY <1>2, <1>4, <1>7, <1>10, <1>12, <2>3, <2>6, <3>1 DEF Shape
  <2>9. Placed'
    <3>1. generated = Waiting' \cup InHand \cup (HeldSamples \cup {s}) \cup sent \cup lost
      BY <1>4, <1>9 DEF OnePlace
    <3>2. s \notin Waiting' /\ s \notin InHand /\ s \notin sent /\ s \notin lost
      BY <1>4, <1>9
    <3>3. OnePlace'
      BY <1>2, <1>4, <1>9, <2>7, <3>1, <3>2 DEF OnePlace
    <3> QED
      BY <1>2, <1>7, <3>3 DEF Placed
  <2>10. ParcelsInOrder'
    <3>1. \A q \in buffer' : q.n <= held' /\ q.sample \in generated'
      BY <1>2, <1>4, <2>1, <2>3, <2>4
    <3>2. ASSUME NEW q \in buffer', NEW r \in buffer', q.n <= r.n
          PROVE  q.sample.at <= r.sample.at
      <4>1. CASE q \in buffer /\ r \in buffer
        BY <3>2, <4>1 DEF ParcelsInOrder
      <4>2. CASE q = p /\ r = p
        BY <1>4, <2>1, <4>2
      <4>3. CASE q \in buffer /\ r = p
        BY <1>4, <2>1, <2>4, <4>3
      <4>4. CASE q = p /\ r \in buffer
        BY <2>1, <2>4, <3>2, <4>4
      <4> QED
        BY <2>3, <4>1, <4>2, <4>3, <4>4
    <3>3. ASSUME NEW q \in buffer', NEW r \in buffer', q.n = r.n \/ q.sample = r.sample
          PROVE  q = r
      <4>1. CASE q \in buffer /\ r \in buffer
        BY <3>3, <4>1 DEF ParcelsInOrder
      <4>2. CASE q \in buffer /\ r = p
        BY <2>1, <2>4, <3>3, <4>2
      <4>3. CASE q = p /\ r \in buffer
        BY <2>1, <2>4, <3>3, <4>3
      <4> QED
        BY <2>3, <4>1, <4>2, <4>3
    <3> QED
      BY <3>1, <3>2, <3>3 DEF ParcelsInOrder
  <2>11. RunTold'
    <3>1. result'.generated = result'.published + Cardinality(lost') + Cardinality(buffer')
      <4>1. result.generated + 1 = result.published + Cardinality(lost) + (Cardinality(buffer) + 1)
        BY <1>11, <1>15
      <4> QED
        BY <1>2, <1>10, <2>6, <4>1
    <3>2. result.published \in Nat /\ Cardinality(buffer') \in Nat
      BY <1>11, <2>6
    <3>3. pc' = "route" /\ exit' = 0
      BY <1>2, <1>7, <2>3
    <3> QED
      BY <1>2, <1>10, <1>11, <2>7, <3>1, <3>2, <3>3 DEF RunTold
  <2> QED
    BY <1>4, <1>13, <1>14, <2>8, <2>9, <2>10, <2>11
<1>17. CASE ~(d.delay > 0)
  <2>1. outbox' = Messages(s) /\ pc' = "publish" /\ buffer' = buffer /\ held' = held
    BY <1>1, <1>17
  <2>2. outbox' \in Remains(s)
    BY <1>4, <2>1, MessagesOf DEF Remains
  <2>3. InHand' = {s} /\ SampleInHand'
    <3>1. outbox' = <<Telemetry(s)>> \/ outbox' = <<Telemetry(s), Label(s)>>
      BY <1>4, <2>1, MessagesOf
    <3> QED
      BY <3>1, InHandIs, InHandOfNext
  <2>4. Shape'
    BY <1>2, <1>4, <1>7, <1>10, <1>12, <2>1, <2>2 DEF Shape
  <2>5. Placed'
    <3>1. HeldSamples' = HeldSamples
      BY <2>1 DEF HeldSamples
    <3> QED
      BY <1>2, <1>4, <1>7, <1>8, <1>9, <2>3, <3>1 DEF Placed, OnePlace
  <2>6. ParcelsInOrder'
    BY <1>2, <2>1 DEF ParcelsInOrder
  <2>7. RunTold'
    BY <1>2, <1>7, <1>10, <1>11, <1>15, <2>1, <2>3 DEF RunTold, Shape
  <2> QED
    BY <1>4, <1>13, <1>14, <2>4, <2>5, <2>6, <2>7
<1> QED
  BY <1>6, <1>16, <1>17

LEMMA ReleaseStep ==
    ASSUME SimInv, ReleaseHeld
    PROVE  SimInv'
<1> USE DEF SimInv
<1>1. PICK p \in Due : buffer' = buffer \ {p} /\ outbox' = Messages(p.sample)
  BY DEF ReleaseHeld, Popped
<1>2. /\ pc = "route" /\ batch = <<>> /\ pc' = "publish"
      /\ stop' = stop /\ tick' = tick /\ emitted' = emitted /\ machine' = machine /\ twin' = twin
      /\ memory' = memory /\ sched' = sched /\ generated' = generated /\ history' = history
      /\ outage' = outage /\ held' = held /\ batch' = batch
      /\ attempt' = attempt /\ broken' = broken /\ stats' = stats /\ sent' = sent /\ lost' = lost
      /\ labelled' = labelled /\ exit' = exit /\ result' = result /\ chances' = chances
      /\ inflight' = inflight /\ acked' = acked /\ failed' = failed
  BY DEF ReleaseHeld, client, generation
<1>3. p \in buffer
  BY DEF Due
<1> DEFINE s == p.sample
<1>4. s \in generated /\ s \in HeldSamples
  BY <1>3 DEF ParcelsInOrder, HeldSamples
<1>5. HeldSamples' = HeldSamples \ {s}
  <2>1. ASSUME NEW q \in buffer, q.sample = s PROVE q = p
    BY <1>3, <2>1 DEF ParcelsInOrder
  <2> QED
    BY <1>1, <1>3, <2>1 DEF HeldSamples
<1> HIDE DEF s
<1>6. exit = 0 /\ outbox = <<>> /\ broken # MaxEncodingFailures /\ broken \in 0..MaxEncodingFailures
  BY <1>2 DEF Shape
<1>7. InHand = {} /\ ~SampleInHand
  BY <1>6, InHandIs
<1>8. outbox' \in Remains(s) /\ InHand' = {s} /\ SampleInHand'
  <2>1. outbox' = Messages(s)
    BY <1>1 DEF s
  <2>2. outbox' \in Remains(s)
    BY <1>4, <2>1, MessagesOf DEF Remains
  <2>3. outbox' = <<Telemetry(s)>> \/ outbox' = <<Telemetry(s), Label(s)>>
    BY <1>4, <2>1, MessagesOf
  <2> QED
    BY <2>2, <2>3, InHandOfNext
<1>9. /\ IsFiniteSet(buffer) /\ IsFiniteSet(buffer') /\ buffer' \subseteq Parcels
      /\ Cardinality(buffer) \in Nat /\ Cardinality(buffer') \in Nat
      /\ Cardinality(buffer') = Cardinality(buffer) - 1
  <2>1. IsFiniteSet(buffer) /\ buffer \subseteq Parcels
    BY DEF Shape
  <2>2. IsFiniteSet(buffer') /\ Cardinality(buffer') = Cardinality(buffer) - 1
    BY <1>1, <1>3, <2>1, FS_RemoveElement
  <2> QED
    BY <1>1, <2>1, <2>2, FS_CardinalityType
<1>10. Shape'
  <2>1. Queued' = Queued
    BY <1>2 DEF Queued
  <2> QED
    BY <1>2, <1>4, <1>6, <1>8, <1>9, <2>1 DEF Shape
<1>11. Placed'
  <2>1. OnePlace /\ Waiting' = Waiting
    BY <1>2, <1>6 DEF Placed, Waiting
  <2> QED
    BY <1>2, <1>4, <1>5, <1>7, <1>8, <2>1 DEF Placed, OnePlace
<1>12. ParcelsInOrder'
  BY <1>1, <1>2 DEF ParcelsInOrder
<1>13. BatchInOrder' /\ OnceATick' /\ EpisodesInOrder' /\ TruthTold' /\ LabelsAsked'
         /\ AnomaliesLeaveNoTrace'
  BY <1>2 DEF BatchInOrder, OnceATick, EpisodesInOrder, TruthTold, LabelsAsked,
              AnomaliesLeaveNoTrace, Now
<1>14. QueueTold'
  BY <1>2 DEF QueueTold, Queued
<1>15. RunTold'
  <2>1. broken < MaxEncodingFailures
    BY <1>6, RunConstants
  <2>2. result.generated = result.published + Cardinality(lost) + Cardinality(buffer)
                             + (IF SampleInHand THEN 1 ELSE 0)
    BY <2>1 DEF RunTold
  <2>3. Cardinality(lost) \in Nat /\ result.published \in Nat
    BY FS_CardinalityType DEF RunTold, Shape, Results
  <2>4. result.generated = result.published + Cardinality(lost) + Cardinality(buffer') + 1
    BY <1>7, <1>9, <2>2, <2>3
  <2> QED
    BY <1>2, <1>6, <1>8, <2>4 DEF RunTold
<1> QED
  BY <1>10, <1>11, <1>12, <1>13, <1>14, <1>15

LEMMA EndTickStep ==
    ASSUME SimInv, EndTick
    PROVE  SimInv'
<1> USE DEF SimInv
<1>1. /\ pc = "route" /\ batch = <<>> /\ pc' = "top"
      /\ tick' = IF emitted >= MaxEvents THEN tick ELSE tick + 1
      /\ stop' = stop /\ emitted' = emitted /\ machine' = machine /\ twin' = twin
      /\ memory' = memory /\ sched' = sched /\ generated' = generated /\ history' = history
      /\ outage' = outage /\ buffer' = buffer /\ held' = held /\ batch' = batch /\ outbox' = outbox
      /\ attempt' = attempt /\ broken' = broken /\ stats' = stats /\ sent' = sent /\ lost' = lost
      /\ labelled' = labelled /\ exit' = exit /\ result' = result /\ chances' = chances
      /\ inflight' = inflight /\ acked' = acked /\ failed' = failed
  BY DEF EndTick, client, lateness, publishing
<1>2. /\ exit = 0 /\ outbox = <<>> /\ broken # MaxEncodingFailures /\ tick \in Nat
      /\ emitted \in 0..MaxEvents
  BY <1>1 DEF Shape
<1>3. /\ tick' \in Nat /\ Now \in Nat /\ Now' \in Nat /\ Now <= Now'
      /\ emitted < MaxEvents => Now < Now'
  <2>1. Now \in Nat /\ TickLen \in Nat /\ TickLen > 0 /\ (tick + 1) * TickLen = Now + TickLen
    BY <1>2, TimePasses
  <2>2. CASE emitted >= MaxEvents
    <3>1. tick' = tick /\ Now' = Now
      BY <1>1, <2>2 DEF Now
    <3> QED
      BY <1>2, <2>1, <2>2, <3>1, RunConstants
  <2>3. CASE ~(emitted >= MaxEvents)
    <3>1. tick' = tick + 1
      BY <1>1, <2>3
    <3>2. Now' = Now + TickLen
      BY <2>1, <3>1 DEF Now
    <3> QED
      BY <1>2, <2>1, <3>1, <3>2
  <2> QED
    BY <2>2, <2>3
<1>4. Shape'
  <2>1. Queued' = Queued
    BY <1>1 DEF Queued
  <2> QED
    BY <1>1, <1>2, <1>3, <2>1 DEF Shape
<1>5. BatchInOrder'
  <2>1. Len(batch) = 0 /\ DOMAIN batch = {}
    BY <1>1
  <2> QED
    BY <1>1, <2>1 DEF BatchInOrder
<1>6. OnceATick'
  <2>1. \A s \in generated : s.at \in Nat /\ s.at <= Now
    BY DEF OnceATick, Shape, Samples
  <2>2. \A s \in generated : s.at <= Now' /\ (emitted < MaxEvents => s.at < Now')
    BY <1>3, <2>1
  <2> QED
    BY <1>1, <2>2 DEF OnceATick
<1>7. EpisodesInOrder'
  <2>1. ASSUME NEW h \in history
        PROVE  /\ h.episode.from <= Now'
               /\ h.episode = sched[h.machine].active \/ h.episode.to <= Now'
    <3>1. /\ h.episode.from \in Nat /\ h.episode.to \in Nat /\ h.episode.from <= Now
          /\ h.episode = sched[h.machine].active \/ h.episode.to <= Now
      BY DEF EpisodesInOrder
    <3> QED
      BY <1>3, <3>1
  <2> QED
    BY <1>1, <2>1 DEF EpisodesInOrder
<1>8. Placed' /\ ParcelsInOrder' /\ TruthTold' /\ LabelsAsked' /\ AnomaliesLeaveNoTrace'
  <2>1. Waiting' = Waiting /\ InHand' = InHand /\ HeldSamples' = HeldSamples
    BY <1>1 DEF Waiting, InHand, HeldSamples
  <2>2. Placed'
    BY <1>1, <2>1 DEF Placed, OnePlace
  <2>3. ParcelsInOrder' /\ TruthTold'
    BY <1>1 DEF ParcelsInOrder, TruthTold
  <2>4. LabelsAsked' /\ AnomaliesLeaveNoTrace'
    BY <1>1 DEF LabelsAsked, AnomaliesLeaveNoTrace
  <2> QED
    BY <2>2, <2>3, <2>4
<1>9. QueueTold' /\ RunTold'
  BY <1>1 DEF QueueTold, Queued, RunTold, SampleInHand
<1> QED
  BY <1>4, <1>5, <1>6, <1>7, <1>8, <1>9

-----------------------------------------------------------------------------
(* Publication *)

\* The message at the head of the outbox, and what is in hand once it is gone.
LEMMA HeadOfOutbox ==
    ASSUME SimInv, pc = "publish"
    PROVE  \E s \in generated :
              /\ outbox \in Remains(s) /\ Head(outbox).sample = s
              /\ \/ /\ Head(outbox).topic = "telemetry" /\ InHand = {s} /\ SampleInHand
                 \/ /\ Head(outbox).topic = "label" /\ HasLabel(s) /\ InHand = {} /\ ~SampleInHand
              /\ NextMessage =>
                    /\ InHand' = {} /\ ~SampleInHand' /\ attempt' = 0
                    /\ \/ pc' = "publish" /\ outbox' \in Remains(s)
                       \/ pc' = "route" /\ outbox' = <<>>
<1>1. PICK s \in generated : outbox \in Remains(s)
  BY DEF SimInv, Shape
<1>2. /\ Telemetry(s).topic = "telemetry" /\ Telemetry(s).sample = s
      /\ Label(s).topic = "label" /\ Label(s).sample = s
  BY DEF Telemetry, Label, Message
<1>3. CASE outbox = <<Telemetry(s)>>
  <2>1. Head(outbox) = Telemetry(s) /\ Tail(outbox) = <<>> /\ Len(outbox) = 1
    BY <1>3
  <2>2. InHand = {s} /\ SampleInHand
    BY <1>3, InHandIs
  <2>3. NextMessage => outbox' = <<>> /\ pc' = "route" /\ attempt' = 0
    BY <2>1 DEF NextMessage
  <2>4. NextMessage => InHand' = {} /\ ~SampleInHand'
    BY <2>3, InHandOfNext
  <2> QED
    BY <1>1, <1>2, <2>1, <2>2, <2>3, <2>4
<1>4. CASE outbox = <<Telemetry(s), Label(s)>> /\ HasLabel(s)
  <2>1. Head(outbox) = Telemetry(s) /\ Tail(outbox) = <<Label(s)>> /\ Len(outbox) = 2
    BY <1>4
  <2>2. InHand = {s} /\ SampleInHand
    BY <1>4, InHandIs
  <2>3. NextMessage => outbox' = <<Label(s)>> /\ pc' = "publish" /\ attempt' = 0
    BY <2>1 DEF NextMessage
  <2>4. NextMessage => InHand' = {} /\ ~SampleInHand'
    BY <2>3, InHandOfNext
  <2>5. <<Label(s)>> \in Remains(s)
    BY <1>4 DEF Remains
  <2> QED
    BY <1>1, <1>2, <2>1, <2>2, <2>3, <2>4, <2>5
<1>5. CASE outbox = <<Label(s)>> /\ HasLabel(s)
  <2>1. Head(outbox) = Label(s) /\ Tail(outbox) = <<>> /\ Len(outbox) = 1
    BY <1>5
  <2>2. InHand = {} /\ ~SampleInHand
    BY <1>5, InHandIs
  <2>3. NextMessage => outbox' = <<>> /\ pc' = "route" /\ attempt' = 0
    BY <2>1 DEF NextMessage
  <2>4. NextMessage => InHand' = {} /\ ~SampleInHand'
    BY <2>3, InHandOfNext
  <2> QED
    BY <1>1, <1>2, <1>5, <2>1, <2>2, <2>3, <2>4
<1> QED
  BY <1>1, <1>3, <1>4, <1>5 DEF Remains

\* Polling moves what the callbacks report from the queue into the counters.
LEMMA PolledIs ==
    ASSUME SimInv
    PROVE  /\ Polled(stats) \in Stats
           /\ Polled(stats).telemetry = stats.telemetry /\ Polled(stats).labels = stats.labels
           /\ Polled(stats).dropped = stats.dropped
           /\ stats.telemetry + stats.labels
                = Polled(stats).delivered + Polled(stats).failures + inflight
           /\ inflight \in Nat /\ inflight <= QueueCapacity
           /\ acked + failed = 0 => Queued = inflight
<1>1. /\ stats \in Stats /\ acked \in Nat /\ failed \in Nat /\ inflight \in Nat
      /\ inflight + acked + failed <= QueueCapacity
  BY DEF SimInv, Shape, Queued
<1>2. Polled(stats) = [telemetry |-> stats.telemetry, labels |-> stats.labels,
                       delivered |-> stats.delivered + acked,
                       failures |-> stats.failures + failed, dropped |-> stats.dropped]
  <2>1. stats = [telemetry |-> stats.telemetry, labels |-> stats.labels,
                 delivered |-> stats.delivered, failures |-> stats.failures,
                 dropped |-> stats.dropped]
    BY <1>1 DEF Stats
  <2>2. Polled(stats) = [stats EXCEPT !.delivered = @ + acked, !.failures = @ + failed]
    BY DEF Polled
  <2> QED
    BY <2>1, <2>2
<1>3. /\ stats.telemetry \in Nat /\ stats.labels \in Nat /\ stats.delivered \in Nat
      /\ stats.failures \in Nat /\ stats.dropped \in Nat
  BY <1>1 DEF Stats
<1>4. stats.telemetry + stats.labels = stats.delivered + stats.failures + (inflight + acked + failed)
  BY DEF SimInv, QueueTold, Queued
<1>5. Polled(stats) \in Stats
  BY <1>1, <1>2, <1>3 DEF Stats
<1>6. stats.telemetry + stats.labels
        = (stats.delivered + acked) + (stats.failures + failed) + inflight
  BY <1>1, <1>3, <1>4
<1>7. inflight <= QueueCapacity
  BY <1>1, RunConstants
<1>8. acked + failed = 0 => Queued = inflight
  BY <1>1 DEF Queued
<1> QED
  BY <1>1, <1>2, <1>5, <1>6, <1>7, <1>8

\* The shape after a message has been dealt with and the run goes on.
LEMMA PublisherShape ==
    ASSUME SimInv, UNCHANGED <<generation, lateness>>, pc = "publish",
           stop' = stop, exit' = exit, chances' \in 0..MaxChances,
           inflight' \in Nat, acked' \in Nat, failed' \in Nat, Queued' <= QueueCapacity,
           attempt' \in 0..(BufferRetries - 1),
           broken' \in 0..MaxEncodingFailures, broken' # MaxEncodingFailures,
           stats' \in Stats, result' \in Results,
           \/ pc' = "publish" /\ \E s \in generated : outbox' \in Remains(s)
           \/ pc' = "route" /\ outbox' = <<>>
    PROVE  Shape'
<1> USE DEF SimInv
<1>1. /\ tick' \in Nat /\ emitted' \in 0..MaxEvents
      /\ batch' \in Seq(Samples) /\ generated' \subseteq Samples
      /\ DOMAIN machine' = Machines /\ machine' = [m \in Machines |-> machine'[m]]
      /\ DOMAIN twin' = Machines /\ twin' = [m \in Machines |-> twin'[m]]
      /\ outage' \in [Machines -> Int]
      /\ DOMAIN sched' = Machines /\ sched' = [m \in Machines |-> sched'[m]]
      /\ \A m \in Machines :
            IsHidden(machine'[m]) /\ IsHidden(twin'[m]) /\ IsScheduler(sched'[m])
      /\ held' \in Nat /\ buffer' \subseteq Parcels /\ IsFiniteSet(buffer')
  BY ShapeKept
<1>2. exit = 0 /\ stop' \in BOOLEAN /\ generated' = generated
  BY DEF Shape, generation
<1>3. IF pc' = "publish" THEN \E s \in generated' : outbox' \in Remains(s) ELSE outbox' = <<>>
  BY <1>2
<1> QED
  BY <1>1, <1>2, <1>3 DEF Shape

LEMMA ProduceStep ==
    ASSUME SimInv, Produce
    PROVE  SimInv'
<1> USE DEF SimInv
<1> DEFINE msg == Head(outbox)
<1>1. /\ pc = "publish" /\ Queued < QueueCapacity
      /\ stats' = Counted(Polled(stats), msg.topic)
      /\ inflight' = inflight + 1 /\ acked' = 0 /\ failed' = 0 /\ broken' = 0
      /\ NextMessage
      /\ stop' = stop /\ lost' = lost /\ exit' = exit /\ chances' = chances
      /\ UNCHANGED <<generation, lateness>>
  BY DEF Produce
<1>2. \/ /\ msg.topic = "telemetry" /\ sent' = sent \cup {msg.sample} /\ labelled' = labelled
         /\ result' = [result EXCEPT !.published = @ + 1]
      \/ /\ msg.topic # "telemetry" /\ labelled' = labelled \cup {msg.sample} /\ sent' = sent
         /\ result' = [result EXCEPT !.labels = @ + 1]
  BY DEF Produce
<1>3. PICK s \in generated :
         /\ msg.sample = s
         /\ \/ msg.topic = "telemetry" /\ InHand = {s} /\ SampleInHand
            \/ msg.topic = "label" /\ HasLabel(s) /\ InHand = {} /\ ~SampleInHand
         /\ InHand' = {} /\ ~SampleInHand' /\ attempt' = 0
         /\ \/ pc' = "publish" /\ outbox' \in Remains(s)
            \/ pc' = "route" /\ outbox' = <<>>
  BY <1>1, HeadOfOutbox
<1> HIDE DEF msg
<1>4. /\ exit = 0 /\ broken # MaxEncodingFailures /\ broken < MaxEncodingFailures
      /\ stats \in Stats /\ result \in Results
      /\ inflight \in Nat /\ acked \in Nat /\ failed \in Nat /\ Queued <= QueueCapacity
  <2>1. /\ exit = 0 /\ broken # MaxEncodingFailures /\ broken \in 0..MaxEncodingFailures
        /\ stats \in Stats /\ result \in Results
        /\ inflight \in Nat /\ acked \in Nat /\ failed \in Nat /\ Queued <= QueueCapacity
    BY <1>1 DEF Shape
  <2> QED
    BY <2>1, RunConstants
<1> DEFINE st == Polled(stats)
<1>5. /\ st \in Stats /\ st.telemetry = stats.telemetry /\ st.labels = stats.labels
      /\ stats.telemetry + stats.labels = st.delivered + st.failures + inflight
  BY PolledIs
<1> HIDE DEF st
<1>6. /\ generated' = generated /\ batch' = batch /\ buffer' = buffer
      /\ Waiting' = Waiting /\ HeldSamples' = HeldSamples
  BY <1>1 DEF generation, lateness, Waiting, HeldSamples
<1>7. Queued' = inflight + 1 /\ inflight' \in Nat /\ Queued' <= QueueCapacity
  <2>1. inflight + acked + failed < QueueCapacity /\ QueueCapacity \in Nat
    BY <1>1, RunConstants DEF Queued
  <2>2. inflight + 1 <= QueueCapacity /\ inflight + 1 \in Nat /\ (inflight + 1) + 0 + 0 = inflight + 1
    BY <1>4, <2>1
  <2> QED
    BY <1>1, <2>2 DEF Queued
<1>8. /\ stats' \in Stats
      /\ stats'.delivered = st.delivered /\ stats'.failures = st.failures
      /\ IF msg.topic = "telemetry"
         THEN stats'.telemetry = st.telemetry + 1 /\ stats'.labels = st.labels
         ELSE stats'.telemetry = st.telemetry /\ stats'.labels = st.labels + 1
  <2>1. CASE msg.topic = "telemetry"
    <3>1. stats' = [st EXCEPT !.telemetry = @ + 1]
      BY <1>1, <2>1 DEF Counted, st
    <3> QED
      BY <1>5, <2>1, <3>1 DEF Stats
  <2>2. CASE msg.topic # "telemetry"
    <3>1. stats' = [st EXCEPT !.labels = @ + 1]
      BY <1>1, <2>2 DEF Counted, st
    <3> QED
      BY <1>5, <2>2, <3>1 DEF Stats
  <2> QED
    BY <2>1, <2>2
<1>9. /\ result' \in Results /\ result'.generated = result.generated
      /\ IF msg.topic = "telemetry"
         THEN result'.published = result.published + 1 /\ result'.labels = result.labels
         ELSE result'.published = result.published /\ result'.labels = result.labels + 1
  <2>1. CASE msg.topic = "telemetry"
    BY <1>2, <1>4, <2>1 DEF Results
  <2>2. CASE msg.topic # "telemetry"
    BY <1>2, <1>4, <2>2 DEF Results
  <2> QED
    BY <2>1, <2>2
<1>10. Shape'
  <2>1. attempt' \in 0..(BufferRetries - 1) /\ broken' \in 0..MaxEncodingFailures
        /\ broken' # MaxEncodingFailures
    BY <1>1, <1>3, RunConstants
  <2>2. chances' \in 0..MaxChances
    BY <1>1 DEF Shape
  <2>3. acked' \in Nat /\ failed' \in Nat
    BY <1>1
  <2> QED
    BY <1>1, <1>3, <1>7, <1>8, <1>9, <2>1, <2>2, <2>3, PublisherShape
<1>11. Placed'
  <2>1. OnePlace /\ exit' = 0
    BY <1>1, <1>4 DEF Placed
  <2>2. CASE msg.topic = "telemetry"
    <3>1. sent' = sent \cup {s} /\ lost' = lost
      BY <1>1, <1>2, <1>3, <2>2
    <3> QED
      BY <1>3, <1>6, <2>1, <2>2, <3>1 DEF Placed, OnePlace
  <2>3. CASE msg.topic # "telemetry"
    BY <1>1, <1>2, <1>3, <1>6, <2>1, <2>3 DEF Placed, OnePlace
  <2> QED
    BY <2>2, <2>3
<1>12. QueueTold'
  <2>1. /\ st.telemetry \in Nat /\ st.labels \in Nat /\ st.delivered \in Nat /\ st.failures \in Nat
    BY <1>5 DEF Stats
  <2>2. st.telemetry + st.labels = st.delivered + st.failures + inflight
    BY <1>5
  <2>3. stats'.telemetry + stats'.labels = (st.telemetry + st.labels) + 1
    BY <1>8, <2>1
  <2>4. stats'.telemetry + stats'.labels = st.delivered + st.failures + (inflight + 1)
    BY <1>4, <2>1, <2>2, <2>3
  <2> QED
    BY <1>7, <1>8, <2>4 DEF QueueTold
<1>13. RunTold'
  <2>1. result'.published = stats'.telemetry /\ result'.labels = stats'.labels
    BY <1>5, <1>8, <1>9 DEF RunTold
  <2>2. result.generated = result.published + Cardinality(lost) + Cardinality(buffer)
                             + (IF SampleInHand THEN 1 ELSE 0)
    BY <1>4 DEF RunTold
  <2>3. Cardinality(lost) \in Nat /\ Cardinality(buffer) \in Nat /\ result.published \in Nat
    BY <1>4, FS_CardinalityType DEF RunTold, Shape, Results
  <2>4. result'.generated = result'.published + Cardinality(lost') + Cardinality(buffer')
    <3>1. CASE msg.topic = "telemetry"
      <4>1. result.generated = (result.published + 1) + Cardinality(lost) + Cardinality(buffer)
        BY <1>3, <2>2, <2>3, <3>1
      <4> QED
        BY <1>1, <1>6, <1>9, <3>1, <4>1
    <3>2. CASE msg.topic # "telemetry"
      <4>1. result.generated = result.published + Cardinality(lost) + Cardinality(buffer)
        BY <1>3, <2>2, <2>3, <3>2
      <4> QED
        BY <1>1, <1>6, <1>9, <3>2, <4>1
    <3> QED
      BY <3>1, <3>2
  <2>5. result'.published \in Nat /\ Cardinality(lost') \in Nat /\ Cardinality(buffer') \in Nat
    BY <1>1, <1>6, <1>9, <2>3 DEF Results
  <2>6. pc' \in {"publish", "route"} /\ exit' = 0 /\ IsFiniteSet(lost')
    BY <1>1, <1>3, <1>4 DEF RunTold
  <2> QED
    BY <1>3, <2>1, <2>4, <2>5, <2>6 DEF RunTold
<1>14. LabelsAsked'
  <2>1. CASE labelled' = labelled
    BY <1>6, <2>1 DEF LabelsAsked
  <2>2. CASE labelled' = labelled \cup {s} /\ HasLabel(s)
    BY <1>6, <2>2 DEF LabelsAsked, HasLabel
  <2> QED
    BY <1>2, <1>3, <2>1, <2>2
<1> QED
  BY <1>1, <1>3, <1>10, <1>11, <1>12, <1>13, <1>14, GenerationKept

LEMMA QueueFullStep ==
    ASSUME SimInv, QueueFull
    PROVE  SimInv'
<1> USE DEF SimInv
<1>1. /\ pc = "publish" /\ CanRetry /\ attempt' = AtMost(attempt + 1, BufferRetries)
      /\ stats' = Polled(stats) /\ acked' = 0 /\ failed' = 0 /\ broken' = 0
      /\ pc' = pc /\ stop' = stop /\ outbox' = outbox /\ sent' = sent /\ lost' = lost
      /\ labelled' = labelled /\ inflight' = inflight /\ result' = result /\ exit' = exit
      /\ chances' = chances /\ UNCHANGED <<generation, lateness>>
  BY DEF QueueFull
<1>2. /\ generated' = generated /\ batch' = batch /\ buffer' = buffer
      /\ Waiting' = Waiting /\ HeldSamples' = HeldSamples /\ InHand' = InHand
      /\ (SampleInHand' <=> SampleInHand)
  BY <1>1 DEF generation, lateness, Waiting, HeldSamples, InHand, SampleInHand
<1>3. /\ stats' \in Stats /\ stats'.telemetry = stats.telemetry /\ stats'.labels = stats.labels
      /\ stats.telemetry + stats.labels = stats'.delivered + stats'.failures + inflight
      /\ inflight \in Nat /\ inflight <= QueueCapacity
  BY <1>1, PolledIs
<1>4. Queued' = inflight
  BY <1>1, <1>3 DEF Queued
<1>5. exit = 0 /\ broken # MaxEncodingFailures /\ broken < MaxEncodingFailures /\ result \in Results
  <2>1. exit = 0 /\ broken # MaxEncodingFailures /\ broken \in 0..MaxEncodingFailures
        /\ result \in Results
    BY <1>1 DEF Shape
  <2> QED
    BY <2>1, RunConstants
<1>6. Shape'
  <2>1. attempt' \in 0..(BufferRetries - 1)
    <3>1. attempt \in 0..(BufferRetries - 1)
      BY DEF Shape
    <3> QED
      BY <1>1, <3>1, RunConstants DEF AtMost, CanRetry
  <2>2. broken' \in 0..MaxEncodingFailures /\ broken' # MaxEncodingFailures
    BY <1>1, RunConstants
  <2>3. chances' \in 0..MaxChances /\ \E s \in generated : outbox' \in Remains(s)
    BY <1>1 DEF Shape
  <2>4. inflight' \in Nat /\ acked' \in Nat /\ failed' \in Nat /\ Queued' <= QueueCapacity
    BY <1>1, <1>3, <1>4
  <2>5. result' \in Results
    BY <1>1, <1>5
  <2> QED
    BY <1>1, <1>3, <2>1, <2>2, <2>3, <2>4, <2>5, PublisherShape
<1>7. Placed' /\ LabelsAsked'
  BY <1>1, <1>2 DEF Placed, OnePlace, LabelsAsked
<1>8. QueueTold'
  BY <1>3, <1>4 DEF QueueTold
<1>9. RunTold'
  BY <1>1, <1>2, <1>3, <1>5 DEF RunTold
<1> QED
  BY <1>1, <1>6, <1>7, <1>8, <1>9, GenerationKept

\* A message that is not handed to the client: its sample is lost if it is the telemetry.
LEMMA LossIs ==
    ASSUME SimInv, pc = "publish", exit = 0, lost' = Lost(Head(outbox)), sent' = sent
    PROVE  /\ IsFiniteSet(lost') /\ Cardinality(lost') \in Nat /\ lost' = lost \cup InHand
           /\ Cardinality(lost') = Cardinality(lost) + (IF SampleInHand THEN 1 ELSE 0)
           /\ sent' \cup lost' \subseteq generated
           /\ InHand' = {} /\ UNCHANGED <<generation, lateness>> => OnePlace'
<1> USE DEF SimInv
<1>1. PICK s \in generated :
         /\ Head(outbox).sample = s
         /\ \/ Head(outbox).topic = "telemetry" /\ InHand = {s} /\ SampleInHand
            \/ Head(outbox).topic = "label" /\ HasLabel(s) /\ InHand = {} /\ ~SampleInHand
  BY HeadOfOutbox
<1>2. OnePlace /\ IsFiniteSet(lost) /\ Cardinality(lost) \in Nat
  BY FS_CardinalityType DEF Placed, RunTold
<1>3. lost' = lost \cup InHand
  BY <1>1 DEF Lost
<1>4. IsFiniteSet(lost') /\ Cardinality(lost') = Cardinality(lost) + (IF SampleInHand THEN 1 ELSE 0)
  <2>1. CASE InHand = {s} /\ SampleInHand
    <3>1. s \notin lost /\ lost' = lost \cup {s}
      BY <1>2, <1>3, <2>1 DEF OnePlace
    <3> QED
      BY <1>2, <2>1, <3>1, FS_AddElement
  <2>2. CASE InHand = {} /\ ~SampleInHand
    <3>1. lost' = lost
      BY <1>3, <2>2
    <3> QED
      BY <1>2, <2>2, <3>1
  <2> QED
    BY <1>1, <2>1, <2>2
<1>5. sent' \cup lost' \subseteq generated
  BY <1>2, <1>3 DEF OnePlace
<1>6. ASSUME InHand' = {}, UNCHANGED <<generation, lateness>> PROVE OnePlace'
  <2>1. Waiting' = Waiting /\ HeldSamples' = HeldSamples /\ generated' = generated
    BY <1>6 DEF generation, lateness, Waiting, HeldSamples
  <2> QED
    BY <1>2, <1>3, <1>6, <2>1 DEF OnePlace
<1> QED
  BY <1>3, <1>4, <1>5, <1>6, FS_CardinalityType

LEMMA GiveUpStep ==
    ASSUME SimInv, GiveUp
    PROVE  SimInv'
<1> USE DEF SimInv
<1>1. /\ pc = "publish" /\ stats' = [Polled(stats) EXCEPT !.dropped = @ + 1]
      /\ acked' = 0 /\ failed' = 0 /\ broken' = 0
      /\ lost' = Lost(Head(outbox)) /\ NextMessage
      /\ stop' = stop /\ sent' = sent /\ labelled' = labelled /\ inflight' = inflight
      /\ result' = result /\ exit' = exit /\ chances' = chances
      /\ UNCHANGED <<generation, lateness>>
  BY DEF GiveUp
<1>2. PICK s \in generated :
         /\ InHand' = {} /\ ~SampleInHand' /\ attempt' = 0
         /\ \/ pc' = "publish" /\ outbox' \in Remains(s)
            \/ pc' = "route" /\ outbox' = <<>>
  BY <1>1, HeadOfOutbox
<1>3. exit = 0 /\ broken # MaxEncodingFailures /\ broken < MaxEncodingFailures /\ result \in Results
  <2>1. exit = 0 /\ broken # MaxEncodingFailures /\ broken \in 0..MaxEncodingFailures
        /\ result \in Results
    BY <1>1 DEF Shape
  <2> QED
    BY <2>1, RunConstants
<1>4. /\ IsFiniteSet(lost') /\ Cardinality(lost') \in Nat /\ OnePlace'
      /\ Cardinality(lost') = Cardinality(lost) + (IF SampleInHand THEN 1 ELSE 0)
  BY <1>1, <1>2, <1>3, LossIs
<1>5. /\ stats' \in Stats /\ stats'.telemetry = stats.telemetry /\ stats'.labels = stats.labels
      /\ stats.telemetry + stats.labels = stats'.delivered + stats'.failures + inflight
      /\ inflight \in Nat /\ inflight <= QueueCapacity
  <2> DEFINE st == Polled(stats)
  <2>1. /\ st \in Stats /\ st.telemetry = stats.telemetry /\ st.labels = stats.labels
        /\ stats.telemetry + stats.labels = st.delivered + st.failures + inflight
        /\ inflight \in Nat /\ inflight <= QueueCapacity
    BY PolledIs
  <2>2. stats' = [st EXCEPT !.dropped = @ + 1]
    BY <1>1
  <2> HIDE DEF st
  <2>3. /\ stats' \in Stats /\ stats'.telemetry = st.telemetry /\ stats'.labels = st.labels
        /\ stats'.delivered = st.delivered /\ stats'.failures = st.failures
    BY <2>1, <2>2 DEF Stats
  <2> QED
    BY <2>1, <2>3
<1>6. Queued' = inflight
  BY <1>1, <1>5 DEF Queued
<1>7. Shape'
  <2>1. attempt' \in 0..(BufferRetries - 1) /\ broken' \in 0..MaxEncodingFailures
        /\ broken' # MaxEncodingFailures
    BY <1>1, <1>2, RunConstants
  <2>2. chances' \in 0..MaxChances
    BY <1>1 DEF Shape
  <2>3. inflight' \in Nat /\ acked' \in Nat /\ failed' \in Nat /\ Queued' <= QueueCapacity
    BY <1>1, <1>5, <1>6
  <2>4. result' \in Results
    BY <1>1, <1>3
  <2> QED
    BY <1>1, <1>2, <1>5, <2>1, <2>2, <2>3, <2>4, PublisherShape
<1>8. Placed' /\ LabelsAsked'
  <2>1. generated' = generated
    BY <1>1 DEF generation
  <2> QED
    BY <1>1, <1>3, <1>4, <2>1 DEF Placed, LabelsAsked
<1>9. QueueTold'
  BY <1>5, <1>6 DEF QueueTold
<1>10. RunTold'
  <2>1. result.generated = result.published + Cardinality(lost) + Cardinality(buffer)
                             + (IF SampleInHand THEN 1 ELSE 0)
    BY <1>3 DEF RunTold
  <2>2. Cardinality(lost) \in Nat /\ Cardinality(buffer) \in Nat /\ result.published \in Nat
    BY <1>3, FS_CardinalityType DEF RunTold, Shape, Results
  <2>3. result.generated = result.published + Cardinality(lost') + Cardinality(buffer)
    BY <1>4, <2>1, <2>2
  <2>4. buffer' = buffer /\ pc' \in {"publish", "route"}
    BY <1>1, <1>2 DEF lateness
  <2>5. result.published + Cardinality(lost') + Cardinality(buffer)
          = result.published + Cardinality(lost') + Cardinality(buffer) + 0
    BY <1>4, <2>2
  <2> QED
    BY <1>1, <1>2, <1>3, <1>4, <1>5, <2>3, <2>4, <2>5 DEF RunTold
<1> QED
  BY <1>1, <1>2, <1>7, <1>8, <1>9, <1>10, GenerationKept

LEMMA EncodingStep ==
    ASSUME SimInv, EncodingFails
    PROVE  SimInv'
<1> USE DEF SimInv
<1>1. /\ pc = "publish" /\ chances' \in 0..MaxChances
      /\ stats' = [stats EXCEPT !.dropped = @ + 1]
      /\ lost' = Lost(Head(outbox)) /\ broken' = broken + 1
      /\ \/ /\ broken + 1 >= MaxEncodingFailures
            /\ pc' = "flush" /\ exit' = 1 /\ outbox' = <<>> /\ attempt' = 0
         \/ broken + 1 < MaxEncodingFailures /\ NextMessage /\ exit' = exit
      /\ stop' = stop /\ sent' = sent /\ labelled' = labelled /\ result' = result
      /\ inflight' = inflight /\ acked' = acked /\ failed' = failed
      /\ UNCHANGED <<generation, lateness>>
  <2>1. /\ Chance(1)
        /\ IF broken + 1 >= MaxEncodingFailures
           THEN pc' = "flush" /\ exit' = 1 /\ outbox' = <<>> /\ attempt' = 0
           ELSE NextMessage /\ exit' = exit
    BY DEF EncodingFails
  <2>2. chances' \in 0..MaxChances
    <3>1. chances \in 0..MaxChances
      BY DEF Shape
    <3> QED
      BY <2>1, <3>1, RunConstants DEF Chance
  <2>3. broken \in Nat /\ MaxEncodingFailures \in Nat
    <3>1. broken \in 0..MaxEncodingFailures
      BY DEF Shape
    <3> QED
      BY <3>1, RunConstants
  <2>4. broken + 1 >= MaxEncodingFailures \/ broken + 1 < MaxEncodingFailures
    BY <2>3
  <2>5. \/ /\ broken + 1 >= MaxEncodingFailures
           /\ pc' = "flush" /\ exit' = 1 /\ outbox' = <<>> /\ attempt' = 0
        \/ broken + 1 < MaxEncodingFailures /\ NextMessage /\ exit' = exit
    BY <2>1, <2>4
  <2> QED
    BY <2>2, <2>5 DEF EncodingFails, client
<1>2. exit = 0 /\ broken < MaxEncodingFailures /\ result \in Results /\ stats \in Stats
      /\ broken \in Nat
  <2>1. exit = 0 /\ broken # MaxEncodingFailures /\ broken \in 0..MaxEncodingFailures
        /\ result \in Results /\ stats \in Stats
    BY <1>1 DEF Shape
  <2> QED
    BY <2>1, RunConstants
<1>3. /\ stats' \in Stats /\ stats'.telemetry = stats.telemetry /\ stats'.labels = stats.labels
      /\ stats'.delivered = stats.delivered /\ stats'.failures = stats.failures
  BY <1>1, <1>2 DEF Stats
<1>4. /\ Queued' = Queued /\ Queued <= QueueCapacity
      /\ inflight' \in Nat /\ acked' \in Nat /\ failed' \in Nat
  BY <1>1 DEF Queued, Shape
<1>5. /\ IsFiniteSet(lost') /\ Cardinality(lost') \in Nat
      /\ Cardinality(lost') = Cardinality(lost) + (IF SampleInHand THEN 1 ELSE 0)
      /\ sent' \cup lost' \subseteq generated
  BY <1>1, <1>2, LossIs
<1>6. generated' = generated /\ buffer' = buffer /\ result' \in Results
  BY <1>1, <1>2 DEF generation, lateness
<1>7. LabelsAsked' /\ QueueTold'
  <2>1. LabelsAsked'
    BY <1>1, <1>6 DEF LabelsAsked
  <2>2. QueueTold'
    BY <1>3, <1>4 DEF QueueTold
  <2> QED
    BY <2>1, <2>2
<1>8. BatchInOrder' /\ OnceATick' /\ ParcelsInOrder' /\ EpisodesInOrder' /\ TruthTold'
        /\ AnomaliesLeaveNoTrace'
  <2>1. pc' \in {"route", "publish", "flush"}
    BY <1>1, HeadOfOutbox
  <2> QED
    BY <1>1, <2>1, GenerationKept
<1>9. CASE pc' = "flush" /\ exit' = 1 /\ outbox' = <<>> /\ attempt' = 0 /\ broken + 1 >= MaxEncodingFailures
  <2>1. broken' = MaxEncodingFailures
    BY <1>1, <1>2, <1>9, RunConstants
  <2>2. Shape'
    <3>1. attempt' \in 0..(BufferRetries - 1) /\ broken' \in 0..MaxEncodingFailures
      BY <1>9, <2>1, RunConstants
    <3>2. stop' \in BOOLEAN /\ exit' \in {0, 1}
      BY <1>1, <1>9 DEF Shape
    <3> QED
      BY <1>1, <1>3, <1>4, <1>6, <1>9, <3>1, <3>2, ShapeKept DEF Shape
  <2>3. Placed'
    BY <1>5, <1>6, <1>9 DEF Placed
  <2>4. RunTold'
    <3>1. ~(broken' < MaxEncodingFailures)
      BY <2>1, RunConstants
    <3> QED
      BY <1>1, <1>3, <1>5, <3>1 DEF RunTold
  <2> QED
    BY <1>7, <1>8, <2>2, <2>3, <2>4
<1>10. CASE broken + 1 < MaxEncodingFailures /\ NextMessage /\ exit' = exit
  <2>1. PICK s \in generated :
           /\ InHand' = {} /\ ~SampleInHand' /\ attempt' = 0
           /\ \/ pc' = "publish" /\ outbox' \in Remains(s)
              \/ pc' = "route" /\ outbox' = <<>>
    BY <1>1, <1>10, HeadOfOutbox
  <2>2. Shape'
    <3>1. attempt' \in 0..(BufferRetries - 1) /\ broken' \in 0..MaxEncodingFailures
          /\ broken' # MaxEncodingFailures
      BY <1>1, <1>2, <1>10, <2>1, RunConstants
    <3>2. Queued' <= QueueCapacity
      BY <1>4
    <3> QED
      BY <1>1, <1>3, <1>4, <1>6, <1>10, <2>1, <3>1, <3>2, PublisherShape
  <2>3. Placed'
    <3>1. OnePlace'
      BY <1>1, <1>2, <2>1, LossIs
    <3> QED
      BY <1>2, <1>10, <3>1 DEF Placed
  <2>4. RunTold'
    <3>1. result.generated = result.published + Cardinality(lost) + Cardinality(buffer)
                               + (IF SampleInHand THEN 1 ELSE 0)
      BY <1>2 DEF RunTold
    <3>2. Cardinality(lost) \in Nat /\ Cardinality(buffer) \in Nat /\ result.published \in Nat
      BY <1>2, FS_CardinalityType DEF RunTold, Shape, Results
    <3>3. result.generated = result.published + Cardinality(lost') + Cardinality(buffer)
      BY <1>5, <3>1, <3>2
    <3>4. pc' \in {"publish", "route"}
      BY <2>1
    <3>5. result.published + Cardinality(lost') + Cardinality(buffer)
            = result.published + Cardinality(lost') + Cardinality(buffer) + 0
      BY <1>5, <3>2
    <3> QED
      BY <1>1, <1>2, <1>3, <1>5, <1>6, <1>10, <2>1, <3>3, <3>4, <3>5 DEF RunTold
  <2> QED
    BY <1>7, <1>8, <2>2, <2>3, <2>4
<1> QED
  BY <1>1, <1>9, <1>10

LEMMA FlushStep ==
    ASSUME SimInv, Flush
    PROVE  SimInv'
<1> USE DEF SimInv
<1>1. /\ pc = "flush" /\ pc' = "done" /\ exit' = IF inflight > 0 THEN 1 ELSE exit
      /\ stats' = Polled(stats) /\ acked' = 0 /\ failed' = 0
      /\ stop' = stop /\ outbox' = outbox /\ attempt' = attempt /\ broken' = broken /\ sent' = sent
      /\ lost' = lost /\ labelled' = labelled /\ inflight' = inflight /\ result' = result
      /\ chances' = chances /\ UNCHANGED <<generation, lateness>>
  BY DEF Flush
<1>2. /\ generated' = generated /\ batch' = batch /\ buffer' = buffer
      /\ Waiting' = Waiting /\ HeldSamples' = HeldSamples /\ InHand' = InHand
      /\ (SampleInHand' <=> SampleInHand)
  BY <1>1 DEF generation, lateness, Waiting, HeldSamples, InHand, SampleInHand
<1>3. /\ stats' \in Stats /\ stats'.telemetry = stats.telemetry /\ stats'.labels = stats.labels
      /\ stats.telemetry + stats.labels = stats'.delivered + stats'.failures + inflight
      /\ inflight \in Nat /\ inflight <= QueueCapacity
  BY <1>1, PolledIs
<1>4. Queued' = inflight
  BY <1>1, <1>3 DEF Queued
<1>5. /\ exit \in {0, 1} /\ exit' \in {0, 1} /\ outbox = <<>>
      /\ broken = MaxEncodingFailures => exit' = 1
  <2>1. exit \in {0, 1} /\ outbox = <<>> /\ (broken = MaxEncodingFailures => exit = 1)
    BY <1>1 DEF Shape
  <2> QED
    BY <1>1, <2>1
<1>6. Shape'
  <2>1. /\ attempt' \in 0..(BufferRetries - 1) /\ broken' \in 0..MaxEncodingFailures
        /\ result' \in Results /\ stop' \in BOOLEAN /\ chances' \in 0..MaxChances
    BY <1>1 DEF Shape
  <2>2. Queued' <= QueueCapacity /\ inflight' \in Nat /\ acked' \in Nat /\ failed' \in Nat
    BY <1>1, <1>3, <1>4
  <2> QED
    BY <1>1, <1>3, <1>5, <2>1, <2>2, ShapeKept DEF Shape
<1>7. Placed' /\ LabelsAsked'
  <2>1. exit' = 0 => exit = 0
    BY <1>1
  <2>2. exit = 0 => OnePlace'
    BY <1>1, <1>2 DEF Placed, OnePlace
  <2>3. sent' \cup lost' \subseteq generated'
    BY <1>1, <1>2 DEF Placed, OnePlace
  <2> QED
    BY <1>1, <1>2, <2>1, <2>2, <2>3 DEF Placed, LabelsAsked
<1>8. QueueTold'
  BY <1>3, <1>4 DEF QueueTold
<1>9. RunTold'
  <2>1. broken < MaxEncodingFailures => exit = 0
    BY <1>1, <1>5 DEF RunTold
  <2>2. broken < MaxEncodingFailures => (exit' = 0 <=> Queued' = 0)
    BY <1>1, <1>3, <1>4, <2>1
  <2> QED
    BY <1>1, <1>2, <1>3, <2>2 DEF RunTold
<1> QED
  BY <1>1, <1>6, <1>7, <1>8, <1>9, GenerationKept

-----------------------------------------------------------------------------
(* The theorems *)

LEMMA InitialState ==
    ASSUME Init
    PROVE  SimInv
<1> USE DEF Init
<1>1. PICK residual \in [Machines -> InitialResiduals] :
         machine = [m \in Machines |-> InitialHidden(residual[m])] /\ twin = machine
  OBVIOUS
<1>2. Now = 0
  <2>1. TickLen \in Nat
    BY ValidFleet DEF FleetAssumption
  <2> QED
    BY <2>1 DEF Now
<1>3. DOMAIN batch = {} /\ Waiting = {} /\ HeldSamples = {} /\ Len(batch) = 0
  BY DEF Waiting, HeldSamples
<1>4. InHand = {} /\ ~SampleInHand
  BY InHandIs
<1>5. Queued = 0
  BY DEF Queued
<1>6. Shape
  <2>1. ASSUME NEW m \in Machines
        PROVE  IsHidden(machine[m]) /\ IsHidden(twin[m]) /\ IsScheduler(sched[m])
    <3>1. WearMax \in Nat
      BY ValidFleet DEF FleetAssumption
    <3>2. IsHidden(InitialHidden(residual[m]))
      BY <3>1 DEF InitialHidden, IsHidden, Modes
    <3>3. IsScheduler(NoEpisodes)
      BY DEF NoEpisodes, IsScheduler
    <3> QED
      BY <1>1, <3>2, <3>3
  <2>2. stats \in Stats /\ result \in Results
    BY DEF NoStats, NoResult, Stats, Results
  <2>3. /\ attempt \in 0..(BufferRetries - 1) /\ broken \in 0..MaxEncodingFailures
        /\ broken # MaxEncodingFailures /\ chances \in 0..MaxChances /\ emitted \in 0..MaxEvents
    BY RunConstants
  <2>4. Queued <= QueueCapacity
    BY <1>5, RunConstants
  <2>5. outage \in [Machines -> Int]
    BY DEF NoTime
  <2>6. /\ DOMAIN machine = Machines /\ machine = [m \in Machines |-> machine[m]]
        /\ DOMAIN twin = Machines /\ twin = [m \in Machines |-> twin[m]]
        /\ DOMAIN sched = Machines /\ sched = [m \in Machines |-> sched[m]]
    BY <1>1
  <2>7. IsFiniteSet(buffer) /\ buffer \subseteq Parcels /\ generated \subseteq Samples
        /\ batch \in Seq(Samples)
    BY FS_EmptySet
  <2>8. /\ pc = "top" /\ stop = FALSE /\ exit = 0 /\ tick = 0 /\ held = 0 /\ outbox = <<>>
        /\ batch = <<>> /\ inflight = 0 /\ acked = 0 /\ failed = 0
    OBVIOUS
  <2> HIDE DEF Init
  <2> QED
    <3>1. /\ pc \in {"top", "generate", "route", "publish", "flush", "done"} /\ stop \in BOOLEAN
          /\ exit \in {0, 1} /\ tick \in Nat /\ held \in Nat
          /\ inflight \in Nat /\ acked \in Nat /\ failed \in Nat
      BY <2>8
    <3>3. IF pc = "publish" THEN \E s \in generated : outbox \in Remains(s) ELSE outbox = <<>>
      BY <2>8
    <3>4. (exit = 1 => pc \in {"flush", "done"}) /\ (pc = "top" => batch = <<>>)
      BY <2>8
    <3>2. broken = MaxEncodingFailures => pc \in {"flush", "done"} /\ exit = 1
      BY <2>3
    <3> QED
      BY <2>1, <2>2, <2>3, <2>4, <2>5, <2>6, <2>7, <3>1, <3>2, <3>3, <3>4 DEF Shape
<1>7. BatchInOrder /\ OnceATick /\ ParcelsInOrder
  BY <1>3 DEF BatchInOrder, OnceATick, ParcelsInOrder
<1>8. Placed
  BY <1>3, <1>4 DEF Placed, OnePlace
<1>9. QueueTold /\ RunTold
  <2>1. Cardinality(buffer) = 0 /\ Cardinality(lost) = 0 /\ IsFiniteSet(lost)
    BY FS_EmptySet
  <2> QED
    BY <1>4, <1>5, <2>1 DEF QueueTold, RunTold, NoStats, NoResult
<1>10. EpisodesInOrder /\ TruthTold /\ LabelsAsked
  <2>1. \A m \in Machines : sched[m] = NoEpisodes
    OBVIOUS
  <2>2. NoEpisodes.seq = 0 /\ NoEpisodes.active = NoEpisode
    BY DEF NoEpisodes
  <2>3. EpisodesInOrder
    BY <2>1, <2>2 DEF EpisodesInOrder
  <2> QED
    BY <2>3 DEF TruthTold, LabelsAsked
<1>11. AnomaliesLeaveNoTrace
  BY <1>1 DEF AnomaliesLeaveNoTrace
<1> QED
  BY <1>6, <1>7, <1>8, <1>9, <1>10, <1>11 DEF SimInv

LEMMA SimStep ==
    ASSUME SimInv, [Next]_vars
    PROVE  SimInv'
<1>1. CASE UNCHANGED vars
  <2>1. /\ pc' = pc /\ stop' = stop /\ result' = result /\ exit' = exit /\ chances' = chances
        /\ outbox' = outbox /\ attempt' = attempt /\ broken' = broken /\ stats' = stats
        /\ sent' = sent /\ lost' = lost /\ labelled' = labelled /\ inflight' = inflight
        /\ acked' = acked /\ failed' = failed /\ UNCHANGED <<generation, lateness>>
        /\ generated' = generated /\ batch' = batch /\ buffer' = buffer
    BY <1>1 DEF vars, publishing, client, generation, lateness
  <2>2. /\ Waiting' = Waiting /\ HeldSamples' = HeldSamples /\ InHand' = InHand
        /\ (SampleInHand' <=> SampleInHand) /\ Queued' = Queued
    BY <2>1 DEF Waiting, HeldSamples, InHand, SampleInHand, Queued
  <2>3. Shape'
    BY <2>1, <2>2, ShapeKept DEF SimInv, Shape
  <2>4. Placed' /\ LabelsAsked' /\ QueueTold' /\ RunTold'
    BY <2>1, <2>2 DEF SimInv, Placed, OnePlace, LabelsAsked, QueueTold, RunTold
  <2> QED
    BY <2>1, <2>3, <2>4, GenerationKept DEF SimInv
<1>2. CASE Next
  BY <1>2, FlagStep, GenerateStep, RouteStep, ReleaseStep, EndTickStep, ProduceStep, QueueFullStep,
     GiveUpStep, EncodingStep, FlushStep, BrokerStep DEF Next, Process
<1> QED
  BY <1>1, <1>2

\* The inductive invariant of a run.
THEOREM Invariance == Spec => []SimInv
<1>1. Init => SimInv
  BY InitialState
<1>2. SimInv /\ [Next]_vars => SimInv'
  BY SimStep
<1> QED
  BY <1>1, <1>2, PTL DEF Spec

\* The types, for any fleet and any limits.
THEOREM TypeCorrect == Spec => []TypeOK
<1>1. SimInv => TypeOK
  <2> SUFFICES ASSUME SimInv PROVE TypeOK
    OBVIOUS
  <2> USE DEF SimInv
  <2>1. sent \cup lost \subseteq generated /\ labelled \subseteq generated
    <3>1. sent \cup lost \subseteq generated
      BY DEF Placed, OnePlace
    <3> QED
      BY <3>1 DEF LabelsAsked
  <2>2. ASSUME NEW p \in buffer PROVE p.sample \in generated /\ p.n \in 1..held
    <3>1. p \in Parcels /\ held \in Nat
      BY DEF Shape
    <3>2. p.n \in Nat /\ p.n # 0
      BY <3>1 DEF Parcels
    <3>3. p.n <= held /\ p.sample \in generated
      BY DEF ParcelsInOrder
    <3> QED
      BY <3>1, <3>2, <3>3
  <2>3. ASSUME NEW i \in DOMAIN outbox PROVE outbox[i].sample \in generated
    <3>1. CASE pc = "publish"
      <4>1. PICK s \in generated : outbox \in Remains(s)
        BY <3>1 DEF Shape
      <4>2. outbox[i] \in {Telemetry(s), Label(s)}
        BY <4>1 DEF Remains
      <4> QED
        BY <4>1, <4>2 DEF Telemetry, Label, Message
    <3>2. CASE pc # "publish"
      <4>1. outbox = <<>>
        BY <3>2 DEF Shape
      <4> QED
        BY <4>1
    <3> QED
      BY <3>1, <3>2
  <2>4. Queued \in 0..QueueCapacity
    <3>1. inflight \in Nat /\ acked \in Nat /\ failed \in Nat /\ Queued <= QueueCapacity
      BY DEF Shape
    <3>2. Queued \in Nat
      BY <3>1 DEF Queued
    <3> QED
      BY <3>1, <3>2, RunConstants
  <2>5. \A m \in Machines : machine[m].mode \in Modes /\ machine[m].wear \in 0..WearMax
    BY DEF Shape, IsHidden
  <2> QED
    BY <2>1, <2>2, <2>3, <2>4, <2>5 DEF TypeOK, Shape
<1> QED
  BY <1>1, Invariance, PTL

\* While a run that has not failed goes on, a measurement is in exactly one place: waiting,
\* in hand, held back, handed to the client or counted as dropped, whatever the delays, the
\* queue and the encoding do.
THEOREM OncePublished == Spec => []EverySampleOnce
<1>1. SimInv => EverySampleOnce
  <2> SUFFICES ASSUME SimInv, pc # "done", exit = 0
               PROVE  LET places == <<Waiting, InHand, HeldSamples, sent, lost>> IN
                      /\ generated = Waiting \cup InHand \cup HeldSamples \cup sent \cup lost
                      /\ \A i, j \in DOMAIN places : i # j => places[i] \cap places[j] = {}
                      /\ Cardinality(buffer) = Cardinality(HeldSamples)
    BY DEF EverySampleOnce
  <2> DEFINE places == <<Waiting, InHand, HeldSamples, sent, lost>>
             f == [p \in buffer |-> p.sample]
  <2>1. OnePlace
    BY DEF SimInv, Placed
  <2>2. ASSUME NEW i \in DOMAIN places, NEW j \in DOMAIN places, i # j
        PROVE  places[i] \cap places[j] = {}
    <3>1. i \in {1, 2, 3, 4, 5} /\ j \in {1, 2, 3, 4, 5}
      OBVIOUS
    <3>2. /\ places[1] = Waiting /\ places[2] = InHand /\ places[3] = HeldSamples
          /\ places[4] = sent /\ places[5] = lost
      OBVIOUS
    <3> HIDE DEF places
    <3> QED
      BY <2>1, <2>2, <3>1, <3>2 DEF OnePlace
  <2>3. Cardinality(buffer) = Cardinality(HeldSamples)
    <3>1. IsFiniteSet(buffer)
      BY DEF SimInv, Shape
    <3>2. f \in Bijection(buffer, HeldSamples)
      <4>1. \A p, q \in buffer : p.sample = q.sample => p = q
        BY DEF SimInv, ParcelsInOrder
      <4>2. f \in Injection(buffer, HeldSamples)
        BY <4>1 DEF Injection, IsInjective, HeldSamples
      <4>3. f \in Surjection(buffer, HeldSamples)
        BY DEF Surjection, HeldSamples
      <4> QED
        BY <4>2, <4>3 DEF Bijection
    <3> HIDE DEF f
    <3>3. ExistsBijection(buffer, HeldSamples)
      BY <3>2 DEF ExistsBijection
    <3> QED
      BY <3>1, <3>3, FS_Bijection
  <2> HIDE DEF places
  <2>4. generated = Waiting \cup InHand \cup HeldSamples \cup sent \cup lost
    BY <2>1 DEF OnePlace
  <2> QED
    BY <2>2, <2>3, <2>4 DEF places
<1> QED
  BY <1>1, Invariance, PTL

\* The counters of a run that was not aborted add up, however many messages the broker
\* refused and the program dropped.
THEOREM CountersAddUp == Spec => []CountersTell
<1>1. SimInv => CountersTell
  <2> SUFFICES ASSUME SimInv PROVE CountersTell
    OBVIOUS
  <2>1. stats.telemetry + stats.labels = stats.delivered + stats.failures + Queued
    BY DEF SimInv, QueueTold
  <2>2. ASSUME pc = "done", outbox = <<>>, broken < MaxEncodingFailures
        PROVE  /\ result.generated = result.published + Cardinality(lost) + result.buffered
               /\ result.published = stats.telemetry /\ result.labels = stats.labels
               /\ exit = 0 <=> Queued = 0
    <3>1. /\ result.published = stats.telemetry /\ result.labels = stats.labels
          /\ result.generated = result.published + Cardinality(lost) + Cardinality(buffer)
                                  + (IF SampleInHand THEN 1 ELSE 0)
          /\ result.buffered = Cardinality(buffer)
          /\ exit = 0 <=> Queued = 0
      BY <2>2 DEF SimInv, RunTold
    <3>2. ~SampleInHand
      BY <2>2 DEF SampleInHand
    <3>3. result.published \in Nat /\ Cardinality(lost) \in Nat /\ Cardinality(buffer) \in Nat
      BY FS_CardinalityType DEF SimInv, RunTold, Shape, Results
    <3> QED
      BY <3>1, <3>2, <3>3
  <2> QED
    BY <2>1, <2>2 DEF CountersTell
<1> QED
  BY <1>1, Invariance, PTL

\* The ground truth of a sample is the episode whose half-open interval holds its instant, for
\* any specifications, scenarios and draws; unless normal labels are asked for, only a sample
\* with an episode is labelled.
THEOREM TruthIsExact == Spec => []GroundTruthExact
<1>1. SimInv => GroundTruthExact
  BY DEF SimInv, TruthTold, LabelsAsked, GroundTruthExact
<1> QED
  BY <1>1, Invariance, PTL

\* A machine is what its twin without episodes is, but for its temperature, and that only
\* once an episode has acted on the wear.
THEOREM AnomaliesPass == Spec => []AnomaliesLeaveNoTrace
<1>1. SimInv => AnomaliesLeaveNoTrace
  BY DEF SimInv
<1> QED
  BY <1>1, Invariance, PTL

\* Held samples leave the buffer no earlier than they are due, those of a machine due at one
\* instant in the order they were measured, and a tick ends with none of them due.
THEOREM ReleaseOrder == Spec => BurstInOrder
<1>1. SimInv /\ [Next]_vars => [ReleasedInOrder]_vars
  <2> SUFFICES ASSUME SimInv, Next PROVE ReleasedInOrder
    BY DEF vars
  <2>1. CASE ReleaseHeld
    <3>1. PICK p \in Due : (\A q \in Due : Earlier(p, q)) /\ buffer' = buffer \ {p}
      BY <2>1 DEF ReleaseHeld, Popped
    <3>2. p \in buffer /\ p.at <= Now /\ buffer \ buffer' = {p} /\ tick' = tick
      BY <2>1, <3>1 DEF ReleaseHeld, Due, generation
    <3>3. ASSUME NEW q \in buffer, q.sample.machine = p.sample.machine, q.at = p.at
          PROVE  p.sample.at <= q.sample.at
      <4>1. q \in Due
        BY <3>2, <3>3 DEF Due
      <4>2. Earlier(p, q) /\ p \in Parcels /\ q \in Parcels
        BY <3>1, <3>2, <4>1 DEF SimInv, Shape
      <4>3. p.n <= q.n
        BY <3>3, <4>2 DEF Earlier, Parcels
      <4> QED
        BY <3>2, <4>3 DEF SimInv, ParcelsInOrder
    <3> QED
      BY <3>2, <3>3 DEF ReleasedInOrder
  <2>2. CASE EndTick
    <3>1. Due = {} /\ buffer' = buffer
      BY <2>2 DEF EndTick, lateness
    <3>2. ASSUME NEW p \in buffer PROVE p.at > Now
      <4>1. p.at \in Int /\ Now \in Nat
        BY TimePasses DEF SimInv, Shape, Parcels
      <4>2. ~(p.at <= Now)
        BY <3>1 DEF Due
      <4> QED
        BY <4>1, <4>2
    <3> QED
      BY <3>1, <3>2 DEF ReleasedInOrder
  <2>3. CASE ~ReleaseHeld /\ ~EndTick
    <3>1. tick' = tick /\ buffer \subseteq buffer'
      <4>1. CASE RouteSample
        BY <4>1 DEF RouteSample
      <4>2. CASE GenerateSample
        BY <4>2 DEF GenerateSample, lateness
      <4>3. CASE UNCHANGED <<generation, lateness>>
        BY <4>3 DEF generation, lateness
      <4>4. UNCHANGED <<generation, lateness>> \/ RouteSample \/ GenerateSample
        BY <2>3 DEF Next, Process, Finish, StartTick, YieldBatch, Produce, QueueFull, GiveUp,
                    EncodingFails, Flush, BrokerAcks, DeliveryFails, Signal
      <4> QED
        BY <4>1, <4>2, <4>3, <4>4
    <3> QED
      BY <3>1 DEF ReleasedInOrder
  <2> QED
    BY <2>1, <2>2, <2>3
<1> QED
  BY <1>1, Invariance, PTL DEF Spec, BurstInOrder

=============================================================================
