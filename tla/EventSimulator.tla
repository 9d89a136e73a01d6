---------------------------- MODULE EventSimulator ----------------------------
(***************************************************************************)
(* A run of the event simulator: the tick loop over the fleet, the buffer  *)
(* of delayed samples, the producer with its bounded local queue and       *)
(* delivery callbacks, the stop signal, the final flush and the exit code. *)
(* One thread; the broker and the signal are its environment.              *)
(***************************************************************************)
EXTENDS FleetModel

CONSTANTS
    Duration,       \* limits.duration
    MaxEvents,      \* limits.max_events
    QueueCapacity,  \* messages librdkafka holds before produce() raises BufferError
    BufferRetries,  \* _BUFFER_RETRIES
    MaxEncodingFailures, \* _MAX_CONSECUTIVE_ENCODING_FAILURES
    EmitNormalLabels,
    MaxChances      \* bound: random episodes, maintenances, delays, broken messages, failed deliveries

RunAssumption ==
    /\ Duration \in Nat \ {0} /\ MaxEvents \in Nat \ {0}
    /\ QueueCapacity \in Nat \ {0} /\ BufferRetries \in Nat \ {0}
    /\ MaxEncodingFailures \in Nat \ {0}
    /\ EmitNormalLabels \in BOOLEAN /\ MaxChances \in Nat

ASSUME ValidRun == RunAssumption

VARIABLES
    pc,         \* where the process is: top, generate, route, publish, flush, done
    stop,       \* _interrupted
    tick, emitted, batch,               \* FleetRunner.run
    machine, twin, memory, sched,       \* per machine
    outage, buffer, held,               \* LateDataPolicy, LateBuffer
    outbox, attempt, broken,            \* TelemetryPublisher
    inflight, acked, failed,            \* the client's queue
    stats, result, exit,
    generated, sent, lost, labelled, history, \* what happened, for the properties
    chances

generation == <<tick, emitted, batch, machine, twin, memory, sched, generated, history>>
lateness == <<outage, buffer, held>>
publishing == <<outbox, attempt, broken, stats, sent, lost, labelled>>
client == <<inflight, acked, failed>>
vars == <<pc, stop, generation, lateness, publishing, client, result, exit, chances>>

Now == tick * TickLen

Sample(m, at, e) == [machine |-> m, at |-> at, episode |-> e.seq]
Message(topic, s) == [topic |-> topic, sample |-> s]

NoStats == [telemetry |-> 0, labels |-> 0, delivered |-> 0, failures |-> 0, dropped |-> 0]
NoResult == [ticks |-> 0, generated |-> 0, published |-> 0, labels |-> 0, delayed |-> 0, buffered |-> 0]

Init ==
    /\ pc = "top" /\ stop = FALSE
    /\ tick = 0 /\ emitted = 0 /\ batch = <<>>
    /\ \E residual \in [Machines -> InitialResiduals] :
          /\ machine = [m \in Machines |-> InitialHidden(residual[m])]
          /\ twin = machine
    /\ memory = [m \in Machines |-> [seq |-> 0, frozen |-> NoReading]]
    /\ sched = [m \in Machines |-> NoEpisodes]
    /\ outage = [m \in Machines |-> NoTime] /\ buffer = {} /\ held = 0
    /\ outbox = <<>> /\ attempt = 0 /\ broken = 0
    /\ inflight = 0 /\ acked = 0 /\ failed = 0
    /\ stats = NoStats /\ result = NoResult /\ exit = 0
    /\ generated = {} /\ sent = {} /\ lost = {} /\ labelled = {} /\ history = {}
    /\ chances = 0

Chance(n) == chances + n <= MaxChances /\ chances' = chances + n

-------------------------------------------------------------------------------
(* The tick loop.                                                             *)

\* The stop flag and the duration are looked at between two ticks, never inside one.
Finish ==
    /\ pc = "top" /\ (stop \/ Now >= Duration \/ emitted >= MaxEvents)
    /\ pc' = "flush"
    /\ result' = [result EXCEPT !.buffered = Cardinality(buffer)]
    /\ UNCHANGED <<stop, generation, lateness, publishing, client, exit, chances>>

StartTick ==
    /\ pc = "top" /\ ~stop /\ Now < Duration /\ emitted < MaxEvents
    /\ pc' = "generate"
    /\ UNCHANGED <<stop, generation, lateness, publishing, client, result, exit, chances>>

\* What a tick of machine m leaves: its twin takes the same draws without episodes.
Advance(m, s, goesIdle, residence) ==
    LET e == s.active
        frozen == IF memory[m].seq = e.seq THEN memory[m].frozen ELSE NoReading
        stepped == Step(machine[m], e, Now, goesIdle, residence, frozen)
    IN  /\ goesIdle \/ LeavesRunning(machine[m])
        /\ Chance((IF s.seq # sched[m].seq /\ e.drawn THEN 1 ELSE 0)
                    + (IF goesIdle THEN 0 ELSE 1))
        /\ sched' = [sched EXCEPT ![m] = s]
        /\ machine' = [machine EXCEPT ![m] = stepped.hidden]
        /\ twin' = [twin EXCEPT
                       ![m] = Step(@, NoEpisode, Now, goesIdle, residence, NoReading).hidden]
        /\ memory' = IF e = NoEpisode THEN memory
                     ELSE [memory EXCEPT ![m] = [seq |-> e.seq, frozen |-> stepped.frozen]]
        /\ batch' = Append(batch, Sample(m, Now, e))
        /\ generated' = generated \cup {Sample(m, Now, e)}
        /\ history' = IF s.seq # sched[m].seq
                      THEN history \cup {[machine |-> m, episode |-> e]} ELSE history

\* The next machine of the fleet.
GenerateSample ==
    /\ pc = "generate" /\ Len(batch) < Len(Fleet) /\ emitted < MaxEvents
    /\ LET m == Fleet[Len(batch) + 1]
       IN  \E s \in EpisodeAt(m, sched[m], Now), goesIdle \in BOOLEAN, residence \in Residences :
             Advance(m, s, goesIdle, residence)
    /\ emitted' = emitted + 1
    /\ UNCHANGED <<pc, stop, tick, lateness, publishing, client, result, exit>>

\* The batch is complete, or cut by max_events.
YieldBatch ==
    /\ pc = "generate" /\ (Len(batch) = Len(Fleet) \/ emitted >= MaxEvents)
    /\ pc' = "route"
    /\ result' = [result EXCEPT !.ticks = @ + 1]
    /\ UNCHANGED <<stop, generation, lateness, publishing, client, exit, chances>>

-------------------------------------------------------------------------------
(* Routing: published now, or held.                                           *)

\* The telemetry of a sample, then its label if it has one.
Messages(s) ==
    IF s.episode # 0 \/ EmitNormalLabels
    THEN <<Message("telemetry", s), Message("label", s)>>
    ELSE <<Message("telemetry", s)>>

Held(s, delay) == [at |-> s.at + delay, n |-> held + 1, sample |-> s]

CutOff(s) == outage[s.machine] # NoTime /\ s.at < outage[s.machine]

RouteSample ==
    /\ pc = "route" /\ batch # <<>>
    /\ LET s == Head(batch) IN
       \E d \in Delays(outage[s.machine], s.at) :
          /\ Chance(IF d.delay > 0 /\ ~CutOff(s) THEN 1 ELSE 0)
          /\ outage' = [outage EXCEPT ![s.machine] = d.until]
          /\ IF d.delay > 0
             THEN /\ buffer' = buffer \cup {Held(s, d.delay)} /\ held' = held + 1
                  /\ UNCHANGED <<pc, outbox>>
             ELSE /\ outbox' = Messages(s) /\ pc' = "publish"
                  /\ UNCHANGED <<buffer, held>>
          /\ result' = [result EXCEPT !.generated = @ + 1,
                                      !.delayed = @ + (IF d.delay > 0 THEN 1 ELSE 0)]
    /\ batch' = Tail(batch)
    /\ UNCHANGED <<stop, tick, emitted, machine, twin, memory, sched, generated, history,
                   attempt, broken, stats, sent, lost, labelled, client, exit>>

Due == {p \in buffer : p.at <= Now}

EarlierByTimeOnly(p, q) == p.at <= q.at

Earlier(p, q) == p.at < q.at \/ (p.at = q.at /\ p.n <= q.n)

Peeked(p) == buffer

Popped(p) == buffer \ {p}

\* After the fresh samples of the tick: the heap's smallest entry, if it is due.
ReleaseHeld ==
    /\ pc = "route" /\ batch = <<>>
    /\ \E p \in Due :
          /\ \A q \in Due : Earlier(p, q)
          /\ buffer' = Popped(p)
          /\ outbox' = Messages(p.sample)
    /\ pc' = "publish"
    /\ UNCHANGED <<stop, generation, outage, held, attempt, broken, stats, sent, lost, labelled,
                   client, result, exit, chances>>

EndTick ==
    /\ pc = "route" /\ batch = <<>> /\ Due = {}
    /\ pc' = "top"
    /\ tick' = IF emitted >= MaxEvents THEN tick ELSE tick + 1
    /\ UNCHANGED <<stop, emitted, batch, machine, twin, memory, sched, generated, history,
                   lateness, publishing, client, result, exit, chances>>

-------------------------------------------------------------------------------
(* Publication (publishing/producer.py).                                      *)

Queued == inflight + acked + failed

NextMessage ==
    /\ outbox' = Tail(outbox) /\ attempt' = 0
    /\ pc' = IF Len(outbox) = 1 THEN "route" ELSE "publish"

\* poll() runs the delivery callbacks that are ready.
NoPolling(st) == st

Polled(st) == [st EXCEPT !.delivered = @ + acked, !.failures = @ + failed]

Counted(st, topic) ==
    IF topic = "telemetry" THEN [st EXCEPT !.telemetry = @ + 1] ELSE [st EXCEPT !.labels = @ + 1]

\* produce() takes the message and the queue is polled without blocking.
Produce ==
    /\ pc = "publish" /\ Queued < QueueCapacity
    /\ LET msg == Head(outbox) IN
          /\ stats' = Counted(Polled(stats), msg.topic)
          /\ IF msg.topic = "telemetry"
             THEN /\ sent' = sent \cup {msg.sample} /\ UNCHANGED labelled
                  /\ result' = [result EXCEPT !.published = @ + 1]
             ELSE /\ labelled' = labelled \cup {msg.sample} /\ UNCHANGED sent
                  /\ result' = [result EXCEPT !.labels = @ + 1]
    /\ inflight' = inflight + 1 /\ acked' = 0 /\ failed' = 0
    /\ broken' = 0
    /\ NextMessage
    /\ UNCHANGED <<stop, generation, lateness, lost, exit, chances>>

\* BufferError: the callbacks that are ready free their places, and the message is tried again.
CanRetryForever == TRUE

CanRetry == attempt + 1 < BufferRetries

QueueFull ==
    /\ pc = "publish" /\ Queued >= QueueCapacity /\ CanRetry
    /\ attempt' = AtMost(attempt + 1, BufferRetries)
    /\ stats' = Polled(stats) /\ acked' = 0 /\ failed' = 0
    /\ broken' = 0
    /\ UNCHANGED <<pc, stop, generation, lateness, outbox, sent, lost, labelled, inflight,
                   result, exit, chances>>

Lost(msg) == IF msg.topic = "telemetry" THEN lost \cup {msg.sample} ELSE lost

GiveUp ==
    /\ pc = "publish" /\ Queued >= QueueCapacity /\ ~CanRetry
    /\ stats' = [Polled(stats) EXCEPT !.dropped = @ + 1] /\ acked' = 0 /\ failed' = 0
    /\ broken' = 0
    /\ lost' = Lost(Head(outbox))
    /\ NextMessage
    /\ UNCHANGED <<stop, generation, lateness, sent, labelled, inflight, result, exit, chances>>

\* A message that cannot be encoded is dropped; too many in a row abort the run, which
\* skips the rest of its bookkeeping.
EncodingFails ==
    /\ pc = "publish" /\ attempt = 0 /\ Chance(1)
    /\ stats' = [stats EXCEPT !.dropped = @ + 1]
    /\ lost' = Lost(Head(outbox))
    /\ broken' = broken + 1
    /\ IF broken + 1 >= MaxEncodingFailures
       THEN pc' = "flush" /\ exit' = 1 /\ outbox' = <<>> /\ attempt' = 0
       ELSE NextMessage /\ UNCHANGED exit
    /\ UNCHANGED <<stop, generation, lateness, sent, labelled, client, result>>

\* flush() blocks until nothing is outstanding, or for the timeout.
Flush ==
    /\ pc = "flush"
    /\ exit' = IF inflight > 0 THEN 1 ELSE exit
    /\ stats' = Polled(stats) /\ acked' = 0 /\ failed' = 0
    /\ pc' = "done"
    /\ UNCHANGED <<stop, generation, lateness, outbox, attempt, broken, sent, lost, labelled,
                   inflight, result, chances>>

-------------------------------------------------------------------------------
(* The broker and the operator.  What they do shows at the next poll and at the next look at
   the flag, so it is enough that they act just before.                       *)

BrokerAcks ==
    /\ pc \in {"publish", "flush"} /\ inflight > 0
    /\ inflight' = inflight - 1 /\ acked' = acked + 1
    /\ UNCHANGED <<pc, stop, generation, lateness, publishing, failed, result, exit, chances>>

DeliveryFails ==
    /\ pc \in {"publish", "flush"} /\ inflight > 0 /\ Chance(1)
    /\ inflight' = inflight - 1 /\ failed' = failed + 1
    /\ UNCHANGED <<pc, stop, generation, lateness, publishing, acked, result, exit>>

Signal ==
    /\ pc = "top" /\ ~stop
    /\ stop' = TRUE
    /\ UNCHANGED <<pc, generation, lateness, publishing, client, result, exit, chances>>

Process ==
    \/ Finish \/ StartTick \/ GenerateSample \/ YieldBatch
    \/ RouteSample \/ ReleaseHeld \/ EndTick
    \/ Produce \/ QueueFull \/ GiveUp \/ EncodingFails \/ Flush

Next == Process \/ BrokerAcks \/ DeliveryFails \/ Signal

Spec == Init /\ [][Next]_vars

\* The process keeps running; the broker owes it nothing.
LiveSpec == Spec /\ WF_vars(Process)
-------------------------------------------------------------------------------
(* Properties.                                                                *)

Samples == [machine : Machines, at : Nat, episode : Nat]

\* The type of every variable.
TypeOK ==
    /\ pc \in {"top", "generate", "route", "publish", "flush", "done"}
    /\ stop \in BOOLEAN /\ exit \in {0, 1}
    /\ tick \in Nat /\ emitted \in 0..MaxEvents /\ chances \in 0..MaxChances
    /\ batch \in Seq(Samples) /\ generated \subseteq Samples
    /\ sent \subseteq generated /\ lost \subseteq generated /\ labelled \subseteq generated
    /\ \A m \in Machines : machine[m].mode \in Modes /\ machine[m].wear \in 0..WearMax
    /\ \A p \in buffer : p.sample \in generated /\ p.n \in 1..held
    /\ \A i \in DOMAIN outbox : outbox[i].sample \in generated
    /\ attempt \in 0..(BufferRetries - 1) /\ broken \in 0..MaxEncodingFailures
    /\ Queued \in 0..QueueCapacity

InHand == {outbox[i].sample : i \in {j \in DOMAIN outbox : outbox[j].topic = "telemetry"}}
Waiting == {batch[i] : i \in DOMAIN batch}
HeldSamples == {p.sample : p \in buffer}

\* A measurement is never lost in the program and never published twice: until it is handed
\* to the client or counted as dropped, it is in exactly one place (pipeline.py run,
\* LateBuffer, _produce_with_backpressure).
EverySampleOnce ==
    pc # "done" /\ exit = 0 =>
        LET places == <<Waiting, InHand, HeldSamples, sent, lost>> IN
        /\ generated = Waiting \cup InHand \cup HeldSamples \cup sent \cup lost
        /\ \A i, j \in DOMAIN places : i # j => places[i] \cap places[j] = {}
        /\ Cardinality(buffer) = Cardinality(HeldSamples)

\* The counters of a run that was not aborted add up: what was generated was published,
\* dropped or still held, and what was produced was delivered, refused or is what flush
\* left outstanding (PipelineResult, PublishStats: "observed, not estimated").
CountersTell ==
    /\ stats.telemetry + stats.labels = stats.delivered + stats.failures + Queued
    /\ pc = "done" /\ outbox = <<>> /\ broken < MaxEncodingFailures =>
          /\ result.generated = result.published + Cardinality(lost) + result.buffered
          /\ result.published = stats.telemetry /\ result.labels = stats.labels
          /\ exit = 0 <=> Queued = 0

\* The ground truth of a sample is the episode whose half-open interval holds its instant,
\* and a published label is about such a sample (to_telemetry_label, Episode.is_active).
GroundTruthExact ==
    /\ \A s \in generated, h \in history :
          s.machine = h.machine =>
              (s.episode = h.episode.seq <=> h.episode.from <= s.at /\ s.at < h.episode.to)
    /\ ~EmitNormalLabels => \A s \in labelled : s.episode # 0

\* An anomaly is a transient of what is measured: load, wear, operating state and the noise
\* sequence are those of the same machine without episodes, and so is the temperature
\* until an episode acts on the wear (machine.py lines 6-18, rng.py).
AnomaliesLeaveNoTrace ==
    \A m \in Machines :
        \/ machine[m] = twin[m]
        \/ /\ \E h \in history : h.machine = m /\ ActsOnWear(h.episode)
           /\ machine[m] = [twin[m] EXCEPT !.temperature = machine[m].temperature]

\* A held sample leaves the buffer no earlier than its release, the samples of one outage
\* (of a machine, due at one instant) in the order they were measured, and none is left behind
\* a tick in which it was due.
ReleasedInOrder ==
    /\ \A p \in buffer \ buffer' :
          /\ p.at <= Now
          /\ \A q \in buffer :
                q.sample.machine = p.sample.machine /\ q.at = p.at => p.sample.at <= q.sample.at
    /\ tick' # tick => \A p \in buffer : p.at > Now

BurstInOrder == [][ReleasedInOrder]_vars

\* Whatever the broker does, a run ends: a full queue is retried a bounded number of times
\* and the flush has a timeout.
Terminates == <>(pc = "done")
===============================================================================
