------------------------------ MODULE FleetModel ------------------------------
(***************************************************************************)
(* What the simulator computes for one machine in one tick: the anomaly    *)
(* scheduler, the hidden physical state, the injection of an anomaly and   *)
(* the publication delay.  Times count in a fraction of the tick; a random *)
(* draw is a member of a set of outcomes; the physics keeps its couplings  *)
(* and its inertia over small integers.                                    *)
(***************************************************************************)
EXTENDS Integers, Sequences, FiniteSets

CONSTANTS
    Fleet,          \* the machines, in declaration order
    TickLen,        \* tick_interval
    Specs,          \* anomaly specifications: [family, sensor, durations]
    Scenarios,      \* sequence of [machine, spec, offset, duration]
    MinGap,         \* min_gap_seconds
    Jitters,        \* delays a jittered sample may get
    Outages,        \* lengths of an outage
    Residences,     \* residence times of an operating state
    InitialResiduals, \* how long a machine may still run at the start
    WearMax         \* wear.max

Machines == {Fleet[i] : i \in DOMAIN Fleet}
Families == {"SPIKE", "DRIFT", "STUCK", "DROPOUT"}
Sensors == {"temperature_c", "power_kw"}
Modes == {"RUNNING", "IDLE", "MAINTENANCE", "STARTING"}

NoTime == -1
NoSensor == "none"
NoReading == -1         \* a sensor that reports null
Limit == 9              \* the contract's upper bound of every sensor
Intensity == 4

\* fleet.yaml is refused at startup unless its machines are distinct, its episodes
\* last, every family that targets a sensor names one and every scenario names a
\* machine of the fleet and a declared type.
FleetAssumption ==
    /\ Fleet \in Seq(Machines) /\ Fleet # <<>>
    /\ \A i, j \in DOMAIN Fleet : i # j => Fleet[i] # Fleet[j]
    /\ TickLen \in Nat \ {0} /\ MinGap \in Nat /\ WearMax \in Nat \ {0}
    /\ \A s \in Specs :
          /\ s.family \in Families
          /\ s.sensor \in Sensors \cup {NoSensor}
          /\ s.family # "DRIFT" => s.sensor # NoSensor
          /\ s.durations \subseteq Nat \ {0}
    /\ Scenarios \in Seq([machine : Machines, spec : Specs, offset : Nat, duration : Nat \ {0}])
    /\ Jitters \subseteq Nat /\ Outages \subseteq Nat
    /\ Residences \subseteq Nat \ {0} /\ Residences # {}
    /\ InitialResiduals \subseteq Nat /\ InitialResiduals # {}

ASSUME ValidFleet == FleetAssumption

Least(S) == CHOOSE x \in S : \A y \in S : x <= y
AtMost(x, high) == IF x > high THEN high ELSE x
AtLeast(x, low) == IF x < low THEN low ELSE x

-------------------------------------------------------------------------------
(* Episodes of a machine (anomalies/scheduler.py, anomalies/episode.py).     *)

Episode(seq, spec, from, duration, drawn) ==
    [seq |-> seq, spec |-> spec, from |-> from, to |-> from + duration, drawn |-> drawn]

NoEpisode == [seq |-> 0]

NoEpisodes == [active |-> NoEpisode, lastEnd |-> NoTime, seq |-> 0, fired |-> {}]

IsActiveClosed(e, at) == e.from <= at /\ at <= e.to

IsActive(e, at) == e.from <= at /\ at < e.to

\* The finished episode is retired before another is considered.
Retired(s, at) ==
    IF s.active # NoEpisode /\ ~IsActive(s.active, at)
    THEN [s EXCEPT !.lastEnd = s.active.to, !.active = NoEpisode]
    ELSE s

Begun(s, spec, at, duration, drawn) ==
    [s EXCEPT !.active = Episode(s.seq + 1, spec, at, duration, drawn), !.seq = @ + 1]

DueScenarios(m, s, at) ==
    {i \in DOMAIN Scenarios :
        Scenarios[i].machine = m /\ i \notin s.fired /\ at >= Scenarios[i].offset}

CooldownElapsed(s, at) == s.lastEnd = NoTime \/ at - s.lastEnd >= MinGap

ScenarioBegun(s, i, at) ==
    [Begun(s, Scenarios[i].spec, at, Scenarios[i].duration, FALSE)
        EXCEPT !.fired = @ \cup {i}]

DrawnEpisodes(s, at) ==
    UNION {{Begun(s, spec, at, AtLeast(d, TickLen), TRUE) : d \in spec.durations} : spec \in Specs}

\* The states episode_at may leave the scheduler of m in: the episode it returns is the
\* active one.  A scenario is due whatever the cooldown; a draw may find nothing.
EpisodeAt(m, state, at) ==
    LET s == Retired(state, at)
        due == DueScenarios(m, s, at)
    IN  IF s.active # NoEpisode THEN {s}
        ELSE IF due # {} THEN {ScenarioBegun(s, Least(due), at)}
        ELSE {s} \cup (IF CooldownElapsed(s, at) THEN DrawnEpisodes(s, at) ELSE {})

-------------------------------------------------------------------------------
(* The hidden state of a machine and its sample (generation/machine.py,       *)
(* generation/physics.py, anomalies/injectors.py).                            *)

\* The noise stream is a function of the machine and of how many draws were made.
NoiseAt(n) == n % 2

InitialHidden(residual) ==
    [load |-> 0, wear |-> 0, temperature |-> 0, mode |-> "RUNNING",
     remaining |-> residual, noise |-> 0]

NextMode(mode, goesIdle) ==
    CASE mode = "RUNNING" -> IF goesIdle THEN "IDLE" ELSE "MAINTENANCE"
      [] mode \in {"IDLE", "MAINTENANCE"} -> "STARTING"
      [] mode = "STARTING" -> "RUNNING"

LeavesRunning(h) == h.mode = "RUNNING" /\ h.remaining - TickLen <= 0

\* Residence times are drawn when a state ends; maintenance restores the wear.
AdvanceLifecycle(h, goesIdle, residence) ==
    IF h.remaining - TickLen > 0
    THEN [h EXCEPT !.remaining = @ - TickLen]
    ELSE [h EXCEPT !.mode = NextMode(h.mode, goesIdle),
                   !.remaining = AtLeast(residence, TickLen),
                   !.wear = IF h.mode = "MAINTENANCE" THEN 0 ELSE @]

\* The load takes one draw of the noise; only a machine that turns wears.
AdvanceLoadAndWear(h) ==
    [h EXCEPT !.load = NoiseAt(h.noise), !.noise = @ + 1,
              !.wear = IF h.mode \in {"RUNNING", "STARTING"} THEN AtMost(@ + 1, WearMax) ELSE @]

\* How far into the episode, scaled to the intensity: none at its first instant.
Progress(e, at) == (Intensity * AtMost(at - e.from, e.to - e.from)) \div (e.to - e.from)

ActsOnWear(e) == e # NoEpisode /\ e.spec.family = "DRIFT" /\ e.spec.sensor = NoSensor

\* A drift without a sensor acts on the wear of a copy that is observed and thrown away.
AffectState(h, e, at) ==
    IF ActsOnWear(e) THEN [h EXCEPT !.wear = @ + Progress(e, at)] ELSE h

Motion(mode) ==
    CASE mode = "RUNNING" -> 3 [] mode = "STARTING" -> 2 [] mode = "IDLE" -> 1 [] OTHER -> 0

\* The sensors, each after one draw of the noise, taken whatever the state; temperature
\* follows power with inertia.  The readings are clamped to the contract.
Observe(h) ==
    LET power == Motion(h.mode) + h.load + h.wear + NoiseAt(h.noise)
        warmth == AtLeast(h.temperature - 1, power) + NoiseAt(h.noise + 1)
    IN  [power_kw |-> AtMost(power, Limit), temperature_c |-> AtMost(warmth, Limit)]

NoiseDraws == Cardinality(Sensors)

\* Reading-level injection.  A null reading stays null; a stuck sensor repeats the value
\* its episode's memory holds, once there is one.
AffectReadings(r, e, at, frozen) ==
    IF e = NoEpisode \/ ActsOnWear(e) THEN r
    ELSE LET sensor == e.spec.sensor
             current == r[sensor]
         IN  [r EXCEPT ![sensor] =
                CASE e.spec.family = "DROPOUT" -> NoReading
                  [] e.spec.family = "STUCK" -> IF frozen = NoReading THEN current ELSE frozen
                  [] e.spec.family \in {"SPIKE", "DRIFT"} ->
                        IF current = NoReading THEN NoReading
                        ELSE AtMost(current + Progress(e, at), Limit)]

Frozen(r, e, frozen) ==
    IF e # NoEpisode /\ e.spec.family = "STUCK" /\ frozen = NoReading
    THEN r[e.spec.sensor] ELSE frozen

\* One tick of a machine: the state it keeps and what it reports.  The temperature kept is
\* the one measured before the readings are tampered with.
StepPersistingInjection(h, e, at, goesIdle, residence, frozen) ==
    LET moved == AdvanceLoadAndWear(AdvanceLifecycle(h, goesIdle, residence))
        measured == Observe(AffectState(moved, e, at))
        reported == AffectReadings(measured, e, at, frozen)
    IN  [hidden |-> [moved EXCEPT !.temperature = reported.temperature_c, !.noise = @ + NoiseDraws],
         readings |-> reported, frozen |-> Frozen(measured, e, frozen)]

Step(h, e, at, goesIdle, residence, frozen) ==
    LET moved == AdvanceLoadAndWear(AdvanceLifecycle(h, goesIdle, residence))
        measured == Observe(AffectState(moved, e, at))
    IN  [hidden |-> [moved EXCEPT !.temperature = measured.temperature_c, !.noise = @ + NoiseDraws],
         readings |-> AffectReadings(measured, e, at, frozen),
         frozen |-> Frozen(measured, e, frozen)]

-------------------------------------------------------------------------------
(* Publication delay (publishing/late_buffer.py, LateDataPolicy).             *)

\* The delays a sample measured at `at` may get, and the end of the machine's outage after
\* it: all of an outage is held until the same instant.
Delays(until, at) ==
    IF until # NoTime /\ at < until THEN {[delay |-> until - at, until |-> until]}
    ELSE {[delay |-> 0, until |-> NoTime]}
         \cup {[delay |-> d, until |-> NoTime] : d \in Jitters}
         \cup {[delay |-> d, until |-> at + d] : d \in Outages}
===============================================================================
