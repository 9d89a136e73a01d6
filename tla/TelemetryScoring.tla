-------------------------- MODULE TelemetryScoring --------------------------
(***************************************************************************)
(* The validation and scoring queries of the stream processor, and the     *)
(* driver that starts them, watches them and ends with them.               *)
(*                                                                         *)
(* Both queries read "telemetry.raw" in micro-batches, each at its own     *)
(* pace: one sends what the contract rejects to "telemetry.dlq" and what   *)
(* comes too late to "telemetry.late", the other keeps a row per window    *)
(* and publishes every window a batch touches, scored or with the reason   *)
(* it was not.  A batch is planned once, in the query's checkpoint; what   *)
(* an attempt sent before it failed stays sent and the batch runs again.   *)
(*                                                                         *)
(* Spark is modelled from how the queries use it: a row is too old for a   *)
(* window that ended by the previous batch's watermark, a window is        *)
(* evicted once the batch's watermark has reached its end.  Left out:      *)
(* scores and severity (any function of the features), the model (verified *)
(* before the queries start), logging and progress records.                *)
(***************************************************************************)
EXTENDS TelemetryContract

CONSTANTS
    Topics,        \* the possible contents of telemetry.raw
    MaxPerTrigger, \* max_offsets_per_trigger
    MaxFaults      \* bound: failures of a query and kills of the job

ASSUME ScoringBoundAssumption ==
    /\ MaxPerTrigger \in Nat \ {0}
    /\ MaxFaults \in Nat

\* An instant is a number, a reading one or absent.  A machine is sampled once
\* at an instant, so what has the same machine and time is a copy: the uniqueness
\* features.py demands of the producer, so that min_by and max_by are defined.
ASSUME TopicsAssumption ==
    /\ Null \notin Int
    /\ \A t \in Topics :
          /\ t \in Seq(Range(t))
          /\ \A m \in Range(t) :
                /\ m.time \in Nat /\ m.ingest \in Int \cup {Null}
                /\ {m.rpm, m.power} \subseteq Int \cup {Null}
          /\ \A m, n \in Range(t) :
                Accepted(m) /\ Accepted(n) /\ m.machine = n.machine /\ m.time = n.time => m = n

Query == {"validation", "scoring"}

VARIABLES
    topic,     \* telemetry.raw, the partition's messages in offset order
    done,      \* [Query -> committed offset]
    planned,   \* [Query -> end offset of the planned batch, done without one]
    dead,      \* <<offset, reason>> on telemetry.dlq
    tardy,     \* offsets on telemetry.late
    store,     \* <<window start, offset>>: rows of the windows in state
    lateMark,  \* watermark of the previous batch
    mark,      \* watermark of the running or next batch
    batch,     \* number of the scoring batch running or next
    scored,    \* events on telemetry.scored
    dropped,   \* <<window start, offset>> the watermark refused
    failed,    \* queries ended by an exception in this process
    stopped,   \* queries the driver has stopped
    driver,    \* where the driver is
    code,      \* the exit code it has decided on
    faults     \* failures and kills so far

outVars == <<dead, tardy, scored>>
stateVars == <<store, lateMark, mark, batch, dropped>>
driverVars == <<driver, code, stopped>>
vars == <<topic, done, planned, outVars, stateVars, failed, driverVars, faults>>

Offsets == DOMAIN topic

\* An event names its window, the rows it was computed from and the verdict.
Event(m, start, rows, reason) ==
    [batch |-> batch, machine |-> m, start |-> start, rows |-> rows, reason |-> reason]

TypeOK ==
    /\ topic \in Topics
    /\ done \in [Query -> 0..Len(topic)]
    /\ \A q \in Query : planned[q] \in done[q]..Len(topic)
    /\ \A d \in dead : d[1] \in Offsets /\ d[2] = DlqReason(topic[d[1]]) /\ d[2] # Null
    /\ \A o \in tardy : Accepted(topic[o]) /\ TooLate(topic[o])
    /\ \A p \in store \cup dropped : p[1] \in Covering(topic[p[2]].time)
    /\ lateMark \in 0..mark
    /\ \A e \in scored : e.batch <= batch /\ e.rows \subseteq 1..planned["scoring"]
    /\ failed \cup stopped \subseteq Query
    /\ driver \in {"polling", "checking", "stopping", "exited"}
    /\ code \in {0, 1, 137}
    /\ faults \in 0..MaxFaults

Init ==
    /\ topic \in Topics
    /\ done = [q \in Query |-> 0]
    /\ planned = done
    /\ dead = {}
    /\ tardy = {}
    /\ store = {}
    /\ lateMark = 0
    /\ mark = 0
    /\ batch = 0
    /\ scored = {}
    /\ dropped = {}
    /\ failed = {}
    /\ stopped = {}
    /\ driver = "polling"
    /\ code = 0
    /\ faults = 0

-----------------------------------------------------------------------------
(* Micro-batches *)

Active(q) == driver # "exited" /\ q \notin failed \cup stopped

\* Offsets of the planned batch of a query.
Batch(q) == {o \in Offsets : done[q] < o /\ o <= planned[q]}

\* A trigger plans a batch of at most MaxPerTrigger new messages.
PlanBatch(q) ==
    /\ Active(q)
    /\ planned[q] = done[q]
    /\ \E n \in 1..MaxPerTrigger :
           /\ done[q] + n <= Len(topic)
           /\ planned' = [planned EXCEPT ![q] = done[q] + n]
    /\ UNCHANGED <<topic, done, outVars, stateVars, failed, driverVars, faults>>

-----------------------------------------------------------------------------
(* The validation query: build_validation_stream *)

Rejections(offsets) ==
    {<<o, DlqReason(topic[o])>> : o \in {x \in offsets : ~Accepted(topic[x])}}
Tardy(offsets) == {o \in offsets : Accepted(topic[o]) /\ TooLate(topic[o])}

Validate ==
    /\ Active("validation")
    /\ Batch("validation") # {}
    /\ dead' = dead \cup Rejections(Batch("validation"))
    /\ tardy' = tardy \cup Tardy(Batch("validation"))
    /\ done' = [done EXCEPT !["validation"] = planned["validation"]]
    /\ UNCHANGED <<topic, planned, scored, stateVars, failed, driverVars, faults>>

-----------------------------------------------------------------------------
(* The scoring query: build_scoring_stream *)

\* The rows that reach the aggregation, and the windows of each.
Input == {o \in Batch("scoring") : Accepted(topic[o]) /\ OnTime(topic[o])}
Expanded == UNION {Covering(topic[o].time) \X {o} : o \in Input}

\* Mutant of InTime: nothing is too old.
InTimeAlways(p) == TRUE

\* Rows of windows that had not ended by the previous batch's watermark.
InTime(p) == p[1] + WindowLen > lateMark
Kept == {p \in Expanded : InTime(p)}

\* The windows a batch touches, and the rows of one once it is merged in.
Touched(kept) == {<<topic[p[2]].machine, p[1]>> : p \in kept}
RowsOf(w, held) == {p[2] : p \in {x \in held : x[1] = w[2] /\ topic[x[2]].machine = w[1]}}

\* The messages of a window's rows.
Messages(offsets) == Restrict(topic, offsets)

\* make_scored_encoder: one event for every window the batch touches,
\* admitted or not.
Events ==
    LET kept == Kept
        merged == {[window |-> w, rows |-> RowsOf(w, store \cup kept)] : w \in Touched(kept)}
    IN  {Event(x.window[1], x.window[2], x.rows, SkipReason(x.window[2], Messages(x.rows)))
            : x \in merged}

Evicted(p) == p[1] + WindowLen <= mark

Marks == {mark} \cup {topic[o].time - Delay : o \in Input}

\* The watermark is the latest of these: it never goes back.
NewMark(m) == \A n \in Marks : n <= m

\* The batch publishes its windows, commits the state and moves the watermark.
Score ==
    /\ Active("scoring")
    /\ Batch("scoring") # {}
    /\ scored' = scored \cup Events
    /\ dropped' = dropped \cup (Expanded \ Kept)
    /\ store' = {p \in store \cup Kept : ~Evicted(p)}
    /\ lateMark' = mark
    /\ \E m \in Marks : NewMark(m) /\ mark' = m
    /\ batch' = batch + 1
    /\ done' = [done EXCEPT !["scoring"] = planned["scoring"]]
    /\ UNCHANGED <<topic, planned, dead, tardy, failed, driverVars, faults>>

\* With no new message a batch still runs when the watermark has moved.
EvictOnly ==
    /\ Active("scoring")
    /\ planned["scoring"] = done["scoring"]
    /\ mark > lateMark
    /\ store' = {p \in store : ~Evicted(p)}
    /\ lateMark' = mark
    /\ batch' = batch + 1
    /\ UNCHANGED <<topic, done, planned, outVars, mark, dropped, failed, driverVars, faults>>

-----------------------------------------------------------------------------
(* Failures *)

\* Mutant of PlanAfterFailure: the batch is planned anew.
PlanForgotten(q) == [planned EXCEPT ![q] = done[q]]

\* The plan is in the checkpoint: the same batch runs again.
PlanAfterFailure(q) == planned

\* A query ends with an exception, part of its batch sent.
Fail(q) ==
    /\ Active(q)
    /\ faults < MaxFaults
    /\ faults' = faults + 1
    /\ failed' = failed \cup {q}
    /\ planned' = PlanAfterFailure(q)
    /\ IF q = "scoring"
       THEN /\ \E sent \in SUBSET Events : scored' = scored \cup sent
            /\ UNCHANGED <<dead, tardy>>
       ELSE /\ \E sent \in SUBSET Batch(q) : /\ dead' = dead \cup Rejections(sent)
                                             /\ tardy' = tardy \cup Tardy(sent)
            /\ UNCHANGED scored
    /\ UNCHANGED <<topic, done, stateVars, driverVars>>

\* The job is killed: no handler runs.
Kill ==
    /\ driver # "exited"
    /\ faults < MaxFaults
    /\ faults' = faults + 1
    /\ driver' = "exited"
    /\ code' = 137
    /\ UNCHANGED <<topic, done, planned, outVars, stateVars, failed, stopped>>

-----------------------------------------------------------------------------
(* The driver: main.run *)

unchangedByDriver == <<topic, done, planned, outVars, stateVars, failed, faults>>

\* Mutant of AwaitAnyTermination: it waits for the first query to end.
AwaitFirstQuery ==
    /\ driver = "polling"
    /\ "validation" \in failed
    /\ driver' = "stopping"
    /\ code' = 1
    /\ UNCHANGED <<unchangedByDriver, stopped>>

\* awaitAnyTermination: raises when a query has failed, else returns.
AwaitAnyTermination ==
    /\ driver = "polling"
    /\ IF failed # {}
       THEN driver' = "stopping" /\ code' = 1
       ELSE driver' = "checking" /\ UNCHANGED code
    /\ UNCHANGED <<unchangedByDriver, stopped>>

\* The check of isActive, for a failure since the await.
Inactive == failed

\* The rest of the loop: a failed query or the end of a bounded run leaves
\* it; otherwise it polls again.
CheckQueries ==
    /\ driver = "checking"
    /\ IF Inactive # {}
       THEN driver' = "stopping" /\ code' = 1
       ELSE driver' = "polling" /\ UNCHANGED code
    /\ UNCHANGED <<unchangedByDriver, stopped>>

\* The deadline or a signal ends the loop.
EndRun ==
    /\ driver = "checking"
    /\ Inactive = {}
    /\ driver' = "stopping"
    /\ UNCHANGED <<unchangedByDriver, code, stopped>>

\* finally: the queries that are active are stopped.
StopQuery(q) ==
    /\ driver = "stopping"
    /\ q \notin failed \cup stopped
    /\ stopped' = stopped \cup {q}
    /\ UNCHANGED <<unchangedByDriver, driver, code>>

\* Mutant of Raises: only the loop's own code counts.
RaisesNever == FALSE

\* awaitTermination, on every query once all have ended, raises again what
\* ended one of them.
Raises == failed # {}

AwaitTermination ==
    /\ driver = "stopping"
    /\ failed \cup stopped = Query
    /\ driver' = "exited"
    /\ code' = IF Raises THEN 1 ELSE code
    /\ UNCHANGED <<unchangedByDriver, stopped>>

\* An operator starts the job again ("restart" is "no").
Restart ==
    /\ driver = "exited"
    /\ driver' = "polling"
    /\ code' = 0
    /\ failed' = {}
    /\ stopped' = {}
    /\ UNCHANGED <<topic, done, planned, outVars, stateVars, faults>>

Driver ==
    \/ AwaitAnyTermination
    \/ CheckQueries
    \/ \E q \in Query : StopQuery(q)
    \/ AwaitTermination

Next ==
    \/ \E q \in Query : PlanBatch(q) \/ Fail(q)
    \/ Validate
    \/ Score
    \/ EvictOnly
    \/ Kill
    \/ Driver
    \/ EndRun
    \/ Restart

Spec == Init /\ [][Next]_vars

\* A started job runs: Spark schedules the triggers of the queries it has not
\* ended, and the driver's thread goes on.  Nothing restarts it.
FairSpec ==
    /\ Spec
    /\ \A q \in Query : WF_vars(PlanBatch(q))
    /\ WF_vars(Validate)
    /\ WF_vars(Score)
    /\ WF_vars(Driver)

-----------------------------------------------------------------------------
(* Properties *)

\* Every event of a window, and the latest of them.
EventsOf(m, start) == {e \in scored : e.machine = m /\ e.start = start}
Latest(m, start) ==
    {e \in EventsOf(m, start) : \A x \in EventsOf(m, start) : x.batch <= e.batch}

\* Nothing vanishes between the two queries, which parse and split the topic
\* each on its own: a message both have committed is on the dead letter
\* topic, or on the late topic, or in the latest event of every window it
\* belongs to (unless the watermark refused it there), and never on two of
\* them.
NothingVanishes ==
    \A o \in Offsets : (\A q \in Query : o <= done[q]) =>
        LET routes == {r \in {"dead", "late"} :
                          IF r = "dead" THEN \E d \in dead : d[1] = o ELSE o \in tardy}
        IN  IF routes # {}
            THEN Cardinality(routes) = 1 /\ \A e \in scored : o \notin e.rows
            ELSE \A s \in Covering(topic[o].time) :
                     \/ <<s, o>> \in dropped
                     \/ \E e \in Latest(topic[o].machine, s) : o \in e.rows

\* A window that was published is never started over: whatever machine moved
\* the watermark and whatever was evicted, a later event of the window holds
\* the rows of the earlier one and more.
WindowNeverRestarts ==
    \A e, f \in scored :
        e.machine = f.machine /\ e.start = f.start /\ e.batch < f.batch =>
            e.rows \subseteq f.rows /\ e.rows # f.rows

\* A batch that runs again after a failure publishes what it published before:
\* consumers that keep one event per window and batch see one content and one
\* verdict.
ReplaySameEvents ==
    \A e, f \in scored :
        e.machine = f.machine /\ e.start = f.start /\ e.batch = f.batch => e = f

\* The windows of the stream are those of the training, and on every part of
\* the accepted messages the three translations compute the same features: no
\* skew between what a model was trained on and what it scores.  (It is about
\* the topic alone, so it is evaluated before the first batch.)
TranslationsAgree ==
    (\A q \in Query : planned[q] = 0) =>
        \A part \in SUBSET {o \in Offsets : Accepted(topic[o])} :
            (\A o, u \in part : topic[o].machine = topic[u].machine) =>
            LET rows == Subsequence(topic, part)
            IN  /\ SparkFeatures(rows) = ComputeFeatures(rows)
                /\ PandasFeatures(rows) = ComputeFeatures(rows)
                /\ \A m \in Range(rows) :
                       Covering(m.time) = Assigned(m.time, WindowLen, Slide)

\* The job never ends with success when a query has failed in it, whenever
\* the failure came: between two polls, after the deadline, while the other
\* query was being stopped.
FailureExitsNonZero == driver = "exited" /\ failed # {} => code # 0

\* A started job settles the whole topic or ends, where its operator sees
\* it: it never stays up with a query that is gone.
SettledOrExited ==
    []<>(driver = "exited" \/ \A q \in Query : done[q] = Len(topic))
=============================================================================
