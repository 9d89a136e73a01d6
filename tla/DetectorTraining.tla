-------------------------- MODULE DetectorTraining --------------------------
(***************************************************************************)
(* The offline side: a snapshot of the topics is written as a dataset, the *)
(* dataset is cut by time into training, validation and test, windows and  *)
(* their labels are built, every candidate detector is given the threshold *)
(* the alert budget affords, one is selected and its artefact is saved     *)
(* (ModelArtifact), while producers append to the topics and workers load. *)
(*                                                                         *)
(* A message is that of TelemetryContract with the fields "id" (event_id)  *)
(* and "episode", Null for a healthy sample; an anomalous sample has a     *)
(* label on "telemetry.labels".  A fitted detector is its scores, any      *)
(* function of the windows.  Left out: hyperparameters, the numbers only   *)
(* the report shows, the secondary experiments, which change no artefact.  *)
(***************************************************************************)
EXTENDS TelemetryContract, ModelArtifact

CONSTANTS
    Partition,      \* partitions of telemetry.raw
    Logs,           \* possible contents: [Partition -> sequence of messages]
    IdleLimit,      \* idle polls in a row that end a drain
    TrainEnd,       \* train_end_hours, from the first sample
    ValidationEnd,  \* validation_end_hours, from the first sample
    MinFraction,    \* min_anomaly_fraction, in percent
    Quantiles,      \* THRESHOLD_QUANTILES, in percent
    MinWindows,     \* MIN_CONSECUTIVE_WINDOWS
    BudgetPeriod,   \* seconds of a machine one alert event may take up
    Candidates,     \* detectors, in the order of _candidate_detectors
    Served,         \* the candidate whose directory the stream processor reads
    Scores,         \* scores a detector may give: functions of <<machine, start>>
    MaxExports      \* bound: exports

TrainingAssumption ==
    /\ {TrainEnd, ValidationEnd, IdleLimit, MinWindows} \subseteq Nat \ {0}
    /\ TrainEnd < ValidationEnd
    /\ MinFraction \in 1..100
    /\ Quantiles # {} /\ Quantiles \subseteq 0..100
    /\ {BudgetPeriod, MaxExports} \subseteq Nat

ASSUME TrainingAssumption

\* Messages are keyed by machine, a copy of one repeats it, and labels come
\* with the samples of the simulator, which decode.
ASSUME LogsAssumption ==
    \A l \in Logs :
        /\ l \in [Partition -> Seq(UNION {Range(l[p]) : p \in Partition})]
        /\ \A p, q \in Partition : \A m \in Range(l[p]), n \in Range(l[q]) :
              /\ m.machine = n.machine => p = q
              /\ m.id = n.id => m = n
        /\ \A p \in Partition : \A m \in Range(l[p]) :
              m.time \in Nat /\ (m.episode # Null => Decodes(m))

\* A detector scores every window; a score is its rank, since nothing but the
\* order of the scores matters.
ASSUME ScoresAssumption ==
    /\ IsFiniteSet(Partition)
    /\ Len(Candidates) \in Nat /\ DOMAIN Candidates = 1..Len(Candidates)
    /\ \A f \in Scores, l \in Logs : \A p \in Partition : \A m \in Range(l[p]) :
          \A s \in Assigned(m.time, WindowLen, Slide) : f[<<m.machine, s>>] \in Nat

VARIABLES
    log,          \* the topic as it will be
    high,         \* [Partition -> messages produced so far]
    phase,        \* where the export is
    ends,         \* end offsets captured when the drain began
    next,         \* [Partition -> messages read]
    remaining,    \* partitions whose end is not reached
    idle,         \* idle polls in a row
    labelled,     \* labels read
    cut,          \* a drain of this export ended before its captured end
    samples,      \* samples.parquet: the <<partition, offset>> kept
    labels,       \* labels.parquet: the samples whose label was kept
    manifest,     \* manifest.json, or Null
    validation,   \* windows of the running training's validation split, with
                  \* episode and label
    fits,         \* the scores of its candidates, Null of one that failed or
                  \* that its diagnostics or its role exclude
    exports,      \* exports so far
    runs          \* training runs so far

drainVars == <<ends, next, remaining, idle, labelled, cut>>
datasetVars == <<samples, labels, manifest>>
trainingVars == <<validation, fits, runs>>
vars == <<log, high, phase, drainVars, datasetVars, trainingVars, exports, artifactVars>>

Message(r) == log[r[1]][r[2]]
Below(bound) == UNION {{p} \X (1..bound[p]) : p \in Partition}
Whole == [p \in Partition |-> Len(log[p])]
None == [p \in Partition |-> 0]
Candidate == DOMAIN Candidates

TypeOK ==
    /\ ArtifactTypeOK
    /\ log \in Logs
    /\ \A p \in Partition : /\ high[p] \in 0..Len(log[p])
                            /\ ends[p] \in 0..high[p]
                            /\ next[p] \in 0..high[p]
    /\ phase \in {"none", "draining", "drained", "read", "samples", "labels"}
    /\ remaining \subseteq Partition
    /\ idle \in 0..IdleLimit
    /\ cut \in BOOLEAN
    /\ \A r \in samples : r \in Below(Whole) /\ Decodes(Message(r))
    /\ \A r \in labels \cup labelled : r \in Below(Whole) /\ Message(r).episode # Null
    /\ manifest = Null \/ \A p \in Partition : manifest.ends[p] \in 0..high[p]
    /\ fits = <<>> \/ fits \in [Candidate -> Scores \cup {Null}]
    /\ exports \in 0..MaxExports
    /\ runs \in 0..MaxRuns
    /\ saving <= runs

\* Producers may be a message behind in some partitions.
Init ==
    /\ ArtifactInit
    /\ log \in Logs
    /\ \E behind \in SUBSET {p \in Partition : log[p] # <<>>} :
           high = [p \in Partition |-> Len(log[p]) - (IF p \in behind THEN 1 ELSE 0)]
    /\ phase = "none"
    /\ ends = None
    /\ next = None
    /\ remaining = {}
    /\ idle = 0
    /\ labelled = {}
    /\ cut = FALSE
    /\ samples = {}
    /\ labels = {}
    /\ manifest = Null
    /\ validation = <<>>
    /\ fits = <<>>
    /\ exports = 0
    /\ runs = 0

-----------------------------------------------------------------------------
(* The export: export_dataset *)

\* A producer appends a message, and its label when it is anomalous.
Produce(p) ==
    /\ high[p] < Len(log[p])
    /\ high' = [high EXCEPT ![p] = @ + 1]
    /\ UNCHANGED <<log, phase, drainVars, datasetVars, trainingVars, exports, artifactVars>>

unchangedByExport == <<log, high, trainingVars, exports, artifactVars>>

\* _drain_topic: the end offsets are captured, empty partitions left out.
\* (Bound: the operator runs one command at a time.)
BeginExport ==
    /\ phase = "none"
    /\ fits = <<>> /\ saving = 0
    /\ exports < MaxExports
    /\ exports' = exports + 1
    /\ ends' = high
    /\ remaining' = {p \in Partition : high[p] > 0}
    /\ phase' = "draining"
    /\ UNCHANGED <<log, high, next, idle, labelled, cut, datasetVars, trainingVars,
                   artifactVars>>

Draining == phase = "draining" /\ remaining # {} /\ idle < IdleLimit

\* Mutant of ReachesEnd: the end offset is taken for the last message's.
ReachesEndEarly(p, offset) == offset >= ends[p] - 1

ReachesEnd(p, offset) == offset >= ends[p]

\* A message of any assigned partition, one whose end is reached included.
Poll(p) ==
    /\ Draining
    /\ ends[p] > 0
    /\ next[p] < high[p]
    /\ next' = [next EXCEPT ![p] = @ + 1]
    /\ idle' = 0
    /\ remaining' = IF ReachesEnd(p, next[p] + 1) THEN remaining \ {p} ELSE remaining
    /\ UNCHANGED <<unchangedByExport, phase, ends, labelled, cut, datasetVars>>

\* The broker has nothing within the second, or an error.
IdlePoll ==
    /\ Draining
    /\ idle' = idle + 1
    /\ UNCHANGED <<unchangedByExport, phase, ends, next, remaining, labelled, cut, datasetVars>>

EndDrain ==
    /\ phase = "draining"
    /\ ~Draining
    /\ phase' = "drained"
    /\ cut' = (remaining # {})
    /\ UNCHANGED <<unchangedByExport, ends, next, remaining, idle, labelled, datasetVars>>

\* The same loop on telemetry.labels: the labels of all that was produced by
\* now, or the first of them when that drain is cut.
ReadLabels ==
    /\ phase = "drained"
    /\ LET anomalous == {r \in Below(high) : Message(r).episode # Null}
       IN  \E k \in 0..Max({high[p] : p \in Partition}) :
               /\ labelled' = {r \in anomalous : r[2] <= k}
               /\ cut' = (cut \/ labelled' # anomalous)
    /\ phase' = "read"
    /\ UNCHANGED <<unchangedByExport, ends, next, remaining, idle, datasetVars>>

\* Mutant of Deduplicated: what was delivered twice is counted twice.
KeptAsDelivered(rows) == rows

\* drop_duplicates on event_id, keep="first"; a machine has one partition.
Deduplicated(rows) ==
    {r \in rows : \A x \in rows : Message(x).id = Message(r).id => r[2] <= x[2]}

\* The export ends, by its last step, an exception or a crash.
Forget ==
    /\ phase' = "none"
    /\ ends' = None
    /\ next' = None
    /\ remaining' = {}
    /\ idle' = 0
    /\ labelled' = {}
    /\ cut' = FALSE

\* Without a decoded sample the export raises.
WriteSamples ==
    /\ phase = "read"
    /\ LET decoded == {r \in Below(next) : Decodes(Message(r))}
       IN  IF decoded = {} THEN Forget /\ UNCHANGED samples
           ELSE /\ samples' = Deduplicated(decoded)
                /\ phase' = "samples"
                /\ UNCHANGED drainVars
    /\ UNCHANGED <<unchangedByExport, labels, manifest>>

WriteLabels ==
    /\ phase = "samples"
    /\ labels' = Deduplicated(labelled)
    /\ phase' = "labels"
    /\ UNCHANGED <<unchangedByExport, drainVars, samples, manifest>>

\* The manifest holds the captured ends and the digests of the two files
\* ("cut" is not in it).
WriteManifest ==
    /\ phase = "labels"
    /\ manifest' = [ends |-> ends, samples |-> samples, labels |-> labels, cut |-> cut]
    /\ Forget
    /\ UNCHANGED <<unchangedByExport, samples, labels>>

CrashExport ==
    /\ phase # "none"
    /\ Forget
    /\ UNCHANGED <<unchangedByExport, datasetVars>>

-----------------------------------------------------------------------------
(* The splits: prepare_splits, build_window_features, align_window_labels *)

Split == {"train", "validation", "test"}

Origin == Min({Message(r).time : r \in samples})
From(split) == Origin + (CASE split = "train" -> 0
                           [] split = "validation" -> TrainEnd
                           [] split = "test" -> ValidationEnd)
To(split) == CASE split = "train" -> Origin + TrainEnd
               [] split = "validation" -> Origin + ValidationEnd
               [] split = "test" -> Max({Message(r).time : r \in samples}) + 1

\* Training windows tumble, those of the evaluation slide.
SlideOf(split) == IF split = "train" THEN WindowLen ELSE Slide

\* Mutant of SliceOf: the windows are cut by their start, not the samples.
SliceByWindow(rows, split) ==
    {r \in rows : \E s \in Assigned(Message(r).time, WindowLen, SlideOf(split)) :
                      From(split) <= s /\ s < To(split)}

SliceOf(rows, split) ==
    {r \in rows : From(split) <= Message(r).time /\ Message(r).time < To(split)}

KeysOf(r, split) ==
    {Message(r).machine} \X Assigned(Message(r).time, WindowLen, SlideOf(split))

\* [<<machine, start>> -> rows of the slice in that window]
WindowsOf(rows, split) ==
    LET slice == SliceOf(rows, split)
    IN  [w \in UNION {KeysOf(r, split) : r \in slice} |-> {r \in slice : w \in KeysOf(r, split)}]

\* _scorable: the admission gate, without the last state and the maturity.
Scorable(rows) ==
    /\ Cardinality(rows) >= MinSamples
    /\ 100 * Cardinality({r \in rows : Message(r).state = "RUNNING"})
           >= MinRunning * Cardinality(rows)

\* The scorable windows of a split, each with its label and the episode of
\* the first labelled sample in it.
Labelled(split) ==
    LET windows == WindowsOf(samples, split)
        truth   == WindowsOf(labels, split)
        of(w)   == IF w \in DOMAIN truth THEN truth[w] ELSE {}
        first(rows) == CHOOSE r \in rows : \A x \in rows : Message(r).time <= Message(x).time
    IN  [w \in {v \in DOMAIN windows : Scorable(windows[v])} |->
            [rows |-> windows[w],
             anomaly |-> 100 * Cardinality(of(w)) >= MinFraction * Cardinality(windows[w]),
             episode |-> IF of(w) = {} THEN Null ELSE Message(first(of(w))).episode]]

-----------------------------------------------------------------------------
(* The operating point: operating_points, select_threshold_for_budget *)

\* np.quantile: no score of the split lies between two ranks, so the windows
\* at or above it are those at or above the next rank.
Threshold(f, q) ==
    LET rank == ((Cardinality(DOMAIN validation) - 1) * q + 99) \div 100
    IN  Min({f[w] : w \in {v \in DOMAIN validation :
            Cardinality({x \in DOMAIN validation : f[x] <= f[v]}) > rank}})

Flagged(f, q) ==
    LET threshold == Threshold(f, q)
    IN  {w \in DOMAIN validation : f[w] >= threshold}

\* alert_events: runs of at least MinWindows windows, a slide apart.
AlertEvents(f, q) ==
    LET flagged == Flagged(f, q)
    IN  {w \in flagged :
            /\ <<w[1], w[2] - Slide>> \notin flagged
            /\ \A k \in 1..(MinWindows - 1) : <<w[1], w[2] + k * Slide>> \in flagged}

\* episode_outcomes: one window of the episode above the threshold.
Detected(f, q) ==
    {validation[w].episode : w \in {v \in Flagged(f, q) : validation[v].episode # Null}}

\* The rate of events per machine over the span of the window starts.
Affordable(f, q) ==
    LET starts   == {w[2] : w \in DOMAIN validation}
        machines == {w[1] : w \in DOMAIN validation}
    IN  Cardinality(AlertEvents(f, q)) * BudgetPeriod
            <= (Max(starts) - Min(starts)) * Cardinality(machines)

\* Mutant of ChosenQuantile: the strictest threshold within the budget.
StrictestQuantile(f) == Max(Quantiles)

\* The most permissive one within the budget, or the strictest of all.
ChosenQuantile(f) ==
    LET affordable == {q \in Quantiles : Affordable(f, q)}
    IN  IF affordable = {} THEN Max(Quantiles) ELSE Min(affordable)

Caught(f) == Cardinality(Detected(f, ChosenQuantile(f)))

\* Episodes caught, then F1: what is flagged rightly over what is flagged or
\* should be.
Merit(f) ==
    LET flagged == Flagged(f, ChosenQuantile(f))
        true    == {w \in DOMAIN validation : validation[w].anomaly}
    IN  <<Caught(f), 2 * Cardinality(flagged \cap true), Cardinality(flagged) + Cardinality(true)>>

Better(a, b) == a[1] > b[1] \/ (a[1] = b[1] /\ a[2] * b[3] > b[2] * a[3])

\* selection_exclusion, _select_model: the best usable candidate, the first
\* of equals.
Usable == {c \in DOMAIN fits : fits[c] # Null}
Selected ==
    LET merit == {<<c, Merit(fits[c])>> : c \in Usable}
    IN  Min({m[1] : m \in {x \in merit : \A y \in merit : ~Better(y[2], x[2])}})

-----------------------------------------------------------------------------
(* A training run: run_training, _command_train *)

\* _fit_one of every candidate: any scores, or the exception it ended with.
Fitted == [Candidate -> Scores \cup {Null}]

\* The dataset is read, cut and fitted; an empty split or a split without a
\* scorable window ends the run.  (Bound: it reads while no load is going on,
\* with which it shares nothing.)
Train ==
    /\ manifest # Null
    /\ phase = "none" /\ fits = <<>> /\ saving = 0 /\ lock = {}
    /\ runs < MaxRuns
    /\ \A split \in Split : Labelled(split) # <<>>
    /\ validation' = Labelled("validation")
    /\ fits' \in Fitted
    /\ runs' = runs + 1
    /\ UNCHANGED <<log, high, phase, drainVars, datasetVars, exports, artifactVars>>

\* The artefact of the selected candidate goes to its own directory; without
\* a usable candidate the run raises.
BeginSave ==
    /\ fits # <<>>
    /\ saving' = IF Usable # {} /\ Candidates[Selected] = Served THEN runs ELSE 0
    /\ validation' = <<>>
    /\ fits' = <<>>
    /\ UNCHANGED <<log, high, phase, drainVars, datasetVars, runs, exports, fileVars, loadVars>>

Export ==
    \/ BeginExport
    \/ \E p \in Partition : Poll(p)
    \/ IdlePoll
    \/ EndDrain
    \/ ReadLabels
    \/ WriteSamples
    \/ WriteLabels
    \/ WriteManifest
    \/ CrashExport

\* (Bound: the stream processor is started after the first training run.)
Serve == (saving # 0 \/ metadata # 0) /\ (Load \/ RestartWorker)

Next ==
    \/ \E p \in Partition : Produce(p)
    \/ Export
    \/ Train
    \/ BeginSave
    \/ /\ Save \/ Serve
       /\ UNCHANGED <<log, high, phase, drainVars, datasetVars, trainingVars, exports>>

Spec == Init /\ [][Next]_vars

-----------------------------------------------------------------------------
(* Properties *)

\* A dataset that matches its manifest holds every decodable message below
\* the captured end offsets exactly once, whatever was produced, delivered
\* twice or polled past an end meanwhile -- unless a drain was cut.
SnapshotComplete ==
    manifest # Null /\ manifest.samples = samples /\ ~manifest.cut =>
        \A r \in {x \in Below(manifest.ends) : Decodes(Message(x))} :
            Cardinality({x \in samples : Message(x).id = Message(r).id}) = 1

\* No sample is in windows of two splits, where a detector would be judged on
\* what it was fitted on, overlapping windows at the cuts included.
NoLeak ==
    phase = "labels" =>
        \A a, b \in Split : a # b =>
            LET rows(split) == UNION {w.rows : w \in Range(Labelled(split))}
            IN  rows(a) \cap rows(b) = {}

\* On a dataset drained to the end of topics nothing was appended to, the
\* label of every scorable window is the truth of the distinct samples in it:
\* copies of a message and cuts of the splits distort neither side of the
\* fraction.
GroundTruthAligned ==
    phase = "labels" /\ ~cut /\ ends = Whole =>
        \A split \in Split : \A w \in Range(Labelled(split)) :
            LET events == {Message(r) : r \in w.rows}
            IN  w.anomaly <=> 100 * Cardinality({m \in events : m.episode # Null})
                                  >= MinFraction * Cardinality(events)

\* No usable candidate catches, at a threshold within the alert budget, more
\* episodes of the validation than the selected one does at its own: choosing
\* thresholds first and candidates second loses nothing.  And the selected
\* one keeps to the budget when it can.
BestAffordableSelected ==
    fits # <<>> /\ Usable # {} =>
        LET f == fits[Selected]
            caught == Caught(f)
        IN  /\ \A c \in Usable : \A q \in Quantiles :
                   Affordable(fits[c], q) => Cardinality(Detected(fits[c], q)) <= caught
            /\ (\E q \in Quantiles : Affordable(f, q)) => Affordable(f, ChosenQuantile(f))
=============================================================================
