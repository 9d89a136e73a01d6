------------------------- MODULE TelemetryContract -------------------------
(***************************************************************************)
(* What the components agree on about a telemetry message: when it is      *)
(* valid, when it is late, which windows it belongs to and which features  *)
(* a window has.  Windowing and features exist three times in the code --  *)
(* the reference of telemetry_core, the Spark translation of the stream    *)
(* processor and the pandas one of the training -- and three times here.   *)
(*                                                                         *)
(* A message is a record [form, machine, time, ingest, state, rpm, power]: *)
(* "form" is "whole", or the one thing wrong with it.  Two sensors and the *)
(* ratio derived from them stand for five and two.  Arithmetic is exact: a *)
(* feature is the tuple of integers its float is computed from (a mean is  *)
(* <<total, count>>), Null where it is undefined.                          *)
(***************************************************************************)
EXTENDS Integers, Sequences, FiniteSets, SequencesExt, FiniteSetsExt, Functions

CONSTANTS
    Null,         \* None, null and NaN
    WindowLen,    \* window_seconds
    Slide,        \* slide_seconds
    Delay,        \* watermark_seconds
    LateDetection,\* late_detection_enabled
    MinSamples,   \* MIN_SAMPLES_FOR_SCORING
    MinRunning,   \* MIN_RUNNING_RATIO, in percent
    Tolerance     \* maturity_tolerance_steps

\* StreamSettings: positive durations, and the two rules of its validator.
ContractAssumption ==
    /\ {WindowLen, Slide, Delay, Tolerance, MinSamples} \subseteq Nat \ {0}
    /\ MinRunning \in 0..100
    /\ LateDetection \in BOOLEAN
    /\ WindowLen % Slide = 0
    /\ Delay >= Slide

ASSUME ContractAssumption

-----------------------------------------------------------------------------
(* Validity *)

\* The fields the stream processor requires, and those from_dict requires.
StreamRequires == {"schema_version", "event_id", "machine_id", "line_id",
                   "event_time", "machine_state"}
CodecRequires == {"schema_version", "event_id", "machine_id", "line_id",
                  "event_time", "ingest_time", "readings"}
Forms == {"whole", "garbage", "foreign"} \cup StreamRequires \cup CodecRequires

\* parse_telemetry: the reason of rejection, the first that applies, or Null.
DlqReason(m) ==
    CASE m.form = "garbage" -> "MALFORMED_JSON"
      [] m.form = "foreign" -> "UNSUPPORTED_SCHEMA_VERSION"
      [] m.form \in StreamRequires -> "SCHEMA_VALIDATION_FAILED"
      [] OTHER -> Null

\* split_valid
Accepted(m) == DlqReason(m) = Null

\* decode(TelemetryRaw, ...): an unknown or missing state is UNKNOWN.
Decodes(m) == m.form \notin {"garbage", "foreign"} \cup CodecRequires

\* split_late: the time the producer held the sample, Null without an instant.
Lateness(m) == IF m.ingest = Null THEN Null ELSE m.ingest - m.time

\* Mutant of OnTime: a sample without ingest time is on neither side.
OnTimeKnown(m) == LateDetection => Lateness(m) # Null /\ Lateness(m) <= Delay

OnTime(m) == LateDetection => Lateness(m) = Null \/ Lateness(m) <= Delay
TooLate(m) == LateDetection /\ Lateness(m) # Null /\ Lateness(m) > Delay

-----------------------------------------------------------------------------
(* Rows in order *)

\* The rows at some positions, in an order that says what comes before each.
Arranged(rows, positions, before) ==
    LET places == 1..Cardinality(positions)
        at == CHOOSE f \in [places -> positions] :
                  \A k, n \in places : k < n => f[k] \in before[f[n]]
    IN  [k \in places |-> rows[at[k]]]

Subsequence(rows, positions) ==
    Arranged(rows, positions, [i \in positions |-> {j \in positions : j < i}])

\* sorted(..., key = event_time): stable.
ByTime(rows) ==
    Arranged(rows, DOMAIN rows, [i \in DOMAIN rows |-> {j \in DOMAIN rows :
        rows[j].time < rows[i].time \/ (rows[j].time = rows[i].time /\ j < i)}])

-----------------------------------------------------------------------------
(* Windows *)

\* Spark's window(event_time, WindowLen, Slide).
Covering(t) == {s \in (t - WindowLen + 1)..t : s % Slide = 0}

\* assign_windows: the slot of the sample and the earlier ones.
Assigned(t, length, slide) ==
    {(t \div slide) * slide - k * slide : k \in 0..((length \div slide) - 1)}

\* window_is_mature: no gap at either end above the tolerated mean steps.  Rows
\* are a function to messages here: an aggregation has no order.
Mature(start, rows) ==
    LET first == Min({m.time : m \in Range(rows)})
        last  == Max({m.time : m \in Range(rows)})
        gap   == Max({first - start, start + WindowLen - last, 0})
        count == Cardinality(DOMAIN rows)
    IN  /\ count >= 2
        /\ last > first
        /\ gap * (count - 1) <= (last - first) * Tolerance

RunningEnough(rows) ==
    100 * Cardinality({i \in DOMAIN rows : rows[i].state = "RUNNING"})
        >= MinRunning * Cardinality(DOMAIN rows)

\* max_by("machine_state", event_time); ties are between copies of a message.
LastState(rows) == (CHOOSE m \in Range(rows) : \A x \in Range(rows) : x.time <= m.time).state

\* admission_skip_reason: why a window is not scored, Null when it is.
SkipReason(start, rows) ==
    CASE Cardinality(DOMAIN rows) < MinSamples -> "INSUFFICIENT_SAMPLES"
      [] ~RunningEnough(rows) \/ LastState(rows) # "RUNNING" -> "MACHINE_NOT_RUNNING"
      [] ~Mature(start, rows) -> "WINDOW_NOT_MATURE"
      [] OTHER -> Null

-----------------------------------------------------------------------------
(* Features: the aggregates every engine computes alike.  A column is the   *)
(* sequence of a signal's non-null values.                                  *)

Signals == {"rpm", "power", "power_per_rpm"}
Kinds == {"mean", "stddev", "min", "max", "range", "slope", "deviation", "zscore"}

Total(column) == FoldSeq(LAMBDA v, acc : v + acc, 0, column)

\* Scatter: count^2 times the sum of squared deviations from the mean.
Squared(v) == v * v
Scatter(column) ==
    FoldSeq(LAMBDA v, acc : Squared(Len(column) * v - Total(column)) + acc, 0, column)

MeanOf(column) == <<Total(column), Len(column)>>

\* last - mean, over the same denominator as the mean
FromMean(last, column) == <<Len(column) * last - Total(column), Len(column)>>

\* derived_signal_value, prepare_signals, add_derived_signals: no ratio on a
\* motor that hardly turns.
MinRotation == 1
Reading(m, signal) ==
    IF signal # "power_per_rpm" THEN m[signal]
    ELSE IF m.rpm = Null \/ m.power = Null THEN Null
    ELSE IF m.rpm < MinRotation THEN Null ELSE m.power \div m.rpm

Reported(rows, signal) ==
    Subsequence(rows, {i \in DOMAIN rows : Reading(rows[i], signal) # Null})
Column(rows, signal) ==
    [i \in DOMAIN Reported(rows, signal) |-> Reading(Reported(rows, signal)[i], signal)]

\* Rows in which both sensors reported: pairwise deletion.
Paired(rows) ==
    Subsequence(rows, {i \in DOMAIN rows : rows[i].power # Null /\ rows[i].rpm # Null})
Covariance(xs, ys) ==
    FoldSeq(LAMBDA i, acc : (Len(xs) * xs[i] - Total(xs)) * (Len(ys) * ys[i] - Total(ys)) + acc,
            0, [i \in DOMAIN xs |-> i])

NullShare(rows) ==
    <<Cardinality({i \in DOMAIN rows : rows[i].rpm = Null})
        + Cardinality({i \in DOMAIN rows : rows[i].power = Null}),
      2 * Len(rows)>>

-----------------------------------------------------------------------------
(* The reference: compute_features, over the samples sorted by event time *)

\* From the first instant to the last, not from the first value to the last.
SlopePerSecond(points) ==
    LET first == Head(points)
        last  == Last(points)
    IN  IF Len(points) < 2 \/ last[1] <= first[1] THEN Null
        ELSE <<last[2] - first[2], last[1] - first[1]>>

Aggregate(kind, points, values) ==
    LET n == Len(values)
        last == points[n]
    IN  IF n = 0 THEN Null
        ELSE CASE kind = "mean" -> MeanOf(values)
               [] kind = "stddev" -> IF n < 2 THEN Null ELSE <<Scatter(values), n>>
               [] kind = "min" -> Min(Range(values))
               [] kind = "max" -> Max(Range(values))
               [] kind = "range" -> Max(Range(values)) - Min(Range(values))
               [] kind = "slope" -> SlopePerSecond(points)
               [] kind = "deviation" -> FromMean(last[2], values)
               [] kind = "zscore" ->
                    IF n < 2 \/ Scatter(values) <= 0 THEN Null
                    ELSE <<FromMean(last[2], values), Scatter(values)>>

PearsonCorrelation(xs, ys) ==
    IF Len(xs) < 2 \/ Scatter(xs) <= 0 \/ Scatter(ys) <= 0 THEN Null
    ELSE <<Covariance(xs, ys), Scatter(xs), Scatter(ys)>>

\* points_by_signal: the instants and values of what a signal reported.
Points(rows, signal) ==
    [i \in DOMAIN Reported(rows, signal) |->
        <<Reported(rows, signal)[i].time, Column(rows, signal)[i]>>]

ComputeFeatures(rows) ==
    LET ordered == ByTime(rows)
        pairs == Paired(ordered)
    IN  [signals |-> [s \in Signals |-> [k \in Kinds |->
                         Aggregate(k, Points(ordered, s), Column(ordered, s))]],
         corr |-> PearsonCorrelation(Column(pairs, "power"), Column(pairs, "rpm")),
         samples |-> Len(ordered),
         nulls |-> NullShare(ordered)]

-----------------------------------------------------------------------------
(* Spark: window_aggregations, then derive_features.  No order of rows.  A  *)
(* null condition is not met, and arithmetic with a null is null.           *)

\* Mutant of MinBy: first(), the earliest arrival.
FirstArrived(rows, signal) ==
    IF Reported(rows, signal) = <<>> THEN Null ELSE Reading(Reported(rows, signal)[1], signal)

\* min_by(signal, masked_time), max_by(signal, masked_time)
MinBy(rows, signal) ==
    LET seen == Range(Reported(rows, signal))
    IN  IF seen = {} THEN Null
        ELSE Reading(CHOOSE m \in seen : \A x \in seen : m.time <= x.time, signal)
MaxBy(rows, signal) ==
    LET seen == Range(Reported(rows, signal))
    IN  IF seen = {} THEN Null
        ELSE Reading(CHOOSE m \in seen : \A x \in seen : x.time <= m.time, signal)

FeatureColumn(rows, signal, kind) ==
    LET values  == Column(rows, signal)
        times   == {m.time : m \in Range(Reported(rows, signal))}
        elapsed == Max(times) - Min(times)
        last    == MaxBy(rows, signal)
    IN  IF values = <<>> THEN Null
        ELSE CASE kind = "mean" -> MeanOf(values)
               [] kind = "stddev" -> IF Len(values) = 1 THEN Null ELSE <<Scatter(values), Len(values)>>
               [] kind = "min" -> Min(Range(values))
               [] kind = "max" -> Max(Range(values))
               [] kind = "range" -> Max(Range(values)) - Min(Range(values))
               [] kind = "slope" ->
                    IF elapsed > 0 THEN <<last - MinBy(rows, signal), elapsed>> ELSE Null
               [] kind = "deviation" -> FromMean(last, values)
               [] kind = "zscore" ->
                    IF Len(values) > 1 /\ Scatter(values) > 0
                    THEN <<FromMean(last, values), Scatter(values)>> ELSE Null

SparkFeatures(rows) ==
    LET xs == Column(Paired(rows), "power")
        ys == Column(Paired(rows), "rpm")
    IN  [signals |-> [s \in Signals |-> [k \in Kinds |-> FeatureColumn(rows, s, k)]],
         corr |-> IF Len(xs) > 1 /\ Scatter(xs) * Scatter(ys) # 0
                  THEN <<Covariance(xs, ys), Scatter(xs), Scatter(ys)>> ELSE Null,
         samples |-> Len(rows),
         nulls |-> NullShare(rows)]

-----------------------------------------------------------------------------
(* pandas: build_window_features; first and last skip NaN in sorted rows *)

PandasColumns(sorted, signal) ==
    LET shown == Reported(sorted, signal)
        values == Column(sorted, signal)
        times == {m.time : m \in Range(shown)}
        elapsed == Max(times) - Min(times)
    IN  IF values = <<>> THEN [k \in Kinds |-> Null]
        ELSE [mean |-> MeanOf(values),
              stddev |-> IF Len(values) = 1 THEN Null ELSE <<Scatter(values), Len(values)>>,
              min |-> Min(Range(values)),
              max |-> Max(Range(values)),
              range |-> Max(Range(values)) - Min(Range(values)),
              slope |-> IF elapsed > 0
                        THEN <<Last(values) - Head(values), elapsed>> ELSE Null,
              deviation |-> FromMean(Last(values), values),
              zscore |-> IF Len(values) > 1 /\ Scatter(values) > 0
                         THEN <<FromMean(Last(values), values), Scatter(values)>> ELSE Null]

PandasFeatures(rows) ==
    LET sorted == ByTime(rows)
        xs == Column(Paired(sorted), "power")
        ys == Column(Paired(sorted), "rpm")
    IN  [signals |-> [s \in Signals |-> PandasColumns(sorted, s)],
         corr |-> IF Len(xs) >= 2 /\ Scatter(xs) > 0 /\ Scatter(ys) > 0
                  THEN <<Covariance(xs, ys), Scatter(xs), Scatter(ys)>> ELSE Null,
         samples |-> Len(sorted),
         nulls |-> NullShare(sorted)]
=============================================================================
