---------------------------- MODULE AlertEpisodes ----------------------------
(***************************************************************************)
(* The alerting query of the stream processor: anomalous windows read from *)
(* "telemetry.scored" in micro-batches, one state per machine, one alert   *)
(* per run of windows, an event-time timeout that closes the run.          *)
(*                                                                         *)
(* A batch is planned once, in the write-ahead log, and run again from the *)
(* same rows and the same state after a crash; what it sends to Kafka      *)
(* before the crash stays sent.  Spark itself is modelled from how the     *)
(* query uses it: the watermark of the batch decides timeouts, the one of  *)
(* the batch before decides which rows come too late.                      *)
(*                                                                         *)
(* Abstracted: scores, severity and contributors (the strongest update of  *)
(* a window only fills the payload), the model (one version), time units.  *)
(***************************************************************************)
EXTENDS Integers, FiniteSets, FiniteSetsExt

CONSTANTS
    Machine,      \* machine identifiers
    Row,          \* <<machine, window start>> the scoring query may find anomalous
    WindowLen,    \* window_seconds
    Gap,          \* alert_gap_seconds
    Delay,        \* watermark_seconds
    ToOpen,       \* consecutive_windows_to_open
    MaxBatches,   \* bound: batches planned
    MaxRows,      \* bound: distinct windows in one batch
    MaxFaults     \* bound: crashes

ASSUME RowAssumption == Row \subseteq Machine \X Nat
ASSUME SettingsAssumption ==
    /\ {WindowLen, Gap, Delay, ToOpen} \subseteq Nat \ {0}
ASSUME EpisodeBoundAssumption == {MaxBatches, MaxRows, MaxFaults} \subseteq Nat

VARIABLES
    store,      \* [Machine -> state or NoState], the committed state store
    fresh,      \* the state store version the running batch writes
    lateMark,   \* watermark of the previous batch, in milliseconds of the model
    mark,       \* watermark of the running or next batch
    batch,      \* rows <<machine, window start>> of the planned batch
    todo,       \* machines the running attempt has not called the handler for
    running,    \* a batch is planned and not committed
    sent,       \* alert identifiers this attempt has sent to the alerts topic
    published,  \* alert identifiers ever sent
    opened,     \* alert identifiers sent by the attempts that committed
    seen,       \* rows of every planned batch
    alive,      \* the query has not been killed by an exception
    batches,    \* batches planned so far
    faults      \* crashes so far

stateVars == <<store, fresh>>
markVars == <<lateMark, mark>>
outVars == <<sent, published, opened>>
vars == <<stateVars, markVars, batch, todo, running, outVars, seen, alive,
          batches, faults>>

-----------------------------------------------------------------------------
(* Types.  A timeout is in half units: one past the watermark is the least  *)
(* step Spark's clock makes, and less than the distance of two windows.     *)

\* An existing state has counted a window.
RunState == [open : BOOLEAN, count : Nat \ {0}, last : Nat, timeout : Nat]
NoState == [open |-> FALSE, count |-> 0, last |-> 0, timeout |-> 0]
AlertIds == Machine \X Nat

TypeOK ==
    /\ store \in [Machine -> RunState \cup {NoState}]
    /\ fresh \in [Machine -> RunState \cup {NoState}]
    /\ lateMark \in Nat
    /\ mark \in Nat
    /\ batch \subseteq Row
    /\ todo \subseteq Machine
    /\ running \in BOOLEAN
    /\ sent \subseteq AlertIds
    /\ published \subseteq AlertIds
    /\ opened \subseteq AlertIds
    /\ seen \subseteq Row
    /\ alive \in BOOLEAN
    /\ batches \in 0..MaxBatches
    /\ faults \in 0..MaxFaults

\* Milliseconds of the model: two to a second.
Millis(seconds) == 2 * seconds

Init ==
    /\ store = [m \in Machine |-> NoState]
    /\ fresh = store
    /\ lateMark = 0
    /\ mark = 0
    /\ batch = {}
    /\ todo = {}
    /\ running = FALSE
    /\ sent = {}
    /\ published = {}
    /\ opened = {}
    /\ seen = {}
    /\ alive = TRUE
    /\ batches = 0
    /\ faults = 0

-----------------------------------------------------------------------------
(* The handler *)

\* Mutant of AlertId: named after the publication rather than the window.
AlertIdByAttempt(m, w) == <<m, w + faults>>

\* derive_alert_id: a function of the machine and the opening window.
AlertId(m, w) == <<m, w>>

\* The handler's local variables: the run and the alerts it has emitted.
RunOf(s) == [open |-> s.open, count |-> s.count, last |-> s.last, out |-> {}]

\* Mutant of AlreadyCounted: an update of the last window is counted again.
AlreadyCountedBefore(run, w) == run.count > 0 /\ w < run.last

AlreadyCounted(run, w) == run.count > 0 /\ w <= run.last

Interrupted(run, w) == run.count > 0 /\ w - run.last > Gap

\* Mutant of Opens: every window past the threshold is announced.
OpensAgain(open, count) == count >= ToOpen
Opens(open, count) == ~open /\ count >= ToOpen

Counted(run, w) == IF Interrupted(run, w) THEN 1 ELSE run.count + 1

\* The body of the loop over the sorted windows.
CountWindow(m, run, w) ==
    LET open  == run.open /\ ~Interrupted(run, w)
        count == Counted(run, w)
    IN  IF AlreadyCounted(run, w) THEN run
        ELSE [open |-> open \/ Opens(open, count), count |-> count, last |-> w,
              out |-> run.out \cup (IF Opens(open, count) THEN {AlertId(m, w)} ELSE {})]

\* The windows in increasing order, each once however often it was emitted:
\* run[n] is what the windows before n have made of the state.
CountWindows(m, s, windows) ==
    LET run[n \in Nat] ==
            IF n = 0 THEN RunOf(s)
            ELSE IF n - 1 \in windows THEN CountWindow(m, run[n - 1], n - 1)
            ELSE run[n - 1]
    IN  run[Max(windows) + 1]

\* Mutant of RequestedTimeout: no clamp.
RequestedTimeoutRaw(last) == Millis(last + Gap)

\* The end of the gap, and no earlier than just past the watermark.
RequestedTimeout(last) == Max({Millis(last + Gap), mark + 1})

-----------------------------------------------------------------------------
(* The micro-batch *)

\* withWatermark("window_end"): rows that were behind the previous batch's
\* watermark do not reach the handler.
OnTime(r) == Millis(r[2] + WindowLen) > lateMark
WindowsOf(m) == {r[2] : r \in {x \in batch : x[1] = m /\ OnTime(x)}}

\* A state times out once the watermark has passed its timeout, unless the
\* batch brings its machine a window.
TimedOut(m) ==
    /\ store[m] # NoState
    /\ WindowsOf(m) = {}
    /\ store[m].timeout < mark

\* A batch is planned on new rows, or without any when the watermark moved.
PlanBatch(rows) ==
    /\ alive
    /\ ~running
    /\ batches < MaxBatches
    /\ rows # {} \/ mark > lateMark
    /\ batch' = rows
    /\ seen' = seen \cup rows
    /\ todo' = Machine
    /\ running' = TRUE
    /\ fresh' = store
    /\ sent' = {}
    /\ batches' = batches + 1
    /\ UNCHANGED <<store, markVars, published, opened, alive, faults>>

\* The handler on a machine's rows; Spark refuses a timeout that is behind
\* the watermark, and the exception ends the query.
HandleRows(m) ==
    LET run     == CountWindows(m, store[m], WindowsOf(m))
        timeout == RequestedTimeout(run.last)
    IN  /\ alive
        /\ m \in todo
        /\ WindowsOf(m) # {}
        /\ IF timeout < mark
           THEN alive' = FALSE /\ UNCHANGED <<fresh, todo, sent, published>>
           ELSE /\ fresh' = [fresh EXCEPT ![m] =
                                [open |-> run.open, count |-> run.count,
                                 last |-> run.last, timeout |-> timeout]]
                /\ todo' = todo \ {m}
                /\ sent' = sent \cup run.out
                /\ published' = published \cup run.out
                /\ UNCHANGED alive
        /\ UNCHANGED <<store, markVars, batch, running, opened, seen, batches, faults>>

Closed(m) == [fresh EXCEPT ![m] = NoState]

\* The handler on a timed-out state: the episode is over.
HandleTimeout(m) ==
    /\ alive
    /\ m \in todo
    /\ TimedOut(m)
    /\ fresh' = Closed(m)
    /\ todo' = todo \ {m}
    /\ UNCHANGED <<store, markVars, batch, running, outVars, seen, alive, batches, faults>>

\* Machines without a row or an expired state are not called at all.
HasCall(m) == WindowsOf(m) # {} \/ TimedOut(m)

\* The batch is committed with its state store version; the watermark
\* follows the greatest window end read, late rows included.
CommitBatch ==
    /\ alive
    /\ running
    /\ \A m \in todo : ~HasCall(m)
    /\ running' = FALSE
    /\ todo' = {}
    /\ batch' = {}
    /\ store' = fresh
    /\ opened' = opened \cup sent
    /\ lateMark' = mark
    /\ mark' = Max({mark} \cup {Millis(r[2] + WindowLen - Delay) : r \in batch})
    /\ UNCHANGED <<fresh, sent, published, seen, alive, batches, faults>>

\* The job dies and restarts: the planned batch runs again from the
\* committed state.
Crash ==
    /\ running
    /\ faults < MaxFaults
    /\ faults' = faults + 1
    /\ todo' = Machine
    /\ fresh' = store
    /\ sent' = {}
    /\ UNCHANGED <<store, markVars, batch, running, published, opened, seen,
                   alive, batches>>

Batches == {rows \in SUBSET Row : IsFiniteSet(rows) /\ Cardinality(rows) <= MaxRows}

Next ==
    \/ \E rows \in Batches : PlanBatch(rows)
    \/ \E m \in Machine : HandleRows(m) \/ HandleTimeout(m)
    \/ CommitBatch
    \/ Crash

Spec == Init /\ [][Next]_vars

-----------------------------------------------------------------------------
(* Properties *)

\* An alert needs ToOpen distinct anomalous windows of its machine, no older
\* than as many gaps as lie between them: however often update mode repeats a
\* window, and however batches and crashes cut the run, one window never opens
\* an alert.  (A long run's windows are counted one by one; the bound counts
\* those a run of ToOpen windows can span.)
AlertNeedsRun ==
    \A id \in published :
        LET span == {r[2] : r \in {x \in seen : /\ x[1] = id[1]
                                                /\ x[2] <= id[2]
                                                /\ id[2] - x[2] <= Gap * (ToOpen - 1)}}
        IN  id[2] \in span /\ Cardinality(span) >= ToOpen

\* A run of anomalous windows is one alert: two alerts of a machine are
\* further apart than the gap less one window, plus the windows it takes to
\* open, whatever machine moves the watermark and however late the windows
\* come.  (Not the whole gap: the timeout is counted from a window's start
\* and the watermark from window ends, so a run may be closed one window
\* length early.)
OneAlertPerRun ==
    \A a, b \in published :
        a[1] = b[1] /\ a[2] < b[2] => b[2] - a[2] > Gap - WindowLen + ToOpen - 1

\* A batch that is run again publishes the identifiers it has published
\* before and no others: between batches every identifier on the alerts
\* topic is one that a committed attempt sent.
ReplayAddsNothing == ~running => published = opened

\* The query never dies of a timeout behind the watermark: the restored
\* watermark, the late rows and a replayed batch included.
QueryNeverKilled == alive
=============================================================================
