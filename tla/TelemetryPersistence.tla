------------------------ MODULE TelemetryPersistence ------------------------
(***************************************************************************)
(* The dashboard's curve: listener threads of alert-service read batches   *)
(* of telemetry.scored, upsert one row per window, and acknowledge a batch *)
(* when all of it is handled; a scheduled job purges old rows.             *)
(*                                                                         *)
(* One partition, offsets counted from 1.  What a window's row holds is    *)
(* its sample count: the scoring query publishes a window again with more  *)
(* samples (TelemetryScoring: WindowNeverRestarts), and the same events    *)
(* again after a failure.  A window is stored whether it was scored or not.*)
(***************************************************************************)
EXTENDS Integers, Sequences

CONSTANTS
    Thread,       \* listener threads
    Window,       \* windows
    Start,        \* [Window -> Nat]: window_start
    Machine,      \* machine codes
    MachineOf,    \* [Window -> Machine]
    Kinds,        \* the kinds of record the topic may carry
    MaxPoll,      \* max.poll.records
    Horizon,      \* hours kept
    MaxSamples,   \* bound: samples of a window
    MaxLog,       \* bound: records published
    MaxTime,      \* bound: the clock
    MaxFaults     \* bound: failed writes, rebalances and crashes

ASSUME PersistenceAssumption ==
    /\ Thread # {}
    /\ Start \in [Window -> Nat]
    /\ MachineOf \in [Window -> Machine]
    /\ Kinds \subseteq {"good", "unparseable", "unstorable"}
    /\ MaxPoll \in Nat \ {0}
    /\ {Horizon, MaxSamples, MaxLog, MaxTime, MaxFaults} \subseteq Nat

VARIABLES
    log,          \* telemetry.scored
    committed,    \* the group's offset: records up to it are done
    owner,        \* the thread the partition is assigned to
    position,     \* the last record the owner has been given
    batch,        \* [Thread -> the records it works on]
    samples,      \* [Window -> sample_count], table telemetry_window; 0: no row
    machines,     \* table machine
    now,
    purged,       \* rows starting before this were deleted
    revoked,      \* some thread has lost the partition in the middle of a batch
    faults

groupVars == <<committed, owner, position>>
tableVars == <<samples, machines, purged>>
vars == <<log, groupVars, batch, tableVars, now, revoked, faults>>

Garbage == [kind |-> "unparseable"]
Record == [kind : {"good", "unstorable"}, window : Window, samples : 1..MaxSamples]
              \cup {Garbage}
NoBatch == [first |-> 1, next |-> 1, last |-> 0]
Busy(t) == batch[t].last > 0

TypeOK ==
    /\ log \in Seq(Record)
    /\ committed \in 0..Len(log) /\ position \in 0..Len(log)
    /\ owner \in Thread
    /\ batch \in [Thread -> [first : Nat \ {0}, next : Nat \ {0}, last : Nat]]
    /\ \A t \in Thread :
          Busy(t) => /\ batch[t].first <= batch[t].next /\ batch[t].next <= batch[t].last + 1
                     /\ batch[t].last <= Len(log)
    /\ samples \in [Window -> 0..MaxSamples]
    /\ machines \subseteq Machine
    /\ \A w \in Window : samples[w] > 0 => MachineOf[w] \in machines
    /\ now \in 0..MaxTime /\ purged \in Int /\ purged <= now - Horizon
    /\ revoked \in BOOLEAN
    /\ faults \in 0..MaxFaults

Init ==
    /\ log = <<>>
    /\ committed = 0
    /\ owner \in Thread
    /\ position = 0
    /\ batch = [t \in Thread |-> NoBatch]
    /\ samples = [w \in Window |-> 0]
    /\ machines = {}
    /\ now = 0
    /\ purged = -Horizon
    /\ revoked = FALSE
    /\ faults = 0

Faulty == faults < MaxFaults /\ faults' = faults + 1

-----------------------------------------------------------------------------
(* The topic *)

\* A window is published as it fills, never with fewer samples than before.
Follows(r) ==
    \A i \in DOMAIN log :
        r # Garbage /\ log[i] # Garbage /\ log[i].window = r.window => log[i].samples <= r.samples

Publish(r) ==
    /\ Len(log) < MaxLog
    /\ r.kind \in Kinds
    /\ Follows(r)
    /\ log' = Append(log, r)
    /\ UNCHANGED <<groupVars, batch, tableVars, now, revoked, faults>>

-----------------------------------------------------------------------------
(* onBatch *)

Poll(t, n) ==
    /\ owner = t
    /\ ~Busy(t)
    /\ position + n <= Len(log)
    /\ batch' = [batch EXCEPT ![t] = [first |-> position + 1, next |-> position + 1,
                                      last |-> position + n]]
    /\ position' = position + n
    /\ UNCHANGED <<log, committed, owner, tableVars, now, revoked, faults>>

Current(t) == log[batch[t].next]
InBatch(t) == Busy(t) /\ batch[t].next <= batch[t].last
MoveTo(t, i) == batch' = [batch EXCEPT ![t].next = i]

\* Mutant of Dropped: a window that cannot be parsed is an error like others.
DroppedNever(r) == FALSE

Dropped(r) == r.kind = "unparseable"

\* The window is dropped: a log line, no dead letter.
DropWindow(t) ==
    /\ InBatch(t)
    /\ Dropped(Current(t))
    /\ MoveTo(t, batch[t].next + 1)
    /\ UNCHANGED <<log, groupVars, tableVars, now, revoked, faults>>

\* Mutant of Stored: ON CONFLICT DO NOTHING.
StoredFirst(r) == IF samples[r.window] = 0 THEN r.samples ELSE samples[r.window]

\* The row after the upsert: the last write wins.
Stored(r) == r.samples

Provisioned(r) == machines \cup {MachineOf[r.window]}

\* ingest: one transaction provisions the machine and writes the row.
StoreWindow(t) ==
    /\ InBatch(t)
    /\ Current(t).kind = "good"
    /\ samples' = [samples EXCEPT ![Current(t).window] = Stored(Current(t))]
    /\ machines' = Provisioned(Current(t))
    /\ MoveTo(t, batch[t].next + 1)
    /\ UNCHANGED <<log, groupVars, purged, now, revoked, faults>>

\* Mutant of AfterFailure: the failed record is skipped.
AfterFailureSkipped(t) == batch[t].next + 1

\* The error handler runs the whole batch again.
AfterFailure(t) == batch[t].first

\* A value the table refuses fails each time it is written.
StoreRefused(t) ==
    /\ InBatch(t)
    /\ ~Dropped(Current(t))
    /\ Current(t).kind # "good"
    /\ MoveTo(t, AfterFailure(t))
    /\ UNCHANGED <<log, groupVars, tableVars, now, revoked, faults>>

\* The database does not answer.
StoreFails(t) ==
    /\ InBatch(t)
    /\ Current(t).kind # "unparseable"
    /\ Faulty
    /\ MoveTo(t, AfterFailure(t))
    /\ UNCHANGED <<log, groupVars, tableVars, now, revoked>>

\* The commit of a thread that has lost the partition is refused.
AcknowledgeBatch(t) ==
    /\ Busy(t)
    /\ batch[t].next > batch[t].last
    /\ committed' = IF owner = t THEN batch[t].last ELSE committed
    /\ batch' = [batch EXCEPT ![t] = NoBatch]
    /\ UNCHANGED <<log, owner, position, tableVars, now, revoked, faults>>

\* The group gives the partition to another thread, one that polls, which
\* starts from the committed offset; the one that had it works on, unaware.
Rebalance(t) ==
    /\ t # owner
    /\ ~Busy(t)
    /\ Faulty
    /\ owner' = t
    /\ position' = committed
    /\ revoked' = (revoked \/ \E s \in Thread : Busy(s))
    /\ UNCHANGED <<log, committed, batch, tableVars, now>>

Crash ==
    /\ Faulty
    /\ batch' = [t \in Thread |-> NoBatch]
    /\ position' = committed
    /\ UNCHANGED <<log, committed, owner, tableVars, now, revoked>>

-----------------------------------------------------------------------------
(* Retention *)

Tick ==
    /\ now < MaxTime
    /\ now' = now + 1
    /\ UNCHANGED <<log, groupVars, batch, tableVars, revoked, faults>>

Purge ==
    /\ samples' = [w \in Window |-> IF Start[w] < now - Horizon THEN 0 ELSE samples[w]]
    /\ purged' = now - Horizon
    /\ UNCHANGED <<log, groupVars, batch, machines, now, revoked, faults>>

-----------------------------------------------------------------------------

Listener(t) ==
    \/ \E n \in 1..MaxPoll : Poll(t, n)
    \/ DropWindow(t)
    \/ StoreWindow(t)
    \/ StoreRefused(t)
    \/ AcknowledgeBatch(t)

Next ==
    \/ \E r \in Record : Publish(r)
    \/ \E t \in Thread : Listener(t) \/ StoreFails(t) \/ Rebalance(t)
    \/ Crash
    \/ Tick
    \/ Purge

Spec == Init /\ [][Next]_vars

\* The container runs its threads.
FairSpec == Spec /\ \A t \in Thread : WF_vars(Listener(t))

-----------------------------------------------------------------------------
(* Properties *)

\* The record is dealt with: it was to be dropped, its window has a row, or
\* its row was old enough to be purged.
Done(i) ==
    \/ log[i] = Garbage
    \/ samples[log[i].window] > 0
    \/ Start[log[i].window] < purged

\* Whatever fails or moves in the middle of a batch, every window behind the
\* committed offset is on the curve until it is purged: a record is never
\* acknowledged by a batch that did not write it.
CommittedMeansPlotted == \A i \in 1..committed : Done(i)

\* Nothing is left to write.
CaughtUp == position = Len(log) /\ \A t \in Thread : ~Busy(t)

\* Behind a topic that is read to its end, a row holds the newest emission
\* of its window.
NewestPlotted ==
    CaughtUp =>
        \A i \in DOMAIN log :
            \/ log[i] = Garbage
            \/ samples[log[i].window] >= log[i].samples
            \/ Start[log[i].window] < purged

\* The order of the partition is the order of the writes, across retries of
\* half-written batches, crashes and purges, as long as the partition is
\* not taken from a thread that works on it.
NewestUnlessRevoked == ~revoked => NewestPlotted

\* Every published window is dealt with, whatever is dropped, fails for a
\* while, moves or crashes before it, unless the table refuses a window up
\* to it each time it is written.
RefusedUpTo(i) == \E j \in 1..i : log[j].kind = "unstorable"
CurveCatchesUp == []<>(\A i \in DOMAIN log : Done(i) \/ RefusedUpTo(i))
=============================================================================
