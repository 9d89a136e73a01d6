-------------------- MODULE TelemetryPersistenceProofs --------------------
(***************************************************************************)
(* Safety of TelemetryPersistence for any number of threads, windows,      *)
(* records, rebalances, crashes and failed writes.                         *)
(***************************************************************************)
EXTENDS TelemetryPersistence, TLAPS

-----------------------------------------------------------------------------
(* The inductive invariant *)

\* The owner works on what follows the committed offset, and up to the
\* position; at rest it has acknowledged all it has been given.
OwnerUpToDate ==
    IF Busy(owner)
    THEN batch[owner].first = committed + 1 /\ batch[owner].last = position
    ELSE position = committed

\* Whoever owns the partition, what a thread has passed in its batch, and
\* what comes before the batch, is dealt with.
PassedDone ==
    \A t \in Thread : Busy(t) => \A i \in 1..(batch[t].next - 1) : Done(i)

\* The emissions of a window are in the order of their sample counts.
LogOrdered ==
    \A i, j \in 1..Len(log) :
        i <= j /\ log[i] # Garbage /\ log[j] # Garbage /\ log[i].window = log[j].window
        => log[i].samples <= log[j].samples

\* The records the owner has dealt with since its last failure.
Progress == IF Busy(owner) THEN batch[owner].next - 1 ELSE position

\* The row of the record's window is as new as the record.
Fresh(i) ==
    \/ log[i] = Garbage
    \/ samples[log[i].window] >= log[i].samples
    \/ Start[log[i].window] < purged

OnlyOwnerWorks == ~revoked => \A t \in Thread : Busy(t) => t = owner
ProgressFresh == ~revoked => \A i \in 1..Progress : Fresh(i)

IInv ==
    /\ TypeOK /\ OwnerUpToDate /\ CommittedMeansPlotted /\ PassedDone
    /\ LogOrdered /\ OnlyOwnerWorks /\ ProgressFresh

-----------------------------------------------------------------------------
(* Records *)

\* A record of the topic that is not garbage has a window and a sample count.
LEMMA Records ==
    ASSUME TypeOK, NEW i \in 1..Len(log)
    PROVE  /\ log[i] \in Record
           /\ log[i].kind \in {"good", "unparseable", "unstorable"}
           /\ log[i] # Garbage => /\ log[i].kind \in {"good", "unstorable"}
                                  /\ log[i].window \in Window
                                  /\ log[i].samples \in Nat /\ log[i].samples >= 1
                                  /\ log[i].samples <= MaxSamples
           /\ log[i].kind = "unparseable" => log[i] = Garbage
<1>1. log[i] \in Record
  BY DEF TypeOK
<1>2. CASE log[i] = Garbage
  BY <1>1, <1>2 DEF Garbage
<1>3. CASE log[i] # Garbage
  <2>1. log[i] \in [kind : {"good", "unstorable"}, window : Window, samples : 1..MaxSamples]
    BY <1>1, <1>3 DEF Record
  <2>2. /\ log[i].kind \in {"good", "unstorable"}
        /\ log[i].window \in Window /\ log[i].samples \in 1..MaxSamples
    BY <2>1
  <2> QED
    BY <1>1, <1>3, <2>2, PersistenceAssumption DEF PersistenceAssumption
<1> QED
  BY <1>2, <1>3

\* A thread that is in its batch looks at a record of the topic.
LEMMA CurrentIsRecord ==
    ASSUME TypeOK, NEW t \in Thread, InBatch(t)
    PROVE  batch[t].next \in 1..Len(log) /\ batch[t].next <= batch[t].last
BY DEF TypeOK, InBatch, Busy

\* What an upsert writes is the sample count of a record of the topic.
LEMMA StoredRecord ==
    ASSUME TypeOK, NEW t \in Thread, StoreWindow(t)
    PROVE  /\ batch[t].next \in 1..Len(log)
           /\ log[batch[t].next] # Garbage
           /\ log[batch[t].next].window \in Window
           /\ log[batch[t].next].samples \in Nat /\ log[batch[t].next].samples >= 1
           /\ log[batch[t].next].samples <= MaxSamples
           /\ samples' = [samples EXCEPT ![log[batch[t].next].window]
                                              = log[batch[t].next].samples]
           /\ purged' = purged /\ log' = log
<1>1. batch[t].next \in 1..Len(log) /\ log[batch[t].next].kind = "good"
  BY CurrentIsRecord DEF StoreWindow, Current
<1>2. log[batch[t].next] # Garbage
  BY <1>1 DEF Garbage
<1> QED
  BY <1>1, <1>2, Records DEF StoreWindow, Current, Stored

-----------------------------------------------------------------------------
(* Types *)

LEMMA MovedBatch ==
    ASSUME TypeOK, NEW t \in Thread, Busy(t),
           NEW i \in Nat, batch[t].first <= i, i <= batch[t].last + 1, MoveTo(t, i)
    PROVE  /\ batch' \in [Thread -> [first : Nat \ {0}, next : Nat \ {0}, last : Nat]]
           /\ \A u \in Thread : u # t => batch'[u] = batch[u]
           /\ batch'[t].first = batch[t].first
           /\ batch'[t].next = i
           /\ batch'[t].last = batch[t].last
           /\ \A u \in Thread : Busy(u)' <=> Busy(u)
<1>1. /\ batch \in [Thread -> [first : Nat \ {0}, next : Nat \ {0}, last : Nat]]
      /\ batch' = [batch EXCEPT ![t].next = i]
      /\ i \in Nat \ {0}
  BY DEF TypeOK, MoveTo
<1>2. batch'[t] = [batch[t] EXCEPT !.next = i] /\ \A u \in Thread : u # t => batch'[u] = batch[u]
  BY <1>1
<1>3. batch[t] \in [first : Nat \ {0}, next : Nat \ {0}, last : Nat]
  BY <1>1
<1>4. /\ batch'[t].first = batch[t].first /\ batch'[t].next = i
      /\ batch'[t].last = batch[t].last
  BY <1>2, <1>3
<1>5. batch' \in [Thread -> [first : Nat \ {0}, next : Nat \ {0}, last : Nat]]
  BY <1>1
<1> QED
  BY <1>2, <1>4, <1>5 DEF Busy

LEMMA BatchTypes ==
    ASSUME TypeOK, NEW t \in Thread
    PROVE  /\ batch[t].first \in Nat /\ batch[t].first >= 1
           /\ batch[t].next \in Nat /\ batch[t].next >= 1
           /\ batch[t].last \in Nat
           /\ Busy(t) => /\ batch[t].first <= batch[t].next
                         /\ batch[t].next <= batch[t].last + 1
                         /\ batch[t].last <= Len(log)
           /\ InBatch(t) => Busy(t) /\ batch[t].next <= batch[t].last
BY DEF TypeOK, Busy, InBatch

\* A move inside a batch leaves the types alone.
BatchOK ==
    /\ batch \in [Thread -> [first : Nat \ {0}, next : Nat \ {0}, last : Nat]]
    /\ \A t \in Thread :
          Busy(t) => /\ batch[t].first <= batch[t].next /\ batch[t].next <= batch[t].last + 1
                     /\ batch[t].last <= Len(log)

LEMMA MovedBatchOK ==
    ASSUME TypeOK, NEW t \in Thread, Busy(t), log' = log,
           NEW i \in Nat, batch[t].first <= i, i <= batch[t].last + 1, MoveTo(t, i)
    PROVE  BatchOK'
<1>1. /\ batch' \in [Thread -> [first : Nat \ {0}, next : Nat \ {0}, last : Nat]]
      /\ \A u \in Thread : u # t => batch'[u] = batch[u]
      /\ batch'[t].first = batch[t].first
      /\ batch'[t].next = i
      /\ batch'[t].last = batch[t].last
      /\ \A u \in Thread : Busy(u)' <=> Busy(u)
  BY MovedBatch
<1>2. ASSUME NEW u \in Thread, Busy(u)'
      PROVE  /\ batch'[u].first <= batch'[u].next /\ batch'[u].next <= batch'[u].last + 1
             /\ batch'[u].last <= Len(log')
  BY <1>1, <1>2, BatchTypes
<1> QED
  BY <1>1, <1>2 DEF BatchOK

\* What a thread does with the record it looks at moves it one on or back to
\* the first.
LEMMA InBatchMoves ==
    ASSUME TypeOK, NEW t \in Thread, InBatch(t), log' = log,
           MoveTo(t, batch[t].next + 1) \/ MoveTo(t, batch[t].first)
    PROVE  BatchOK'
<1>1. /\ Busy(t)
      /\ batch[t].next + 1 \in Nat /\ batch[t].first <= batch[t].next + 1
      /\ batch[t].next + 1 <= batch[t].last + 1
      /\ batch[t].first \in Nat /\ batch[t].first <= batch[t].first
      /\ batch[t].first <= batch[t].last + 1
  BY BatchTypes
<1>2. CASE MoveTo(t, batch[t].next + 1)
  BY <1>1, <1>2, MovedBatchOK
<1>3. CASE MoveTo(t, batch[t].first)
  BY <1>1, <1>3, MovedBatchOK
<1> QED
  BY <1>2, <1>3

\* The rest of the type invariant.
TopicOK == log \in Seq(Record)
GroupOK == committed \in 0..Len(log) /\ position \in 0..Len(log) /\ owner \in Thread
RowsOK ==
    /\ samples \in [Window -> 0..MaxSamples]
    /\ machines \subseteq Machine
    /\ \A w \in Window : samples[w] > 0 => MachineOf[w] \in machines
ClockOK ==
    /\ now \in 0..MaxTime /\ purged \in Int /\ purged <= now - Horizon
    /\ revoked \in BOOLEAN
    /\ faults \in 0..MaxFaults

LEMMA TypeParts == TypeOK <=> TopicOK /\ GroupOK /\ BatchOK /\ RowsOK /\ ClockOK
BY DEF TypeOK, TopicOK, GroupOK, BatchOK, RowsOK, ClockOK

LEMMA FaultCounted ==
    ASSUME ClockOK, Faulty PROVE faults' \in 0..MaxFaults
BY PersistenceAssumption DEF ClockOK, Faulty, PersistenceAssumption

LEMMA TypeStep ==
    ASSUME TypeOK, [Next]_vars
    PROVE  TypeOK'
<1> USE PersistenceAssumption DEF PersistenceAssumption
<1>0. TopicOK /\ GroupOK /\ BatchOK /\ RowsOK /\ ClockOK
  BY TypeParts
<1>1. CASE UNCHANGED vars
  BY <1>1 DEF vars, groupVars, tableVars, TypeOK, Busy
<1>2. ASSUME NEW r \in Record, Publish(r)
      PROVE  TopicOK' /\ GroupOK' /\ BatchOK' /\ RowsOK' /\ ClockOK'
  <2>1. TopicOK' /\ Len(log') = Len(log) + 1
    BY <1>0, <1>2 DEF Publish, TopicOK
  <2>2. GroupOK'
    BY <1>0, <1>2, <2>1 DEF Publish, groupVars, GroupOK, TopicOK
  <2>3. BatchOK'
    <3>1. batch' = batch /\ Len(log) \in Nat
      BY <1>0, <1>2 DEF Publish, TopicOK
    <3>2. ASSUME NEW t \in Thread, Busy(t)'
          PROVE  /\ batch'[t].first <= batch'[t].next /\ batch'[t].next <= batch'[t].last + 1
                 /\ batch'[t].last <= Len(log')
      <4>1. batch[t].last \in Nat /\ batch[t].last <= Len(log)
            /\ batch[t].first <= batch[t].next /\ batch[t].next <= batch[t].last + 1
        BY <3>1, <3>2, BatchTypes DEF Busy
      <4> QED
        BY <2>1, <3>1, <4>1
    <3> QED
      BY <1>0, <3>1, <3>2 DEF BatchOK
  <2> QED
    BY <1>0, <1>2, <2>1, <2>2, <2>3 DEF Publish, tableVars, RowsOK, ClockOK
<1>3. ASSUME NEW t \in Thread, NEW n \in 1..MaxPoll, Poll(t, n)
      PROVE  TopicOK' /\ GroupOK' /\ BatchOK' /\ RowsOK' /\ ClockOK'
  <2>1. GroupOK' /\ TopicOK'
    BY <1>0, <1>3 DEF Poll, GroupOK, TopicOK
  <2>2. BatchOK'
    <3>1. /\ position + 1 \in Nat \ {0} /\ position + n \in Nat
          /\ position + n <= Len(log)
      BY <1>0, <1>3 DEF Poll, GroupOK
    <3>2. /\ batch' = [batch EXCEPT ![t] = [first |-> position + 1, next |-> position + 1,
                                           last |-> position + n]]
          /\ log' = log
      BY <1>3 DEF Poll
    <3>3. batch' \in [Thread -> [first : Nat \ {0}, next : Nat \ {0}, last : Nat]]
      BY <1>0, <3>1, <3>2 DEF BatchOK
    <3>4. ASSUME NEW u \in Thread, Busy(u)'
          PROVE  /\ batch'[u].first <= batch'[u].next
                 /\ batch'[u].next <= batch'[u].last + 1
                 /\ batch'[u].last <= Len(log')
      <4>1. CASE u = t
        <5>1. batch'[u] = [first |-> position + 1, next |-> position + 1,
                           last |-> position + n]
          BY <1>0, <3>2, <4>1 DEF BatchOK
        <5> QED
          BY <1>0, <3>1, <3>2, <5>1 DEF GroupOK
      <4>2. CASE u # t
        BY <1>0, <3>2, <3>4, <4>2 DEF BatchOK, Busy
      <4> QED
        BY <4>1, <4>2
    <3> QED
      BY <3>3, <3>4 DEF BatchOK
  <2> QED
    BY <1>0, <1>3, <2>1, <2>2 DEF Poll, tableVars, RowsOK, ClockOK
<1>4. ASSUME NEW t \in Thread, DropWindow(t)
      PROVE  TopicOK' /\ GroupOK' /\ BatchOK' /\ RowsOK' /\ ClockOK'
  <2>1. BatchOK'
    BY <1>4, InBatchMoves DEF DropWindow
  <2> QED
    BY <1>0, <1>4, <2>1 DEF DropWindow, groupVars, tableVars, TopicOK, GroupOK, RowsOK, ClockOK
<1>5. ASSUME NEW t \in Thread, StoreWindow(t)
      PROVE  TopicOK' /\ GroupOK' /\ BatchOK' /\ RowsOK' /\ ClockOK'
  <2>1. BatchOK'
    BY <1>5, InBatchMoves DEF StoreWindow
  <2>2. RowsOK'
    <3>1. /\ Current(t).window \in Window
          /\ Current(t).samples \in 1..MaxSamples
      BY <1>5, StoredRecord DEF Current
    <3>2. /\ samples' = [samples EXCEPT ![Current(t).window] = Current(t).samples]
          /\ machines' = machines \cup {MachineOf[Current(t).window]}
      BY <1>5 DEF StoreWindow, Stored, Provisioned
    <3> QED
      BY <1>0, <3>1, <3>2 DEF RowsOK
  <2> QED
    BY <1>0, <1>5, <2>1, <2>2 DEF StoreWindow, groupVars, TopicOK, GroupOK, ClockOK
<1>6. ASSUME NEW t \in Thread, StoreRefused(t)
      PROVE  TopicOK' /\ GroupOK' /\ BatchOK' /\ RowsOK' /\ ClockOK'
  <2>1. BatchOK'
    BY <1>6, InBatchMoves DEF StoreRefused, AfterFailure
  <2> QED
    BY <1>0, <1>6, <2>1 DEF StoreRefused, groupVars, tableVars, TopicOK, GroupOK, RowsOK, ClockOK
<1>7. ASSUME NEW t \in Thread, StoreFails(t)
      PROVE  TopicOK' /\ GroupOK' /\ BatchOK' /\ RowsOK' /\ ClockOK'
  <2>1. BatchOK'
    BY <1>7, InBatchMoves DEF StoreFails, AfterFailure
  <2>2. faults' \in 0..MaxFaults
    BY <1>0, <1>7, FaultCounted DEF StoreFails
  <2> QED
    BY <1>0, <1>7, <2>1, <2>2
       DEF StoreFails, groupVars, tableVars, TopicOK, GroupOK, RowsOK, ClockOK
<1>8. ASSUME NEW t \in Thread, AcknowledgeBatch(t)
      PROVE  TopicOK' /\ GroupOK' /\ BatchOK' /\ RowsOK' /\ ClockOK'
  <2>1. GroupOK'
    <3>1. batch[t].last \in Nat /\ batch[t].last <= Len(log)
      BY <1>8, BatchTypes DEF AcknowledgeBatch
    <3>2. /\ log' = log /\ owner' = owner /\ position' = position
          /\ committed' = committed \/ committed' = batch[t].last
      BY <1>8 DEF AcknowledgeBatch
    <3> QED
      BY <1>0, <3>1, <3>2 DEF GroupOK
  <2>2. BatchOK'
    BY <1>0, <1>8 DEF AcknowledgeBatch, BatchOK, NoBatch, Busy
  <2> QED
    BY <1>0, <1>8, <2>1, <2>2 DEF AcknowledgeBatch, tableVars, TopicOK, RowsOK, ClockOK
<1>9. ASSUME NEW t \in Thread, Rebalance(t)
      PROVE  TopicOK' /\ GroupOK' /\ BatchOK' /\ RowsOK' /\ ClockOK'
  <2>1. faults' \in 0..MaxFaults /\ revoked' \in BOOLEAN
    BY <1>0, <1>9, FaultCounted DEF Rebalance, ClockOK
  <2>2. BatchOK'
    BY <1>0, <1>9 DEF Rebalance, BatchOK, Busy
  <2> QED
    BY <1>0, <1>9, <2>1, <2>2 DEF Rebalance, tableVars, TopicOK, GroupOK, RowsOK, ClockOK
<1>10. CASE Crash
  <2>1. faults' \in 0..MaxFaults
    BY <1>0, <1>10, FaultCounted DEF Crash
  <2>2. BatchOK'
    BY <1>0, <1>10 DEF Crash, BatchOK, NoBatch, Busy
  <2> QED
    BY <1>0, <1>10, <2>1, <2>2, TypeParts
       DEF Crash, tableVars, TopicOK, GroupOK, RowsOK, ClockOK, TypeOK, BatchOK
<1>11. CASE Tick
  <2>1. ClockOK'
    BY <1>0, <1>11 DEF Tick, tableVars, ClockOK
  <2>2. TopicOK' /\ GroupOK' /\ RowsOK'
    BY <1>0, <1>11 DEF Tick, groupVars, tableVars, TopicOK, GroupOK, RowsOK
  <2>3. BatchOK'
    BY <1>0, <1>11 DEF Tick, BatchOK, Busy
  <2> QED
    BY <2>1, <2>2, <2>3 DEF TypeOK, TopicOK, GroupOK, BatchOK, RowsOK, ClockOK
<1>12. CASE Purge
  <2>1. RowsOK'
    BY <1>0, <1>12 DEF Purge, RowsOK
  <2>2. BatchOK'
    BY <1>0, <1>12 DEF Purge, BatchOK, Busy
  <2>3. ClockOK'
    BY <1>0, <1>12 DEF Purge, ClockOK
  <2>4. TopicOK' /\ GroupOK'
    BY <1>0, <1>12 DEF Purge, groupVars, TopicOK, GroupOK
  <2> QED
    BY <2>1, <2>2, <2>3, <2>4 DEF TypeOK, TopicOK, GroupOK, BatchOK, RowsOK, ClockOK
<1>13. CASE TopicOK' /\ GroupOK' /\ BatchOK' /\ RowsOK' /\ ClockOK'
  BY <1>13 DEF TypeOK, TopicOK, GroupOK, BatchOK, RowsOK, ClockOK
<1> QED
  BY <1>1, <1>2, <1>3, <1>4, <1>5, <1>6, <1>7, <1>8, <1>9, <1>10, <1>11, <1>12, <1>13
     DEF Next, Listener

-----------------------------------------------------------------------------
(* What a step leaves true of a record *)

LEMMA LogGrows ==
    ASSUME TypeOK, [Next]_vars
    PROVE  Len(log) <= Len(log') /\ \A i \in 1..Len(log) : log'[i] = log[i]
<1>1. CASE \E r \in Record : Publish(r)
  BY <1>1 DEF Publish, TypeOK
<1>2. CASE log' = log
  BY <1>2 DEF TypeOK
<1> QED
  BY <1>1, <1>2
     DEF Next, Listener, vars, Poll, DropWindow, StoreWindow, StoreRefused, StoreFails,
         AcknowledgeBatch, Rebalance, Crash, Tick, Purge

\* Rows change by the upsert of a thread's record and by the purge only.
LEMMA RowsChange ==
    ASSUME TypeOK, [Next]_vars
    PROVE  \/ samples' = samples /\ purged' = purged
           \/ Purge
           \/ \E t \in Thread : StoreWindow(t)
BY DEF Next, Listener, vars, tableVars, Publish, Poll, DropWindow, StoreRefused, StoreFails,
       AcknowledgeBatch, Rebalance, Crash, Tick

\* What is dealt with stays so.
LEMMA DoneStays ==
    ASSUME TypeOK, [Next]_vars, NEW i \in 1..Len(log), Done(i)
    PROVE  Done(i)'
<1> DEFINE w == log[i].window
<1>1. log'[i] = log[i] /\ (log[i] # Garbage => w \in Window)
  BY LogGrows, Records
<1>2. CASE log[i] = Garbage
  BY <1>1, <1>2 DEF Done, Garbage
<1>3. CASE log[i] # Garbage /\ samples' = samples /\ purged' = purged
  BY <1>1, <1>3 DEF Done, Garbage
<1>4. CASE log[i] # Garbage /\ Purge
  <2>1. Horizon \in Nat /\ MaxTime \in Nat /\ Start \in [Window -> Nat]
    BY PersistenceAssumption DEF PersistenceAssumption
  <2>3. now \in Int /\ purged \in Int /\ purged <= now - Horizon /\ Start[w] \in Nat
    BY <1>1, <1>4, <2>1 DEF TypeOK
  <2>2. /\ samples'[w] = IF Start[w] < now - Horizon THEN 0 ELSE samples[w]
        /\ purged' = now - Horizon
    BY <1>1, <1>4 DEF Purge
  <2> QED
    BY <1>1, <1>4, <2>1, <2>2, <2>3 DEF Done
<1>5. ASSUME log[i] # Garbage, NEW t \in Thread, StoreWindow(t)
      PROVE  Done(i)'
  <2>1. PICK v, c : /\ samples' = [samples EXCEPT ![v] = c]
                    /\ c \in Nat /\ c >= 1 /\ v \in Window
    BY <1>5, StoredRecord
  <2>3. samples[w] > 0 => samples'[w] > 0
    <3>1. samples \in [Window -> 0..MaxSamples] /\ w \in Window
      BY <1>1, <1>5 DEF TypeOK
    <3> QED
      BY <2>1, <3>1
  <2>2. purged' = purged
    BY <1>5, StoredRecord
  <2> QED
    BY <1>1, <1>5, <2>2, <2>3 DEF Done, Garbage
<1> QED
  BY <1>2, <1>3, <1>4, <1>5, RowsChange

-----------------------------------------------------------------------------
(* What a step does to the threads *)

\* A thread deals with a record, or goes back to the first of its batch.
Works(t) == DropWindow(t) \/ StoreWindow(t) \/ StoreRefused(t) \/ StoreFails(t)

LEMMA WorkMoves ==
    ASSUME TypeOK, NEW t \in Thread, Works(t)
    PROVE  /\ Busy(t) /\ batch[t].next <= batch[t].last
           /\ \A u \in Thread : u # t => batch'[u] = batch[u]
           /\ batch'[t].first = batch[t].first /\ batch'[t].last = batch[t].last
           /\ \A u \in Thread : Busy(u)' <=> Busy(u)
           /\ \/ batch'[t].next = batch[t].first
              \/ batch'[t].next = batch[t].next + 1 /\ (DropWindow(t) \/ StoreWindow(t))
           /\ log' = log /\ committed' = committed /\ owner' = owner
           /\ position' = position /\ revoked' = revoked
<1>1. /\ InBatch(t) /\ Busy(t) /\ batch[t].next <= batch[t].last
      /\ log' = log /\ committed' = committed /\ owner' = owner
      /\ position' = position /\ revoked' = revoked
  BY DEF Works, DropWindow, StoreWindow, StoreRefused, StoreFails, groupVars, InBatch
<1>2. CASE DropWindow(t) \/ StoreWindow(t)
  <2>1. MoveTo(t, batch[t].next + 1)
    BY <1>2 DEF DropWindow, StoreWindow
  <2>2. batch[t].next + 1 \in Nat /\ batch[t].first <= batch[t].next + 1
        /\ batch[t].next + 1 <= batch[t].last + 1
    BY <1>1, BatchTypes
  <2> QED
    BY <1>1, <1>2, <2>1, <2>2, MovedBatch
<1>3. CASE StoreRefused(t) \/ StoreFails(t)
  <2>1. MoveTo(t, batch[t].first)
    BY <1>3 DEF StoreRefused, StoreFails, AfterFailure
  <2>2. batch[t].first \in Nat /\ batch[t].first <= batch[t].first
        /\ batch[t].first <= batch[t].last + 1
    BY <1>1, BatchTypes
  <2> QED
    BY <1>1, <2>1, <2>2, MovedBatch
<1> QED
  BY <1>2, <1>3 DEF Works

LEMMA PollGives ==
    ASSUME TypeOK, NEW t \in Thread, NEW n \in 1..MaxPoll, Poll(t, n)
    PROVE  /\ owner = t /\ ~Busy(t)
           /\ \A u \in Thread : u # t => batch'[u] = batch[u]
           /\ batch'[t].first = position + 1 /\ batch'[t].next = position + 1
           /\ batch'[t].last = position + n
           /\ Busy(t)' /\ \A u \in Thread : u # t => (Busy(u)' <=> Busy(u))
           /\ position' = position + n
           /\ log' = log /\ committed' = committed /\ owner' = owner /\ revoked' = revoked
           /\ samples' = samples /\ purged' = purged
<1>1. /\ owner = t /\ ~Busy(t) /\ position' = position + n
      /\ log' = log /\ committed' = committed /\ owner' = owner /\ revoked' = revoked
      /\ samples' = samples /\ purged' = purged
      /\ batch' = [batch EXCEPT ![t] = [first |-> position + 1, next |-> position + 1,
                                       last |-> position + n]]
  BY DEF Poll, tableVars
<1>2. position \in Nat /\ batch \in [Thread -> [first : Nat \ {0}, next : Nat \ {0}, last : Nat]]
  BY DEF TypeOK
<1>3. batch'[t] = [first |-> position + 1, next |-> position + 1, last |-> position + n]
      /\ \A u \in Thread : u # t => batch'[u] = batch[u]
  BY <1>1, <1>2
<1>4. batch'[t].last > 0
  BY <1>2, <1>3
<1> QED
  BY <1>1, <1>3, <1>4 DEF Busy

LEMMA AcknowledgeFrees ==
    ASSUME TypeOK, NEW t \in Thread, AcknowledgeBatch(t)
    PROVE  /\ Busy(t) /\ batch[t].next = batch[t].last + 1
           /\ \A u \in Thread : u # t => batch'[u] = batch[u]
           /\ ~Busy(t)' /\ \A u \in Thread : u # t => (Busy(u)' <=> Busy(u))
           /\ committed' = IF owner = t THEN batch[t].last ELSE committed
           /\ log' = log /\ owner' = owner /\ position' = position /\ revoked' = revoked
           /\ samples' = samples /\ purged' = purged
<1>1. batch[t].next = batch[t].last + 1
  BY BatchTypes DEF AcknowledgeBatch
<1>2. batch' = [batch EXCEPT ![t] = NoBatch]
      /\ batch \in [Thread -> [first : Nat \ {0}, next : Nat \ {0}, last : Nat]]
  BY DEF AcknowledgeBatch, TypeOK
<1>3. batch'[t].last = 0
  BY <1>2 DEF NoBatch
<1> QED
  BY <1>1, <1>2, <1>3 DEF AcknowledgeBatch, tableVars, Busy

LEMMA CrashFrees ==
    ASSUME TypeOK, Crash
    PROVE  /\ \A u \in Thread : ~Busy(u)'
           /\ position' = committed
           /\ log' = log /\ committed' = committed /\ owner' = owner /\ revoked' = revoked
           /\ samples' = samples /\ purged' = purged
BY DEF Crash, Busy, NoBatch, tableVars

\* The other steps do not touch the group.
Elsewhere == (\E r \in Record : Publish(r)) \/ Tick \/ Purge \/ UNCHANGED vars

LEMMA ElsewhereKeeps ==
    ASSUME Elsewhere
    PROVE  /\ batch' = batch /\ committed' = committed /\ owner' = owner
           /\ position' = position /\ revoked' = revoked
           /\ \A u \in Thread : Busy(u)' <=> Busy(u)
BY DEF Elsewhere, Publish, Tick, Purge, vars, groupVars, Busy

LEMMA StepCases ==
    ASSUME [Next]_vars
    PROVE  \/ Elsewhere
           \/ \E t \in Thread : Works(t)
           \/ \E t \in Thread : \E n \in 1..MaxPoll : Poll(t, n)
           \/ \E t \in Thread : AcknowledgeBatch(t)
           \/ \E t \in Thread : Rebalance(t)
           \/ Crash
BY DEF Next, Listener, Elsewhere, Works

-----------------------------------------------------------------------------
(* The conjuncts of the invariant are preserved *)

LEMMA OwnerStep ==
    ASSUME TypeOK, TypeOK', OwnerUpToDate, [Next]_vars
    PROVE  OwnerUpToDate'
<1>0. owner \in Thread /\ owner' \in Thread /\ position \in Nat
  BY DEF TypeOK
<1>1. CASE Elsewhere
  BY <1>0, <1>1, ElsewhereKeeps DEF OwnerUpToDate
<1>2. ASSUME NEW t \in Thread, Works(t) PROVE OwnerUpToDate'
  <2>1. /\ \A u \in Thread : batch'[u].first = batch[u].first /\ batch'[u].last = batch[u].last
        /\ \A u \in Thread : Busy(u)' <=> Busy(u)
        /\ committed' = committed /\ owner' = owner /\ position' = position
    BY <1>2, WorkMoves
  <2>2. Busy(owner)' <=> Busy(owner)
    BY <1>0, <2>1 DEF Busy
  <2> QED
    BY <1>0, <2>1, <2>2 DEF OwnerUpToDate
<1>3. ASSUME NEW t \in Thread, NEW n \in 1..MaxPoll, Poll(t, n) PROVE OwnerUpToDate'
  <2>1. /\ owner = t /\ ~Busy(t) /\ owner' = owner /\ batch'[t].first = position + 1
        /\ batch'[t].last = position + n /\ position' = position + n
        /\ committed' = committed
    BY <1>3, PollGives
  <2>2. Busy(owner)'
    BY <1>3, <2>1, PollGives DEF Busy
  <2> QED
    BY <2>1, <2>2 DEF OwnerUpToDate
<1>4. ASSUME NEW t \in Thread, AcknowledgeBatch(t) PROVE OwnerUpToDate'
  <2>1. CASE owner = t
    BY <1>4, <2>1, AcknowledgeFrees DEF OwnerUpToDate, Busy
  <2>2. CASE owner # t
    <3>1. /\ batch'[owner] = batch[owner] /\ committed' = committed
          /\ owner' = owner /\ position' = position
      BY <1>0, <1>4, <2>2, AcknowledgeFrees
    <3> QED
      BY <3>1 DEF OwnerUpToDate, Busy
  <2> QED
    BY <2>1, <2>2
<1>5. ASSUME NEW t \in Thread, Rebalance(t) PROVE OwnerUpToDate'
  BY <1>5 DEF Rebalance, OwnerUpToDate, Busy
<1>6. CASE Crash
  BY <1>0, <1>6, CrashFrees DEF OwnerUpToDate, Busy
<1> QED
  BY <1>1, <1>2, <1>3, <1>4, <1>5, <1>6, StepCases

LEMMA CommittedStep ==
    ASSUME TypeOK, CommittedMeansPlotted, PassedDone, [Next]_vars
    PROVE  CommittedMeansPlotted'
<1>0. committed \in 0..Len(log)
  BY DEF TypeOK
<1>1. CASE committed' = committed
  <2>1. ASSUME NEW i \in 1..committed' PROVE Done(i)'
    <3>1. i \in 1..Len(log) /\ Done(i)
      BY <1>0, <1>1 DEF CommittedMeansPlotted
    <3> QED
      BY <3>1, DoneStays
  <2> QED
    BY <2>1 DEF CommittedMeansPlotted
<1>2. ASSUME NEW t \in Thread, AcknowledgeBatch(t), owner = t PROVE CommittedMeansPlotted'
  <2>1. committed' = batch[t].last /\ Busy(t) /\ batch[t].next = batch[t].last + 1
    BY <1>2, AcknowledgeFrees
  <2>2. ASSUME NEW i \in 1..committed' PROVE Done(i)'
    <3>1. i \in 1..Len(log) /\ i \in 1..(batch[t].next - 1)
      BY <2>1, BatchTypes
    <3>2. Done(i)
      BY <2>1, <3>1 DEF PassedDone
    <3> QED
      BY <3>1, <3>2, DoneStays
  <2> QED
    BY <2>2 DEF CommittedMeansPlotted
<1>3. committed' = committed \/ \E t \in Thread : AcknowledgeBatch(t) /\ owner = t
  BY StepCases, ElsewhereKeeps, WorkMoves, PollGives, AcknowledgeFrees, CrashFrees
     DEF Rebalance
<1> QED
  BY <1>1, <1>2, <1>3

LEMMA PassedStep ==
    ASSUME TypeOK, OwnerUpToDate, CommittedMeansPlotted, PassedDone, [Next]_vars
    PROVE  PassedDone'
<1> SUFFICES ASSUME NEW u \in Thread, Busy(u)', NEW i \in 1..(batch'[u].next - 1)
             PROVE  Done(i)'
  BY DEF PassedDone
<1>0. CASE Busy(u) /\ i \in 1..(batch[u].next - 1)
  <2>1. i \in 1..Len(log)
    BY <1>0, BatchTypes
  <2>2. Done(i)
    BY <1>0 DEF PassedDone
  <2> QED
    BY <2>1, <2>2, DoneStays
<1>1. CASE batch'[u] = batch[u]
  BY <1>0, <1>1 DEF Busy
<1>2. ASSUME NEW t \in Thread, Works(t), u = t PROVE Done(i)'
  <2>1. /\ Busy(t) /\ batch[t].next <= batch[t].last
        /\ \/ batch'[t].next = batch[t].first
           \/ batch'[t].next = batch[t].next + 1 /\ (DropWindow(t) \/ StoreWindow(t))
    BY <1>2, WorkMoves
  <2>2. CASE batch'[t].next = batch[t].first
    <3>1. i \in 1..(batch[u].next - 1)
      BY <1>2, <2>1, <2>2, BatchTypes
    <3> QED
      BY <1>0, <1>2, <2>1, <3>1
  <2>3. CASE batch'[t].next = batch[t].next + 1 /\ i < batch[t].next
    <3>1. i \in 1..(batch[u].next - 1)
      BY <1>2, <2>3, BatchTypes
    <3> QED
      BY <1>0, <1>2, <2>1, <3>1
  <2>4. CASE i = batch[t].next /\ DropWindow(t)
    <3>1. i \in 1..Len(log)
      BY <2>1, <2>4, BatchTypes
    <3>2. log[i] = Garbage
      BY <2>4, <3>1, Records DEF DropWindow, Dropped, Current
    <3> QED
      BY <3>1, <3>2, DoneStays DEF Done
  <2>5. CASE i = batch[t].next /\ StoreWindow(t)
    <3>1. PICK w, c : /\ w = log[i].window /\ w \in Window
                      /\ c \in Nat /\ c >= 1
                      /\ samples' = [samples EXCEPT ![w] = c]
                      /\ log' = log
      BY <2>5, StoredRecord
    <3>2. samples'[w] = c
      BY <3>1 DEF TypeOK
    <3> QED
      BY <3>1, <3>2 DEF Done
  <2>6. batch'[t].next \in Nat /\ batch[t].next \in Nat /\ i \in Nat
    BY <2>1, BatchTypes, <1>2
  <2>7. CASE batch'[t].next = batch[t].next + 1 /\ (DropWindow(t) \/ StoreWindow(t))
    <3>1. i < batch[t].next \/ i = batch[t].next
      BY <1>2, <2>6, <2>7
    <3> QED
      BY <2>3, <2>4, <2>5, <2>7, <3>1
  <2> QED
    BY <2>1, <2>2, <2>7
<1>3. ASSUME NEW t \in Thread, NEW n \in 1..MaxPoll, Poll(t, n), u = t PROVE Done(i)'
  <2>1. position = committed /\ batch'[u].next = position + 1
    BY <1>3, PollGives DEF OwnerUpToDate
  <2>2. i \in 1..committed /\ i \in 1..Len(log)
    BY <2>1 DEF TypeOK
  <2> QED
    BY <2>2, DoneStays DEF CommittedMeansPlotted
<1>4. \/ batch'[u] = batch[u]
      \/ \E t \in Thread : Works(t) /\ u = t
      \/ \E t \in Thread : \E n \in 1..MaxPoll : Poll(t, n) /\ u = t
  <2>1. CASE Elsewhere
    BY <2>1, ElsewhereKeeps
  <2>2. ASSUME NEW t \in Thread, Works(t)
        PROVE  batch'[u] = batch[u] \/ (Works(t) /\ u = t)
    BY <2>2, WorkMoves
  <2>3. ASSUME NEW t \in Thread, NEW n \in 1..MaxPoll, Poll(t, n)
        PROVE  batch'[u] = batch[u] \/ (Poll(t, n) /\ u = t)
    BY <2>3, PollGives
  <2>4. ASSUME NEW t \in Thread, AcknowledgeBatch(t) PROVE batch'[u] = batch[u]
    BY <2>4, AcknowledgeFrees
  <2>5. ASSUME NEW t \in Thread, Rebalance(t) PROVE batch'[u] = batch[u]
    BY <2>5 DEF Rebalance
  <2>6. ~Crash
    BY CrashFrees
  <2> QED
    BY <2>1, <2>2, <2>3, <2>4, <2>5, <2>6, StepCases
<1> QED
  BY <1>1, <1>2, <1>3, <1>4

LEMMA LogOrderedStep ==
    ASSUME TypeOK, TypeOK', LogOrdered, [Next]_vars
    PROVE  LogOrdered'
<1>0. log \in Seq(Record) /\ log' \in Seq(Record)
  BY DEF TypeOK
<1>1. CASE log' = log
  BY <1>1 DEF LogOrdered
<1>2. ASSUME NEW r \in Record, Publish(r) PROVE LogOrdered'
  <2>1. /\ Len(log') = Len(log) + 1 /\ Len(log) \in Nat
        /\ log'[Len(log) + 1] = r
        /\ \A i \in 1..Len(log) : log'[i] = log[i]
    BY <1>0, <1>2 DEF Publish
  <2>2. ASSUME NEW i \in 1..Len(log'), NEW j \in 1..Len(log'), i <= j,
               log'[i] # Garbage, log'[j] # Garbage, log'[i].window = log'[j].window
        PROVE  log'[i].samples <= log'[j].samples
    <3>1. CASE j <= Len(log)
      BY <2>1, <2>2, <3>1 DEF LogOrdered
    <3>2. CASE i <= Len(log) /\ j = Len(log) + 1
      <4>1. i \in DOMAIN log
        BY <1>0, <2>1, <2>2, <3>2
      <4> QED
        BY <1>2, <2>1, <2>2, <3>2, <4>1 DEF Publish, Follows
    <3>3. CASE i = j
      <4>1. log'[i] \in Record /\ log'[i] # Garbage
        BY <1>0, <2>2
      <4>2. log'[i].samples \in Nat
        BY <4>1, PersistenceAssumption DEF Record, PersistenceAssumption
      <4> QED
        BY <3>3, <4>2
    <3> QED
      BY <2>1, <2>2, <3>1, <3>2, <3>3
  <2> QED
    BY <2>2 DEF LogOrdered
<1>3. log' = log \/ \E r \in Record : Publish(r)
  BY StepCases, WorkMoves, PollGives, AcknowledgeFrees, CrashFrees
     DEF Elsewhere, Rebalance, Tick, Purge, vars
<1> QED
  BY <1>1, <1>2, <1>3

\* A thread that works behind the owner's back has been revoked.
LEMMA OnlyOwnerStep ==
    ASSUME TypeOK, OnlyOwnerWorks, [Next]_vars
    PROVE  OnlyOwnerWorks'
<1>1. CASE Elsewhere
  BY <1>1, ElsewhereKeeps DEF OnlyOwnerWorks
<1>2. ASSUME NEW t \in Thread, Works(t) PROVE OnlyOwnerWorks'
  <2>1. revoked' = revoked /\ owner' = owner /\ \A u \in Thread : Busy(u)' <=> Busy(u)
    BY <1>2, WorkMoves
  <2> QED
    BY <2>1 DEF OnlyOwnerWorks
<1>3. ASSUME NEW t \in Thread, NEW n \in 1..MaxPoll, Poll(t, n) PROVE OnlyOwnerWorks'
  <2>1. /\ revoked' = revoked /\ owner' = owner /\ owner = t
        /\ \A u \in Thread : u # t => (Busy(u)' <=> Busy(u))
    BY <1>3, PollGives
  <2> QED
    BY <2>1 DEF OnlyOwnerWorks
<1>4. ASSUME NEW t \in Thread, AcknowledgeBatch(t) PROVE OnlyOwnerWorks'
  <2>1. /\ revoked' = revoked /\ owner' = owner /\ ~Busy(t)'
        /\ \A u \in Thread : u # t => (Busy(u)' <=> Busy(u))
    BY <1>4, AcknowledgeFrees
  <2> QED
    BY <2>1 DEF OnlyOwnerWorks
<1>5. ASSUME NEW t \in Thread, Rebalance(t) PROVE OnlyOwnerWorks'
  BY <1>5 DEF Rebalance, OnlyOwnerWorks, Busy
<1>6. CASE Crash
  BY <1>6, CrashFrees DEF OnlyOwnerWorks
<1> QED
  BY <1>1, <1>2, <1>3, <1>4, <1>5, <1>6, StepCases

\* A purge may delete a row, never one that is still wanted.
LEMMA FreshStays ==
    ASSUME TypeOK, [Next]_vars, NEW i \in 1..Len(log), Fresh(i),
           \A t \in Thread : ~StoreWindow(t)
    PROVE  Fresh(i)'
<1> DEFINE w == log[i].window
<1>1. log'[i] = log[i] /\ (log[i] # Garbage => w \in Window)
  BY LogGrows, Records
<1>2. CASE log[i] = Garbage
  BY <1>1, <1>2 DEF Fresh, Garbage
<1>3. CASE log[i] # Garbage /\ samples' = samples /\ purged' = purged
  BY <1>1, <1>3 DEF Fresh, Garbage
<1>4. CASE log[i] # Garbage /\ Purge
  <2>1. Horizon \in Nat /\ MaxTime \in Nat /\ Start \in [Window -> Nat]
    BY PersistenceAssumption DEF PersistenceAssumption
  <2>2. now \in Int /\ purged \in Int /\ purged <= now - Horizon /\ Start[w] \in Nat
    BY <1>1, <1>4, <2>1 DEF TypeOK
  <2>3. /\ samples'[w] = IF Start[w] < now - Horizon THEN 0 ELSE samples[w]
        /\ purged' = now - Horizon
    BY <1>1, <1>4 DEF Purge
  <2> QED
    BY <1>1, <1>4, <2>1, <2>2, <2>3 DEF Fresh
<1> QED
  BY <1>2, <1>3, <1>4, RowsChange

\* An upsert writes what is at least as new as all before it.
LEMMA FreshStored ==
    ASSUME TypeOK, LogOrdered, NEW t \in Thread, StoreWindow(t), Busy(t),
           NEW i \in 1..Len(log), i <= batch[t].next,
           Fresh(i) \/ i = batch[t].next
    PROVE  Fresh(i)'
<1> DEFINE n == batch[t].next
<1>1. /\ n \in 1..Len(log) /\ log[n] # Garbage /\ log[n].samples \in Nat
      /\ log[n].window \in Window
      /\ samples' = [samples EXCEPT ![log[n].window] = log[n].samples]
      /\ purged' = purged /\ log' = log
  BY StoredRecord
<1>2. samples'[log[n].window] = log[n].samples
      /\ \A w \in Window : w # log[n].window => samples'[w] = samples[w]
  BY <1>1 DEF TypeOK
<1>3. CASE log[i] = Garbage
  BY <1>1, <1>3 DEF Fresh, Garbage
<1>4. CASE log[i] # Garbage /\ log[i].window = log[n].window
  <2>1. log[i].samples <= log[n].samples
    BY <1>1, <1>4 DEF LogOrdered
  <2>2. samples'[log'[i].window] >= log'[i].samples
    BY <1>1, <1>2, <1>4, <2>1, Records
  <2> QED
    BY <2>2 DEF Fresh
<1>5. CASE log[i] # Garbage /\ log[i].window # log[n].window
  <2>1. log[i].window \in Window /\ Fresh(i)
    BY <1>5, Records
  <2>2. samples'[log[i].window] = samples[log[i].window]
    BY <1>2, <1>5, <2>1
  <2> QED
    BY <1>1, <2>1, <2>2 DEF Fresh, Garbage
<1> QED
  BY <1>3, <1>4, <1>5

LEMMA ProgressType ==
    ASSUME TypeOK
    PROVE  Progress \in Nat /\ Progress <= Len(log)
<1>1. owner \in Thread /\ position \in 0..Len(log)
  BY DEF TypeOK
<1> QED
  BY <1>1, BatchTypes DEF Progress

LEMMA ProgressFreshStep ==
    ASSUME TypeOK, TypeOK', OwnerUpToDate, LogOrdered, OnlyOwnerWorks, ProgressFresh, [Next]_vars
    PROVE  ProgressFresh'
<1> SUFFICES ASSUME ~revoked', NEW i \in 1..Progress' PROVE Fresh(i)'
  BY DEF ProgressFresh
<1>0. /\ owner \in Thread /\ owner' \in Thread /\ position \in Nat /\ committed \in Nat
      /\ Progress \in Nat /\ Progress <= Len(log) /\ Progress' \in Nat
  <2>1. /\ owner \in Thread /\ owner' \in Thread
        /\ position \in 0..Len(log) /\ committed \in 0..Len(log) /\ position' \in 0..Len(log')
    BY DEF TypeOK
  <2>2. batch'[owner'].next \in Nat /\ batch'[owner'].next >= 1
    <3>1. batch' \in [Thread -> [first : Nat \ {0}, next : Nat \ {0}, last : Nat]]
      BY DEF TypeOK
    <3> QED
      BY <2>1, <3>1
  <2>3. Progress' \in Nat
    BY <2>1, <2>2 DEF Progress
  <2> QED
    BY <2>1, <2>3, ProgressType
<1>1. CASE ~revoked /\ i \in 1..Progress /\ \A t \in Thread : ~StoreWindow(t)
  <2>1. Fresh(i) /\ i \in 1..Len(log)
    BY <1>0, <1>1 DEF ProgressFresh
  <2> QED
    BY <1>1, <2>1, FreshStays
<1>2. ASSUME NEW t \in Thread, Works(t) PROVE Fresh(i)'
  <2>1. /\ ~revoked /\ Busy(t) /\ Busy(t)' /\ owner' = owner /\ batch[t].next <= batch[t].last
        /\ \/ batch'[t].next = batch[t].first
           \/ batch'[t].next = batch[t].next + 1 /\ (DropWindow(t) \/ StoreWindow(t))
    BY <1>2, WorkMoves
  <2>2. owner = t
    BY <2>1 DEF OnlyOwnerWorks
  <2>3. Progress = batch[t].next - 1 /\ Progress' = batch'[t].next - 1
    BY <2>1, <2>2 DEF Progress
  <2>4. /\ batch[t].next \in Nat /\ batch[t].first \in Nat /\ batch[t].last <= Len(log)
        /\ batch[t].first <= batch[t].next /\ batch[t].last \in Nat
    BY <2>1, BatchTypes
  <2>5. i \in Nat /\ i >= 1 /\ i <= batch[t].next /\ i \in 1..Len(log)
    <3>1. batch'[t].next - 1 <= batch[t].next
      BY <2>1, <2>4
    <3>2. i \in Nat /\ i >= 1 /\ i <= batch'[t].next - 1
      BY <1>0, <2>3
    <3>3. batch'[t].next \in Nat
      BY <2>1, <2>4
    <3> QED
      BY <2>1, <2>4, <3>1, <3>2, <3>3
  <2>6. CASE StoreWindow(t)
    <3>1. i \in 1..Progress \/ i = batch[t].next
      BY <2>3, <2>4, <2>5
    <3>2. Fresh(i) \/ i = batch[t].next
      BY <2>1, <3>1 DEF ProgressFresh
    <3> QED
      BY <2>1, <2>5, <2>6, <3>2, FreshStored
  <2>7. CASE ~StoreWindow(t) /\ i < batch[t].next
    <3>1. i \in 1..Progress /\ samples' = samples /\ purged' = purged /\ log' = log
      BY <1>2, <2>3, <2>4, <2>5, <2>7
         DEF Works, DropWindow, StoreRefused, StoreFails, tableVars
    <3>2. Fresh(i)
      BY <2>1, <3>1 DEF ProgressFresh
    <3> QED
      BY <3>1, <3>2 DEF Fresh, Garbage
  <2>8. CASE ~StoreWindow(t) /\ i = batch[t].next
    <3>1. DropWindow(t)
      BY <2>1, <2>3, <2>4, <2>8
    <3>2. log[i] = Garbage /\ log' = log
      BY <2>5, <2>8, <3>1, Records DEF DropWindow, Dropped, Current
    <3> QED
      BY <3>2 DEF Fresh, Garbage
  <2> QED
    BY <2>4, <2>5, <2>6, <2>7, <2>8
<1>3. CASE ~revoked /\ Progress' <= Progress /\ \A t \in Thread : ~StoreWindow(t)
  <2>1. i \in 1..Progress
    BY <1>0, <1>3
  <2> QED
    BY <1>1, <1>3, <2>1
<1>4. CASE \E t \in Thread : Works(t)
  BY <1>2, <1>4
<1>5. CASE Elsewhere /\ ~\E t \in Thread : Works(t)
  <2>1. ~revoked /\ Progress' = Progress
    BY <1>0, <1>5, ElsewhereKeeps DEF Progress
  <2> QED
    BY <1>0, <1>3, <1>5, <2>1 DEF Works
<1>6. ASSUME NEW t \in Thread, NEW n \in 1..MaxPoll, Poll(t, n), ~\E u \in Thread : Works(u)
      PROVE  Fresh(i)'
  <2>1. /\ owner = t /\ ~Busy(t) /\ owner' = owner /\ revoked' = revoked
        /\ batch'[t].next = position + 1 /\ Busy(t)'
    BY <1>6, PollGives
  <2>2. Progress = position /\ Progress' = position
    BY <1>0, <2>1 DEF Progress
  <2> QED
    BY <1>0, <1>3, <1>6, <2>1, <2>2 DEF Works
<1>7. ASSUME NEW t \in Thread, AcknowledgeBatch(t), ~\E u \in Thread : Works(u)
      PROVE  Fresh(i)'
  <2>1. /\ Busy(t) /\ batch[t].next = batch[t].last + 1 /\ ~Busy(t)'
        /\ owner' = owner /\ position' = position /\ revoked' = revoked
    BY <1>7, AcknowledgeFrees
  <2>2. owner = t
    BY <2>1 DEF OnlyOwnerWorks
  <2>3. Progress = batch[t].next - 1 /\ Progress' = position /\ position = batch[t].last
    BY <2>1, <2>2 DEF Progress, OwnerUpToDate
  <2>4. Progress' = Progress
    BY <1>0, <2>1, <2>3
  <2> QED
    BY <1>0, <1>3, <1>7, <2>1, <2>4 DEF Works
<1>8. ASSUME NEW t \in Thread, Rebalance(t), ~\E u \in Thread : Works(u)
      PROVE  Fresh(i)'
  <2>1. /\ ~revoked /\ (\A u \in Thread : ~Busy(u) /\ ~Busy(u)')
        /\ owner' = t /\ position' = committed
    BY <1>8 DEF Rebalance, Busy
  <2>2. Progress = position /\ Progress' = committed /\ position = committed
    BY <1>0, <2>1 DEF Progress, OwnerUpToDate
  <2> QED
    BY <1>0, <1>3, <1>8, <2>1, <2>2 DEF Works
<1>9. CASE Crash /\ ~\E u \in Thread : Works(u)
  <2>1. ~revoked /\ Progress' = committed
    BY <1>0, <1>9, CrashFrees DEF Progress
  <2>2. committed <= Progress
    <3>1. CASE Busy(owner)
      <4>1. /\ batch[owner].first = committed + 1 /\ batch[owner].first <= batch[owner].next
            /\ batch[owner].next \in Nat
        BY <1>0, <3>1, BatchTypes DEF OwnerUpToDate
      <4> QED
        BY <1>0, <3>1, <4>1 DEF Progress
    <3>2. CASE ~Busy(owner)
      BY <1>0, <3>2 DEF Progress, OwnerUpToDate
    <3> QED
      BY <3>1, <3>2
  <2> QED
    BY <1>3, <1>9, <2>1, <2>2 DEF Works
<1> QED
  BY <1>4, <1>5, <1>6, <1>7, <1>8, <1>9, StepCases

-----------------------------------------------------------------------------
(* The theorems *)

LEMMA InitOK == Init => IInv
<1> SUFFICES ASSUME Init PROVE IInv
  OBVIOUS
<1>1. \A t \in Thread : ~Busy(t)
  <2>1. ASSUME NEW t \in Thread PROVE batch[t].last = 0
    BY DEF Init, NoBatch
  <2>2. ~(0 > 0)
    OBVIOUS
  <2> QED
    BY <2>1, <2>2, Zenon DEF Busy
<1>2. TypeOK
  <2>1. batch \in [Thread -> [first : Nat \ {0}, next : Nat \ {0}, last : Nat]]
    BY DEF Init, NoBatch
  <2>2. /\ Horizon \in Nat /\ MaxSamples \in Nat /\ MaxTime \in Nat /\ MaxFaults \in Nat
        /\ -Horizon \in Int /\ -Horizon <= 0 - Horizon
    BY PersistenceAssumption DEF PersistenceAssumption
  <2>3. TopicOK /\ GroupOK
    BY DEF Init, TopicOK, GroupOK
  <2>4. RowsOK /\ ClockOK
    <3>1. RowsOK
      BY <2>2 DEF Init, RowsOK
    <3>2. now = 0 /\ purged = -Horizon /\ revoked = FALSE /\ faults = 0
      BY DEF Init
    <3>3. now \in 0..MaxTime /\ faults \in 0..MaxFaults
      BY <2>2, <3>2
    <3>4. purged \in Int /\ purged <= now - Horizon
      BY <2>2, <3>2
    <3>5. ClockOK
      BY <3>2, <3>3, <3>4 DEF ClockOK
    <3> QED
      BY <3>1, <3>5
  <2>5. BatchOK
    BY <1>1, <2>1 DEF BatchOK
  <2> QED
    BY <2>3, <2>4, <2>5, TypeParts
<1>3. OwnerUpToDate /\ CommittedMeansPlotted /\ PassedDone
  BY <1>1, <1>2 DEF Init, OwnerUpToDate, CommittedMeansPlotted, PassedDone, TypeOK
<1>4. LogOrdered /\ OnlyOwnerWorks
  BY <1>1 DEF Init, LogOrdered, OnlyOwnerWorks
<1>5. ProgressFresh
  <2>1. Progress = 0
    BY <1>1, <1>2 DEF Init, Progress, TypeOK
  <2> QED
    BY <2>1 DEF ProgressFresh
<1> QED
  BY <1>2, <1>3, <1>4, <1>5 DEF IInv

\* The invariant holds in every state of every execution: the bookkeeping of
\* the batches follows the partition, whatever fails or moves.
THEOREM Invariance == Spec => []IInv
<1>1. IInv /\ [Next]_vars => IInv'
  <2> SUFFICES ASSUME IInv, [Next]_vars PROVE IInv'
    OBVIOUS
  <2>1. TypeOK'
    BY TypeStep DEF IInv
  <2>2. OwnerUpToDate'
    BY <2>1, OwnerStep DEF IInv
  <2>3. CommittedMeansPlotted'
    BY CommittedStep DEF IInv
  <2>4. PassedDone'
    BY PassedStep DEF IInv
  <2>5. LogOrdered'
    BY <2>1, LogOrderedStep DEF IInv
  <2>6. OnlyOwnerWorks'
    BY OnlyOwnerStep DEF IInv
  <2>7. ProgressFresh'
    BY <2>1, ProgressFreshStep DEF IInv
  <2> QED
    BY <2>1, <2>2, <2>3, <2>4, <2>5, <2>6, <2>7 DEF IInv
<1> QED
  BY InitOK, <1>1, PTL DEF Spec

\* The variables keep their types; a row's machine is provisioned.
THEOREM TypeCorrect == Spec => []TypeOK
<1>1. IInv => TypeOK
  BY DEF IInv
<1> QED
  BY <1>1, Invariance, PTL

\* Whatever fails or moves in the middle of a batch, the offset that is
\* committed never passes a window that was not written.
THEOREM Plotted == Spec => []CommittedMeansPlotted
<1>1. IInv => CommittedMeansPlotted
  BY DEF IInv
<1> QED
  BY <1>1, Invariance, PTL

\* Unless the partition was taken from a thread at work, rows of a topic that
\* is read to its end hold the newest emissions.
THEOREM Newest == Spec => []NewestUnlessRevoked
<1>1. IInv => NewestUnlessRevoked
  <2> SUFFICES ASSUME IInv, ~revoked, CaughtUp, NEW i \in DOMAIN log
               PROVE  Fresh(i)
    BY DEF NewestUnlessRevoked, NewestPlotted, Fresh
  <2>1. Progress = position /\ position = Len(log)
    BY DEF IInv, CaughtUp, Progress, TypeOK
  <2>2. i \in 1..Progress
    BY <2>1 DEF IInv, TypeOK
  <2> QED
    BY <2>2 DEF IInv, ProgressFresh
<1> QED
  BY <1>1, Invariance, PTL

=============================================================================
