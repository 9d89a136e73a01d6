----------------------- MODULE TelemetryScoringProofs -----------------------
(***************************************************************************)
(* Safety of TelemetryScoring for every content of the topic, every window *)
(* length, slide and delay, every cut into batches and every number of     *)
(* failures and restarts; and the three translations of windows and        *)
(* features, on every sequence of readings.                                *)
(***************************************************************************)
EXTENDS TelemetryScoring, FiniteSetTheorems, TLAPS

-----------------------------------------------------------------------------
(* The inductive invariant *)

Basics ==
    /\ topic \in Topics
    /\ done \in [Query -> Nat] /\ planned \in [Query -> Nat]
    /\ \A q \in Query : done[q] <= planned[q] /\ planned[q] <= Len(topic)
    /\ batch \in Nat
    /\ mark \in Nat /\ lateMark \in Nat /\ lateMark <= mark

\* A message that the scoring query aggregates.
Scorable(o) == Accepted(topic[o]) /\ OnTime(topic[o])

\* p is a scorable message up to offset n in one of its windows.
IsRow(p, n) ==
    /\ p = <<p[1], p[2]>>
    /\ p[2] \in 1..n
    /\ Scorable(p[2])
    /\ p[1] \in Covering(topic[p[2]].time)

RowsKnown == \A p \in store \cup dropped : IsRow(p, done["scoring"])

\* What a batch not committed yet has published is what it publishes when it
\* runs again.
EventsKnown ==
    \A e \in scored :
        \/ e \in Events
        \/ /\ e.batch \in Nat /\ e.batch < batch /\ e.start \in Int
           /\ \A o \in e.rows : o \in 1..done["scoring"] /\ Scorable(o)

\* A window is in the state with all the rows an event ever named, until no
\* row can be added to it.
WindowsKept ==
    \A e \in scored :
        e.batch < batch =>
            \/ e.start + WindowLen <= lateMark
            \/ \A o \in e.rows : <<e.start, o>> \in store /\ topic[o].machine = e.machine

\* A committed message is in the state in every window of it that still takes
\* rows.
RowsKept ==
    \A o \in 1..done["scoring"] : Scorable(o) =>
        \A s \in Covering(topic[o].time) :
            <<s, o>> \in dropped \cup store \/ s + WindowLen <= lateMark

LatestHolds ==
    \A o \in 1..done["scoring"] : Scorable(o) =>
        \A s \in Covering(topic[o].time) :
            <<s, o>> \in dropped \/ \E e \in Latest(topic[o].machine, s) : o \in e.rows

ScoringInv ==
    /\ Basics /\ RowsKnown /\ EventsKnown /\ WindowsKept /\ RowsKept /\ LatestHolds
    /\ ReplaySameEvents /\ WindowNeverRestarts

\* The dead letter topic and the late topic hold what they should and no more.
ValidationInv ==
    /\ \A d \in dead : d[1] \in Offsets /\ d[2] = DlqReason(topic[d[1]]) /\ d[2] # Null
    /\ \A o \in tardy : o \in Offsets /\ Accepted(topic[o]) /\ TooLate(topic[o])
    /\ \A o \in 1..done["validation"] :
          /\ ~Accepted(topic[o]) => \E d \in dead : d[1] = o
          /\ Accepted(topic[o]) /\ TooLate(topic[o]) => o \in tardy

DriverTypes ==
    /\ failed \subseteq Query /\ stopped \subseteq Query
    /\ driver \in {"polling", "checking", "stopping", "exited"}
    /\ code \in {0, 1, 137}
    /\ faults \in 0..MaxFaults

IInv == ScoringInv /\ ValidationInv /\ DriverTypes /\ FailureExitsNonZero

-----------------------------------------------------------------------------
(* The topic, its rows and windows *)

LEMMA TopicFacts ==
    ASSUME topic \in Topics
    PROVE  /\ Len(topic) \in Nat /\ Offsets = 1..Len(topic)
           /\ \A o \in Offsets : topic[o].time \in Nat /\ topic[o].ingest \in Int \cup {Null}
  <1>1. topic \in Seq(Range(topic))
    BY TopicsAssumption
  <1>2. Offsets = 1..Len(topic) /\ Len(topic) \in Nat
    BY <1>1 DEF Offsets
  <1>3. \A o \in Offsets : topic[o] \in Range(topic)
    BY DEF Offsets, Range
  <1> QED
    BY <1>2, <1>3, TopicsAssumption

\* An accepted message is either on time or too late.
LEMMA OnTimeOrLate ==
    ASSUME topic \in Topics, NEW o \in Offsets
    PROVE  OnTime(topic[o]) <=> ~TooLate(topic[o])
  <1>1. topic[o].time \in Nat /\ topic[o].ingest \in Int \cup {Null} /\ Delay \in Nat
    BY TopicFacts, ContractAssumption DEF ContractAssumption
  <1>2. Lateness(topic[o]) = Null \/ Lateness(topic[o]) \in Int
    BY <1>1 DEF Lateness
  <1> QED
    BY <1>1, <1>2, TopicsAssumption DEF OnTime, TooLate

LEMMA StartsAreNumbers ==
    ASSUME topic \in Topics, NEW o \in Offsets, NEW s \in Covering(topic[o].time)
    PROVE  s \in Int /\ s + WindowLen \in Int
  <1>1. topic[o].time \in Nat /\ WindowLen \in Nat
    BY TopicFacts, ContractAssumption DEF ContractAssumption
  <1> QED
    BY <1>1 DEF Covering

LEMMA ScoringBatch ==
    ASSUME Basics
    PROVE  Batch("scoring") = {o \in 1..planned["scoring"] : done["scoring"] < o}
  <1>1. Offsets = 1..Len(topic) /\ Len(topic) \in Nat
    BY TopicFacts DEF Basics
  <1>2. planned["scoring"] <= Len(topic) /\ planned["scoring"] \in Nat /\ done["scoring"] \in Nat
    BY DEF Basics, Query
  <1> QED
    BY <1>1, <1>2 DEF Batch

LEMMA ExpandedRows ==
    ASSUME Basics, NEW p
    PROVE  p \in Expanded <=> IsRow(p, planned["scoring"]) /\ done["scoring"] < p[2]
  <1>1. Input = {o \in 1..planned["scoring"] : done["scoring"] < o /\ Scorable(o)}
    BY ScoringBatch DEF Input, Scorable
  <1>2. ASSUME p \in Expanded
        PROVE  IsRow(p, planned["scoring"]) /\ done["scoring"] < p[2]
    <2>1. PICK o \in Input : p \in Covering(topic[o].time) \X {o}
      BY <1>2 DEF Expanded
    <2>2. p = <<p[1], p[2]>> /\ p[2] = o /\ p[1] \in Covering(topic[o].time)
      BY <2>1
    <2> QED
      BY <1>1, <2>2 DEF IsRow
  <1>3. ASSUME IsRow(p, planned["scoring"]), done["scoring"] < p[2]
        PROVE  p \in Expanded
    <2>1. p[2] \in Input /\ p[1] \in Covering(topic[p[2]].time) /\ p = <<p[1], p[2]>>
      BY <1>1, <1>3 DEF IsRow
    <2>2. p \in Covering(topic[p[2]].time) \X {p[2]}
      BY <2>1
    <2> QED
      BY <2>1, <2>2 DEF Expanded
  <1> QED
    BY <1>2, <1>3

\* A query that has no batch publishes nothing.
LEMMA NoBatchNoEvents ==
    ASSUME Basics, planned["scoring"] = done["scoring"]
    PROVE  Expanded = {} /\ Kept = {} /\ Events = {}
  <1>1. Batch("scoring") = {}
    BY ScoringBatch DEF Basics, Query
  <1>2. Expanded = {} /\ Kept = {}
    BY <1>1 DEF Input, Expanded, Kept
  <1> QED
    BY <1>2 DEF Events, Touched

-----------------------------------------------------------------------------
(* The events of a batch *)

NewEvent(w) == Event(w[1], w[2], RowsOf(w, store \cup Kept),
                     SkipReason(w[2], Messages(RowsOf(w, store \cup Kept))))

LEMMA EventsAre == Events = {NewEvent(w) : w \in Touched(Kept)}
  <1> DEFINE merged == {[window |-> w, rows |-> RowsOf(w, store \cup Kept)] : w \in Touched(Kept)}
             event(x) == Event(x.window[1], x.window[2], x.rows,
                               SkipReason(x.window[2], Messages(x.rows)))
  <1>1. Events = {event(x) : x \in merged}
    BY DEF Events
  <1>2. ASSUME NEW w
        PROVE  event([window |-> w, rows |-> RowsOf(w, store \cup Kept)]) = NewEvent(w)
    BY DEF NewEvent
  <1> HIDE DEF event
  <1> QED
    BY <1>1, <1>2

LEMMA EventFields ==
    ASSUME NEW e \in Events
    PROVE  /\ e = Event(e.machine, e.start, RowsOf(<<e.machine, e.start>>, store \cup Kept),
                        SkipReason(e.start, Messages(RowsOf(<<e.machine, e.start>>, store \cup Kept))))
           /\ e.batch = batch
           /\ e.rows = RowsOf(<<e.machine, e.start>>, store \cup Kept)
           /\ \E p \in Kept : p[1] = e.start /\ topic[p[2]].machine = e.machine
  <1>1. PICK w \in Touched(Kept) :
            e = Event(w[1], w[2], RowsOf(w, store \cup Kept),
                      SkipReason(w[2], Messages(RowsOf(w, store \cup Kept))))
    BY EventsAre DEF NewEvent
  <1>2. PICK p \in Kept : w = <<topic[p[2]].machine, p[1]>>
    BY DEF Touched
  <1>3. e.machine = w[1] /\ e.start = w[2] /\ e.batch = batch /\ e.rows = RowsOf(w, store \cup Kept)
    BY <1>1 DEF Event
  <1>4. w = <<e.machine, e.start>>
    BY <1>2, <1>3
  <1> QED
    BY <1>1, <1>2, <1>3, <1>4

LEMMA OneEventPerWindow ==
    ASSUME NEW e \in Events, NEW f \in Events, e.machine = f.machine, e.start = f.start
    PROVE  e = f
  BY EventFields

LEMMA TouchedHasEvent ==
    ASSUME NEW p \in Kept
    PROVE  \E e \in Events : e.machine = topic[p[2]].machine /\ e.start = p[1]
  <1> DEFINE w == <<topic[p[2]].machine, p[1]>>
  <1>1. w \in Touched(Kept)
    BY DEF Touched
  <1>2. NewEvent(w) \in Events
    BY <1>1, EventsAre
  <1>3. NewEvent(w).machine = topic[p[2]].machine /\ NewEvent(w).start = p[1]
    BY DEF NewEvent, Event
  <1> QED
    BY <1>2, <1>3

\* The rows of an event are those of its window, old and new.
LEMMA EventRows ==
    ASSUME Basics, RowsKnown, NEW e \in Events, NEW o
    PROVE  o \in e.rows <=> <<e.start, o>> \in store \cup Kept /\ topic[o].machine = e.machine
  <1>1. \A p \in store \cup Kept : p = <<p[1], p[2]>>
    BY ExpandedRows DEF RowsKnown, IsRow, Kept
  <1>2. e.rows = {p[2] : p \in {x \in store \cup Kept :
                                   x[1] = e.start /\ topic[x[2]].machine = e.machine}}
    BY EventFields DEF RowsOf
  <1> QED
    BY <1>1, <1>2

LEMMA EventRowsPlanned ==
    ASSUME Basics, RowsKnown, NEW e \in Events, NEW o \in e.rows
    PROVE  o \in 1..planned["scoring"] /\ Scorable(o)
  <1>1. <<e.start, o>> \in store \cup Kept
    BY EventRows
  <1>2. IsRow(<<e.start, o>>, done["scoring"]) \/ IsRow(<<e.start, o>>, planned["scoring"])
    BY <1>1, ExpandedRows DEF RowsKnown, Kept
  <1>3. done["scoring"] \in Nat /\ planned["scoring"] \in Nat /\ done["scoring"] <= planned["scoring"]
    BY DEF Basics, Query
  <1> QED
    BY <1>2, <1>3 DEF IsRow

\* A window that a batch touches has not been evicted.
LEMMA TouchedIsOpen ==
    ASSUME NEW e \in Events
    PROVE  e.start + WindowLen > lateMark
  BY EventFields DEF Kept, InTime

\* What a new event of a window that was published before adds.
LEMMA EventGrows ==
    ASSUME ScoringInv, NEW e \in scored, e.batch < batch, NEW f \in Events,
           e.machine = f.machine, e.start = f.start
    PROVE  e.rows \subseteq f.rows /\ e.rows # f.rows
  <1>1. ~(e.start + WindowLen <= lateMark)
    <2>1. f.start + WindowLen > lateMark
      BY TouchedIsOpen
    <2>2. PICK p \in Kept : p[1] = f.start
      BY EventFields
    <2>3. IsRow(p, planned["scoring"])
      BY <2>2, ExpandedRows DEF ScoringInv, Kept
    <2>4. p[2] \in Offsets /\ p[1] \in Covering(topic[p[2]].time)
      BY <2>3, TopicFacts DEF IsRow, ScoringInv, Basics, Query
    <2>5. f.start + WindowLen \in Int
      BY <2>2, <2>4, StartsAreNumbers DEF ScoringInv, Basics
    <2> QED
      BY <2>1, <2>5 DEF ScoringInv, Basics
  <1>2. \A o \in e.rows : <<e.start, o>> \in store /\ topic[o].machine = e.machine
    BY <1>1 DEF ScoringInv, WindowsKept
  <1>3. e.rows \subseteq f.rows
    BY <1>2, EventRows DEF ScoringInv
  <1>4. PICK p \in Kept : p[1] = f.start /\ topic[p[2]].machine = f.machine
    BY EventFields
  <1>5. p = <<p[1], p[2]>> /\ done["scoring"] < p[2]
    BY ExpandedRows DEF ScoringInv, Kept, IsRow
  <1>6. p[2] \in f.rows
    BY <1>4, <1>5, EventRows DEF ScoringInv
  <1>7. p[2] \notin e.rows
    <2>1. e \notin Events
      <3>1. e \in Events => e.batch = batch
        BY EventFields
      <3>2. batch \in Nat
        BY DEF ScoringInv, Basics
      <3> QED
        BY <3>1, <3>2
    <2>2. \A o \in e.rows : o \in 1..done["scoring"]
      BY <2>1 DEF ScoringInv, EventsKnown
    <2>3. done["scoring"] \in Nat
      BY DEF ScoringInv, Basics, Query
    <2> QED
      BY <1>5, <2>2, <2>3
  <1> QED
    BY <1>3, <1>6, <1>7

-----------------------------------------------------------------------------
(* Steps that leave the scoring query alone *)

LEMMA EventsUnchanged ==
    ASSUME UNCHANGED <<topic, store, lateMark, batch>>,
           done'["scoring"] = done["scoring"], planned'["scoring"] = planned["scoring"]
    PROVE  Events' = Events
  <1>1. Batch("scoring")' = Batch("scoring")
    BY DEF Batch, Offsets
  <1>2. Input' = Input
    BY <1>1 DEF Input
  <1>3. Expanded' = Expanded
    BY <1>2 DEF Expanded
  <1>4. Kept' = Kept
    BY <1>3 DEF Kept, InTime
  <1>5. Touched(Kept)' = Touched(Kept)
    BY <1>4 DEF Touched
  <1> DEFINE merged == {[window |-> w, rows |-> RowsOf(w, store \cup Kept)] : w \in Touched(Kept)}
             event(x) == Event(x.window[1], x.window[2], x.rows,
                               SkipReason(x.window[2], Messages(x.rows)))
  <1>6. merged' = merged
    BY <1>4, <1>5 DEF RowsOf
  <1>7. ASSUME NEW x PROVE event(x)' = event(x)
    <2>1. Messages(x.rows)' = Messages(x.rows)
      BY DEF Messages
    <2>2. SkipReason(x.window[2], Messages(x.rows))' = SkipReason(x.window[2], Messages(x.rows))
      BY <2>1
    <2> QED
      BY <2>2 DEF Event
  <1>8. Events = {event(x) : x \in merged}
    BY DEF Events
  <1>9. Events' = {event(x)' : x \in merged'}
    BY DEF Events
  <1> HIDE DEF event, merged
  <1> QED
    BY <1>6, <1>7, <1>8, <1>9

LEMMA QuietStep ==
    ASSUME ScoringInv,
           UNCHANGED <<topic, scored, store, lateMark, mark, batch, dropped>>,
           done' \in [Query -> Nat], planned' \in [Query -> Nat],
           done'["scoring"] = done["scoring"], planned'["scoring"] = planned["scoring"],
           \A q \in Query : done'[q] <= planned'[q] /\ planned'[q] <= Len(topic)
    PROVE  ScoringInv'
  <1>1. Basics'
    BY DEF ScoringInv, Basics
  <1>2. Kept' = Kept
    BY DEF Kept, Expanded, Input, Batch, Offsets, InTime
  <1>3. Events' = Events
    BY EventsUnchanged
  <1>4. RowsKnown' /\ EventsKnown'
    BY <1>3 DEF ScoringInv, RowsKnown, EventsKnown, IsRow, Scorable
  <1>5. WindowsKept' /\ RowsKept' /\ LatestHolds'
    <2>1. \A m, b : Latest(m, b)' = Latest(m, b)
      BY DEF Latest, EventsOf
    <2>2. WindowsKept'
      BY DEF ScoringInv, WindowsKept
    <2>3. RowsKept'
      BY DEF ScoringInv, RowsKept, Scorable
    <2>4. LatestHolds'
      BY <2>1 DEF ScoringInv, LatestHolds, Scorable
    <2> QED
      BY <2>2, <2>3, <2>4
  <1>6. ReplaySameEvents' /\ WindowNeverRestarts'
    BY DEF ScoringInv, ReplaySameEvents, WindowNeverRestarts
  <1> QED
    BY <1>1, <1>4, <1>5, <1>6 DEF ScoringInv

LEMMA PlanStep ==
    ASSUME ScoringInv, NEW q \in Query, PlanBatch(q)
    PROVE  ScoringInv'
  <1>1. PICK n \in 1..MaxPerTrigger :
            done[q] + n <= Len(topic) /\ planned' = [planned EXCEPT ![q] = done[q] + n]
    BY DEF PlanBatch
  <1>2. /\ UNCHANGED <<topic, done, scored, store, lateMark, mark, batch, dropped>>
        /\ planned[q] = done[q]
    BY DEF PlanBatch, outVars, stateVars
  <1>3. n \in Nat /\ done[q] \in Nat /\ done[q] + n \in Nat /\ done[q] <= done[q] + n
    BY ScoringBoundAssumption DEF ScoringInv, Basics
  <1>4. planned' \in [Query -> Nat]
    BY <1>1, <1>3 DEF ScoringInv, Basics
  <1>5. \A r \in Query : done'[r] <= planned'[r] /\ planned'[r] <= Len(topic)
    BY <1>1, <1>2, <1>3 DEF ScoringInv, Basics
  <1>6. CASE q = "scoring"
    <2>1. Events = {}
      BY <1>2, <1>6, NoBatchNoEvents DEF ScoringInv
    <2>2. Basics'
      BY <1>2, <1>4, <1>5 DEF ScoringInv, Basics
    <2>3. RowsKnown' /\ EventsKnown'
      BY <1>2, <2>1 DEF ScoringInv, RowsKnown, EventsKnown, IsRow, Scorable
    <2>4. WindowsKept' /\ RowsKept' /\ LatestHolds'
      <3>1. \A m, b : Latest(m, b)' = Latest(m, b)
        BY <1>2 DEF Latest, EventsOf
      <3>2. WindowsKept'
        BY <1>2 DEF ScoringInv, WindowsKept
      <3>3. RowsKept'
        BY <1>2 DEF ScoringInv, RowsKept, Scorable
      <3>4. LatestHolds'
        BY <1>2, <3>1 DEF ScoringInv, LatestHolds, Scorable
      <3> QED
        BY <3>2, <3>3, <3>4
    <2>5. ReplaySameEvents' /\ WindowNeverRestarts'
      BY <1>2 DEF ScoringInv, ReplaySameEvents, WindowNeverRestarts
    <2> QED
      BY <2>2, <2>3, <2>4, <2>5 DEF ScoringInv
  <1>7. CASE q # "scoring"
    BY <1>1, <1>2, <1>4, <1>5, <1>7, QuietStep DEF ScoringInv, Basics, Query
  <1> QED
    BY <1>6, <1>7

LEMMA ValidateStep ==
    ASSUME ScoringInv, Validate
    PROVE  ScoringInv'
  <1>1. done' = [done EXCEPT !["validation"] = planned["validation"]] /\ planned' = planned
    BY DEF Validate
  <1>2. /\ done' \in [Query -> Nat] /\ done'["scoring"] = done["scoring"]
        /\ \A q \in Query : done'[q] <= planned'[q]
    BY <1>1 DEF ScoringInv, Basics, Query
  <1> QED
    BY <1>1, <1>2, QuietStep DEF Validate, stateVars, ScoringInv, Basics

-----------------------------------------------------------------------------
(* Steps of the scoring query *)

\* New events of the running batch, all of them or a part.
LEMMA PublishedPairs ==
    ASSUME ScoringInv, scored' \subseteq scored \cup Events
    PROVE  ReplaySameEvents' /\ WindowNeverRestarts'
  <1>1. ASSUME NEW e \in scored \cup Events, NEW f \in scored \cup Events,
               e.machine = f.machine, e.start = f.start, e.batch = f.batch
        PROVE  e = f
    <2>1. CASE e \in scored /\ f \in scored
      BY <1>1, <2>1 DEF ScoringInv, ReplaySameEvents
    <2>2. CASE e \in Events \/ f \in Events
      <3>1. e.batch = batch /\ f.batch = batch
        BY <1>1, <2>2, EventFields
      <3>2. batch \in Nat
        BY DEF ScoringInv, Basics
      <3>3. e \in Events /\ f \in Events
        BY <3>1, <3>2 DEF ScoringInv, EventsKnown
      <3> QED
        BY <1>1, <3>3, OneEventPerWindow
    <2> QED
      BY <2>1, <2>2
  <1>2. ASSUME NEW e \in scored \cup Events, NEW f \in scored \cup Events,
               e.machine = f.machine, e.start = f.start, e.batch < f.batch
        PROVE  e.rows \subseteq f.rows /\ e.rows # f.rows
    <2>1. batch \in Nat /\ ~(batch < batch)
      BY DEF ScoringInv, Basics
    <2>2. \A g \in scored \cup Events : g.batch = batch \/ (g.batch \in Nat /\ g.batch < batch)
      BY EventFields DEF ScoringInv, EventsKnown
    <2>3. CASE f \in scored /\ e \in scored
      BY <1>2, <2>3 DEF ScoringInv, WindowNeverRestarts
    <2>4. CASE e \in Events /\ e \notin scored
      <3>1. e.batch = batch
        BY <2>4, EventFields
      <3> QED
        BY <1>2, <2>1, <2>2, <3>1
    <2>5. CASE e \in scored /\ f \in Events
      <3>1. f.batch = batch
        BY <2>5, EventFields
      <3> QED
        BY <1>2, <2>5, <3>1, EventGrows
    <2> QED
      BY <2>3, <2>4, <2>5
  <1>3. ReplaySameEvents'
    BY <1>1 DEF ReplaySameEvents
  <1>4. WindowNeverRestarts'
    BY <1>2 DEF WindowNeverRestarts
  <1> QED
    BY <1>3, <1>4

\* The latest event of a window once a batch has published some of its events:
\* one of them, or what it was.
LEMMA LatestAfter ==
    ASSUME ScoringInv, NEW sent, sent \subseteq Events, scored' = scored \cup sent,
           NEW m, NEW s
    PROVE  \/ \E f \in Events : f.machine = m /\ f.start = s /\ f \in Latest(m, s)'
           \/ Latest(m, s)' = Latest(m, s)
  <1>1. batch \in Nat
    BY DEF ScoringInv, Basics
  <1>2. \A g \in scored' : g.batch = batch \/ (g.batch \in Nat /\ g.batch < batch)
    BY EventFields DEF ScoringInv, EventsKnown
  <1>3. CASE \E f \in Events \cap scored' : f.machine = m /\ f.start = s
    <2>1. PICK f \in Events \cap scored' : f.machine = m /\ f.start = s
      BY <1>3
    <2>2. f.batch = batch
      BY <2>1, EventFields
    <2>3. f \in Latest(m, s)'
      BY <1>1, <1>2, <2>1, <2>2 DEF Latest, EventsOf
    <2> QED
      BY <2>1, <2>3
  <1>4. CASE ~\E f \in Events \cap scored' : f.machine = m /\ f.start = s
    <2>1. EventsOf(m, s)' = EventsOf(m, s)
      BY <1>4 DEF EventsOf
    <2> QED
      BY <2>1 DEF Latest
  <1> QED
    BY <1>3, <1>4

\* A committed row the watermark did not refuse is in every later event of its
\* window.
LEMMA EventHoldsRows ==
    ASSUME ScoringInv, NEW o \in 1..done["scoring"], Scorable(o),
           NEW s \in Covering(topic[o].time), <<s, o>> \notin dropped,
           NEW f \in Events, f.machine = topic[o].machine, f.start = s
    PROVE  o \in f.rows
  <1>1. f.start + WindowLen > lateMark
    BY TouchedIsOpen
  <1>2. o \in Offsets
    BY TopicFacts DEF ScoringInv, Basics, Query
  <1>3. s + WindowLen \in Int /\ lateMark \in Nat
    BY <1>2, StartsAreNumbers DEF ScoringInv, Basics
  <1>4. <<s, o>> \in store
    BY <1>1, <1>3 DEF ScoringInv, RowsKept
  <1> QED
    BY <1>4, EventRows DEF ScoringInv

LEMMA FailStep ==
    ASSUME ScoringInv, NEW q \in Query, Fail(q)
    PROVE  ScoringInv'
  <1>0. planned' = planned /\ UNCHANGED <<topic, done, store, lateMark, mark, batch, dropped>>
    BY DEF Fail, PlanAfterFailure, stateVars
  <1>1. CASE q # "scoring"
    <2>1. scored' = scored
      BY <1>1 DEF Fail
    <2> QED
      BY <1>0, <2>1, QuietStep DEF ScoringInv, Basics, Query
  <1>2. CASE q = "scoring"
    <2>1. PICK sent \in SUBSET Events : scored' = scored \cup sent
      BY <1>2 DEF Fail
    <2>2. Events' = Events
      BY <1>0, EventsUnchanged
    <2>3. Basics' /\ RowsKnown' /\ RowsKept'
      BY <1>0 DEF ScoringInv, Basics, RowsKnown, RowsKept, IsRow, Scorable
    <2>4. EventsKnown'
      BY <1>0, <2>1, <2>2 DEF ScoringInv, EventsKnown, Scorable
    <2>5. WindowsKept'
      <3>1. \A e \in sent : ~(e.batch < batch)
        <4> TAKE e \in sent
        <4>1. e.batch = batch
          BY EventFields
        <4>2. batch \in Nat
          BY DEF ScoringInv, Basics
        <4> QED
          BY <4>1, <4>2
      <3> QED
        BY <1>0, <2>1, <3>1 DEF ScoringInv, WindowsKept
    <2>6. LatestHolds'
      <3> SUFFICES ASSUME NEW o \in 1..done["scoring"], Scorable(o),
                          NEW s \in Covering(topic[o].time), <<s, o>> \notin dropped
                   PROVE  \E e \in Latest(topic[o].machine, s)' : o \in e.rows
        BY <1>0 DEF LatestHolds, Scorable
      <3>1. CASE Latest(topic[o].machine, s)' = Latest(topic[o].machine, s)
        BY <3>1 DEF ScoringInv, LatestHolds
      <3>2. CASE \E f \in Events : /\ f.machine = topic[o].machine /\ f.start = s
                                   /\ f \in Latest(topic[o].machine, s)'
        BY <3>2, EventHoldsRows
      <3>3. \/ \E f \in Events : /\ f.machine = topic[o].machine /\ f.start = s
                                 /\ f \in Latest(topic[o].machine, s)'
            \/ Latest(topic[o].machine, s)' = Latest(topic[o].machine, s)
        <4>1. PICK m : m = topic[o].machine
          OBVIOUS
        <4>2. (topic[o].machine)' = m
          BY <1>0, <4>1
        <4>3. \/ \E f \in Events : f.machine = m /\ f.start = s /\ f \in Latest(m, s)'
              \/ Latest(m, s)' = Latest(m, s)
          BY <2>1, LatestAfter
        <4> QED
          BY <4>1, <4>2, <4>3 DEF Latest, EventsOf
      <3> QED
        BY <3>1, <3>2, <3>3
    <2>7. ReplaySameEvents' /\ WindowNeverRestarts'
      BY <2>1, PublishedPairs
    <2> QED
      BY <2>3, <2>4, <2>5, <2>6, <2>7 DEF ScoringInv
  <1> QED
    BY <1>1, <1>2

\* What holds of every published event once its batch is committed.
LEMMA EventsPast ==
    ASSUME ScoringInv, NEW e \in scored \cup Events
    PROVE  /\ e.batch \in Nat /\ e.batch < batch + 1 /\ e.start \in Int
           /\ \A o \in e.rows : o \in 1..planned["scoring"] /\ Scorable(o)
           /\ \/ e.start + WindowLen <= lateMark
              \/ \A o \in e.rows : <<e.start, o>> \in store \cup Kept /\ topic[o].machine = e.machine
  <1>1. /\ batch \in Nat /\ done["scoring"] \in Nat /\ planned["scoring"] \in Nat
        /\ done["scoring"] <= planned["scoring"]
    BY DEF ScoringInv, Basics, Query
  <1>2. CASE e \in Events
    <2>1. e.batch = batch
      BY <1>2, EventFields
    <2>2. PICK p \in Kept : p[1] = e.start
      BY <1>2, EventFields
    <2>3. IsRow(p, planned["scoring"])
      BY <2>2, ExpandedRows DEF ScoringInv, Kept
    <2>4. p[2] \in Offsets /\ p[1] \in Covering(topic[p[2]].time)
      BY <2>3, TopicFacts DEF IsRow, ScoringInv, Basics, Query
    <2>5. e.start \in Int
      BY <2>2, <2>4, StartsAreNumbers DEF ScoringInv, Basics
    <2>6. \A o \in e.rows : o \in 1..planned["scoring"] /\ Scorable(o)
      BY <1>2, EventRowsPlanned DEF ScoringInv
    <2>7. \A o \in e.rows : <<e.start, o>> \in store \cup Kept /\ topic[o].machine = e.machine
      BY <1>2, EventRows DEF ScoringInv
    <2> QED
      BY <1>1, <2>1, <2>5, <2>6, <2>7
  <1>3. CASE e \notin Events
    <2>1. /\ e.batch \in Nat /\ e.batch < batch /\ e.start \in Int
          /\ \A o \in e.rows : o \in 1..done["scoring"] /\ Scorable(o)
      BY <1>3 DEF ScoringInv, EventsKnown
    <2>2. \/ e.start + WindowLen <= lateMark
          \/ \A o \in e.rows : <<e.start, o>> \in store /\ topic[o].machine = e.machine
      BY <1>3, <2>1 DEF ScoringInv, WindowsKept
    <2> QED
      BY <1>1, <2>1, <2>2
  <1> QED
    BY <1>2, <1>3

\* The watermark never goes back.
LEMMA MarkGrows ==
    ASSUME ScoringInv, NEW m \in Marks, NewMark(m)
    PROVE  m \in Nat /\ mark <= m
  <1>1. mark \in Nat /\ mark <= m
    BY DEF ScoringInv, Basics, Marks, NewMark
  <1>2. m = mark \/ \E o \in Input : m = topic[o].time - Delay
    BY DEF Marks
  <1>3. \A o \in Input : topic[o].time \in Nat
    BY TopicFacts DEF ScoringInv, Basics, Input, Batch
  <1>4. m \in Int
    BY <1>1, <1>2, <1>3, ContractAssumption DEF ContractAssumption
  <1> QED
    BY <1>1, <1>4

\* Windows and rows after the state has been committed.
LEMMA Committed ==
    ASSUME ScoringInv,
           UNCHANGED topic, scored' = scored \cup Events, dropped' = dropped \cup (Expanded \ Kept),
           store' = {p \in store \cup Kept : ~Evicted(p)}, lateMark' = mark,
           batch' = batch + 1, done'["scoring"] = planned["scoring"]
    PROVE  RowsKnown' /\ EventsKnown' /\ WindowsKept' /\ RowsKept'
  <1>1. /\ done["scoring"] \in Nat /\ planned["scoring"] \in Nat
        /\ done["scoring"] <= planned["scoring"]
        /\ mark \in Nat /\ lateMark \in Nat /\ lateMark <= mark
    BY DEF ScoringInv, Basics, Query
  <1>2. WindowLen \in Nat
    BY ContractAssumption DEF ContractAssumption
  <1>3. RowsKnown'
    <2>1. \A p \in store \cup dropped \cup Expanded : IsRow(p, planned["scoring"])
      BY <1>1, ExpandedRows DEF ScoringInv, RowsKnown, IsRow
    <2>2. store' \cup dropped' \subseteq store \cup dropped \cup Expanded
      BY DEF Kept
    <2> QED
      BY <2>1, <2>2 DEF RowsKnown, IsRow, Scorable
  <1>4. EventsKnown'
    BY EventsPast DEF EventsKnown, Scorable
  <1>5. WindowsKept'
    <2> SUFFICES ASSUME NEW e \in scored \cup Events, ~(e.start + WindowLen <= mark),
                        NEW o \in e.rows
                 PROVE  <<e.start, o>> \in store' /\ topic[o].machine = e.machine
      BY DEF WindowsKept
    <2>1. ~(e.start + WindowLen <= lateMark)
      <3>1. e.start \in Int
        BY EventsPast
      <3> QED
        BY <1>1, <1>2, <3>1
    <2>2. <<e.start, o>> \in store \cup Kept /\ topic[o].machine = e.machine
      BY <2>1, EventsPast
    <2>3. ~Evicted(<<e.start, o>>)
      BY DEF Evicted
    <2> QED
      BY <2>2, <2>3
  <1>6. RowsKept'
    <2> SUFFICES ASSUME NEW o \in 1..planned["scoring"], Scorable(o),
                        NEW s \in Covering(topic[o].time)
                 PROVE  <<s, o>> \in dropped' \cup store' \/ s + WindowLen <= mark
      BY DEF RowsKept, Scorable
    <2>1. s + WindowLen \in Int
      <3>1. o \in Offsets
        BY <1>1, TopicFacts DEF ScoringInv, Basics, Query
      <3> QED
        BY <3>1, StartsAreNumbers DEF ScoringInv, Basics
    <2>2. <<s, o>> \in dropped \cup store \cup Expanded \/ s + WindowLen <= lateMark
      <3>1. CASE o \in 1..done["scoring"]
        BY <3>1 DEF ScoringInv, RowsKept
      <3>2. CASE done["scoring"] < o
        <4>1. IsRow(<<s, o>>, planned["scoring"])
          BY DEF IsRow
        <4> QED
          BY <3>2, <4>1, ExpandedRows DEF ScoringInv
      <3> QED
        BY <1>1, <3>1, <3>2
    <2>3. CASE <<s, o>> \in dropped \cup (Expanded \ Kept)
      BY <2>3
    <2>4. CASE <<s, o>> \in store \cup Kept
      <3>1. Evicted(<<s, o>>) <=> s + WindowLen <= mark
        BY DEF Evicted
      <3> QED
        BY <2>4, <3>1
    <2>5. CASE s + WindowLen <= lateMark
      BY <1>1, <2>1, <2>5
    <2> QED
      BY <2>2, <2>3, <2>4, <2>5
  <1> QED
    BY <1>3, <1>4, <1>5, <1>6

LEMMA ScoreStep ==
    ASSUME ScoringInv, Score
    PROVE  ScoringInv'
  <1>1. /\ UNCHANGED <<topic, planned>>
        /\ scored' = scored \cup Events
        /\ dropped' = dropped \cup (Expanded \ Kept)
        /\ store' = {p \in store \cup Kept : ~Evicted(p)}
        /\ lateMark' = mark
        /\ batch' = batch + 1
        /\ done' = [done EXCEPT !["scoring"] = planned["scoring"]]
    BY DEF Score
  <1>2. done'["scoring"] = planned["scoring"]
    BY <1>1 DEF ScoringInv, Basics, Query
  <1>3. Basics'
    <2>1. mark' \in Nat /\ mark <= mark'
      BY MarkGrows DEF Score
    <2> QED
      BY <1>1, <2>1 DEF ScoringInv, Basics, Query
  <1>4. RowsKnown' /\ EventsKnown' /\ WindowsKept' /\ RowsKept'
    BY <1>1, <1>2, Committed
  <1>5. LatestHolds'
    <2> SUFFICES ASSUME NEW o \in 1..planned["scoring"], Scorable(o),
                        NEW s \in Covering(topic[o].time), <<s, o>> \notin dropped'
                 PROVE  \E e \in Latest(topic[o].machine, s)' : o \in e.rows
      BY <1>1, <1>2 DEF LatestHolds, Scorable
    <2>1. done["scoring"] \in Nat /\ planned["scoring"] \in Nat
      BY DEF ScoringInv, Basics, Query
    <2>2. PICK m : m = topic[o].machine
      OBVIOUS
    <2>3. (topic[o].machine)' = m
      BY <1>1, <2>2
    <2>4. CASE o \in 1..done["scoring"]
      <3>1. \/ \E f \in Events : f.machine = m /\ f.start = s /\ f \in Latest(m, s)'
            \/ Latest(m, s)' = Latest(m, s)
        BY <1>1, LatestAfter
      <3>2. <<s, o>> \notin dropped
        BY <1>1
      <3>3. CASE Latest(m, s)' = Latest(m, s)
        BY <2>2, <2>3, <2>4, <3>2, <3>3 DEF ScoringInv, LatestHolds, Latest, EventsOf
      <3>4. CASE \E f \in Events : f.machine = m /\ f.start = s /\ f \in Latest(m, s)'
        <4>1. PICK f \in Events : f.machine = m /\ f.start = s /\ f \in Latest(m, s)'
          BY <3>4
        <4>2. o \in f.rows
          BY <2>2, <2>4, <3>2, <4>1, EventHoldsRows
        <4> QED
          BY <2>3, <4>1, <4>2 DEF Latest, EventsOf
      <3> QED
        BY <3>1, <3>3, <3>4
    <2>5. CASE done["scoring"] < o
      <3>1. IsRow(<<s, o>>, planned["scoring"])
        BY DEF IsRow
      <3>2. <<s, o>> \in Kept
        BY <1>1, <2>5, <3>1, ExpandedRows DEF ScoringInv
      <3>3. PICK f \in Events : f.machine = m /\ f.start = s
        BY <2>2, <3>2, TouchedHasEvent
      <3>4. o \in f.rows
        BY <2>2, <3>2, <3>3, EventRows DEF ScoringInv
      <3>5. f \in Latest(m, s)'
        <4>1. f.batch = batch /\ batch \in Nat
          BY <3>3, EventFields DEF ScoringInv, Basics
        <4>2. \A e \in scored' : e.batch \in Nat /\ e.batch < batch + 1
          BY <1>1, EventsPast
        <4>3. \A e \in scored' : e.batch <= f.batch
          BY <4>1, <4>2
        <4> QED
          BY <1>1, <3>3, <4>3 DEF Latest, EventsOf
      <3> QED
        BY <2>3, <3>4, <3>5 DEF Latest, EventsOf
    <2> QED
      BY <2>1, <2>4, <2>5
  <1>6. ReplaySameEvents' /\ WindowNeverRestarts'
    BY <1>1, PublishedPairs
  <1> QED
    BY <1>3, <1>4, <1>5, <1>6 DEF ScoringInv

LEMMA EvictStep ==
    ASSUME ScoringInv, EvictOnly
    PROVE  ScoringInv'
  <1>1. /\ UNCHANGED <<topic, done, planned, scored, mark, dropped>>
        /\ store' = {p \in store : ~Evicted(p)}
        /\ lateMark' = mark
        /\ batch' = batch + 1
        /\ planned["scoring"] = done["scoring"]
    BY DEF EvictOnly, outVars
  <1>2. Expanded = {} /\ Kept = {} /\ Events = {}
    BY <1>1, NoBatchNoEvents DEF ScoringInv
  <1>3. Basics'
    BY <1>1 DEF ScoringInv, Basics
  <1>4. RowsKnown' /\ EventsKnown' /\ WindowsKept' /\ RowsKept'
    BY <1>1, <1>2, Committed
  <1>5. LatestHolds' /\ ReplaySameEvents' /\ WindowNeverRestarts'
    <2>1. \A m, b : Latest(m, b)' = Latest(m, b)
      BY <1>1 DEF Latest, EventsOf
    <2>2. LatestHolds'
      BY <1>1, <2>1 DEF ScoringInv, LatestHolds, Scorable
    <2>3. ReplaySameEvents' /\ WindowNeverRestarts'
      BY <1>1 DEF ScoringInv, ReplaySameEvents, WindowNeverRestarts
    <2> QED
      BY <2>2, <2>3
  <1> QED
    BY <1>3, <1>4, <1>5 DEF ScoringInv

\* The driver, a kill and a restart leave the scoring query alone.
LEMMA OtherStep ==
    ASSUME ScoringInv,
           UNCHANGED <<topic, done, planned, scored, store, lateMark, mark, batch, dropped>>
    PROVE  ScoringInv'
  BY QuietStep DEF ScoringInv, Basics

LEMMA ScoringInvStep ==
    ASSUME ScoringInv, [Next]_vars
    PROVE  ScoringInv'
  <1>1. ASSUME NEW q \in Query, PlanBatch(q) PROVE ScoringInv'
    BY <1>1, PlanStep
  <1>2. ASSUME NEW q \in Query, Fail(q) PROVE ScoringInv'
    BY <1>2, FailStep
  <1>3. CASE Validate
    BY <1>3, ValidateStep
  <1>4. CASE Score
    BY <1>4, ScoreStep
  <1>5. CASE EvictOnly
    BY <1>5, EvictStep
  <1>6. CASE Kill \/ Driver \/ EndRun \/ Restart \/ UNCHANGED vars
    <2>1. UNCHANGED <<topic, done, planned, scored, store, lateMark, mark, batch, dropped>>
      BY <1>6 DEF Kill, Driver, AwaitAnyTermination, CheckQueries, StopQuery, AwaitTermination,
                  EndRun, Restart, vars, outVars, stateVars, driverVars, unchangedByDriver
    <2> QED
      BY <2>1, OtherStep
  <1> QED
    BY <1>1, <1>2, <1>3, <1>4, <1>5, <1>6 DEF Next

-----------------------------------------------------------------------------
(* The validation query and the driver *)

LEMMA ValidationInvStep ==
    ASSUME Basics, ValidationInv, [Next]_vars
    PROVE  ValidationInv'
  <1>1. /\ Offsets = 1..Len(topic) /\ Len(topic) \in Nat
        /\ done["validation"] \in Nat /\ planned["validation"] \in Nat
        /\ planned["validation"] <= Len(topic)
    BY TopicFacts DEF Basics, Query
  <1>2. ASSUME NEW offsets, offsets \subseteq Offsets, UNCHANGED topic,
               dead' = dead \cup Rejections(offsets), tardy' = tardy \cup Tardy(offsets),
               \/ done'["validation"] = done["validation"]
               \/ /\ done'["validation"] = planned["validation"]
                  /\ offsets = Batch("validation")
        PROVE  ValidationInv'
    <2>1. \A d \in Rejections(offsets) : d[1] \in Offsets /\ d[2] = DlqReason(topic[d[1]]) /\ d[2] # Null
      BY <1>2 DEF Rejections, Accepted
    <2>2. \A o \in offsets : ~Accepted(topic[o]) => \E d \in Rejections(offsets) : d[1] = o
      <3> TAKE o \in offsets
      <3> HAVE ~Accepted(topic[o])
      <3>1. <<o, DlqReason(topic[o])>> \in Rejections(offsets)
        BY DEF Rejections
      <3> WITNESS <<o, DlqReason(topic[o])>> \in Rejections(offsets)
      <3> QED
        OBVIOUS
    <2>3. \A d \in dead' : d[1] \in Offsets /\ d[2] = DlqReason(topic[d[1]]) /\ d[2] # Null
      BY <1>2, <2>1 DEF ValidationInv
    <2>4. \A o \in tardy' : o \in Offsets /\ Accepted(topic[o]) /\ TooLate(topic[o])
      BY <1>2 DEF ValidationInv, Tardy
    <2>5. \A o \in 1..done'["validation"] : o \in 1..done["validation"] \/ o \in offsets
      BY <1>1, <1>2 DEF Batch
    <2>6. \A o \in 1..done'["validation"] :
             /\ ~Accepted(topic[o]) => \E d \in dead' : d[1] = o
             /\ Accepted(topic[o]) /\ TooLate(topic[o]) => o \in tardy'
      BY <1>2, <2>2, <2>5 DEF ValidationInv, Tardy
    <2> QED
      BY <1>2, <2>3, <2>4, <2>6 DEF ValidationInv, Offsets
  <1>3. ASSUME UNCHANGED <<topic, dead, tardy>>, done'["validation"] = done["validation"]
        PROVE  ValidationInv'
    BY <1>3 DEF ValidationInv, Offsets
  <1>4. CASE Validate
    <2>1. Batch("validation") \subseteq Offsets
      BY DEF Batch
    <2>2. done'["validation"] = planned["validation"]
      BY <1>4 DEF Validate, Basics, Query
    <2> QED
      BY <1>2, <1>4, <2>1, <2>2 DEF Validate
  <1>5. ASSUME NEW q \in Query, Fail(q)
        PROVE  ValidationInv'
    <2>1. CASE q = "scoring"
      BY <1>3, <1>5, <2>1 DEF Fail
    <2>2. CASE q # "scoring"
      <3>1. PICK sent \in SUBSET Batch(q) : dead' = dead \cup Rejections(sent)
                                          /\ tardy' = tardy \cup Tardy(sent)
        BY <1>5, <2>2 DEF Fail
      <3>2. sent \subseteq Offsets /\ UNCHANGED topic /\ done' = done
        BY <1>5, <3>1 DEF Fail, Batch
      <3> QED
        BY <1>2, <3>1, <3>2
    <2> QED
      BY <2>1, <2>2
  <1>6. CASE Score
    <2>1. done'["validation"] = done["validation"]
      BY <1>6 DEF Score, Basics, Query
    <2> QED
      BY <1>3, <1>6, <2>1 DEF Score
  <1>7. CASE \/ \E q \in Query : PlanBatch(q)
             \/ EvictOnly \/ Kill \/ Driver \/ EndRun \/ Restart \/ UNCHANGED vars
    <2>1. UNCHANGED <<topic, dead, tardy, done>>
      BY <1>7 DEF PlanBatch, EvictOnly, Kill, Driver, AwaitAnyTermination, CheckQueries,
                  StopQuery, AwaitTermination, EndRun, Restart, vars, outVars, unchangedByDriver
    <2> QED
      BY <1>3, <2>1
  <1> QED
    BY <1>4, <1>5, <1>6, <1>7 DEF Next

LEMMA DriverStep ==
    ASSUME DriverTypes, FailureExitsNonZero, [Next]_vars
    PROVE  DriverTypes' /\ FailureExitsNonZero'
  <1>0. faults \in 0..MaxFaults /\ MaxFaults \in Nat
    BY ScoringBoundAssumption DEF DriverTypes
  <1>1. ASSUME NEW q \in Query, Fail(q)
        PROVE  DriverTypes' /\ FailureExitsNonZero'
    BY <1>0, <1>1 DEF Fail, Active, driverVars, DriverTypes, FailureExitsNonZero
  <1>2. CASE Kill
    BY <1>0, <1>2 DEF Kill, DriverTypes, FailureExitsNonZero
  <1>3. CASE Driver \/ EndRun
    BY <1>3 DEF Driver, AwaitAnyTermination, CheckQueries, StopQuery, AwaitTermination, EndRun,
                unchangedByDriver, Raises, DriverTypes, FailureExitsNonZero
  <1>4. CASE Restart
    BY <1>4 DEF Restart, DriverTypes, FailureExitsNonZero
  <1>5. CASE \/ \E q \in Query : PlanBatch(q)
             \/ Validate \/ Score \/ EvictOnly \/ UNCHANGED vars
    <2>1. UNCHANGED <<failed, driver, code, stopped, faults>>
      BY <1>5 DEF PlanBatch, Validate, Score, EvictOnly, driverVars, vars
    <2> QED
      BY <2>1 DEF DriverTypes, FailureExitsNonZero
  <1> QED
    BY <1>1, <1>2, <1>3, <1>4, <1>5 DEF Next

-----------------------------------------------------------------------------
(* The invariant *)

LEMMA InitIInv ==
    ASSUME Init
    PROVE  IInv
  <1>1. Len(topic) \in Nat
    BY TopicFacts DEF Init
  <1>2. done["scoring"] = 0 /\ done["validation"] = 0
    BY DEF Init, Query
  <1>3. Basics
    BY <1>1 DEF Init, Basics
  <1>4. RowsKnown /\ EventsKnown /\ WindowsKept /\ ReplaySameEvents /\ WindowNeverRestarts
    BY DEF Init, RowsKnown, EventsKnown, WindowsKept, ReplaySameEvents, WindowNeverRestarts
  <1>5. RowsKept /\ LatestHolds
    BY <1>2 DEF RowsKept, LatestHolds
  <1>6. ValidationInv
    BY <1>2 DEF Init, ValidationInv
  <1>7. DriverTypes /\ FailureExitsNonZero
    BY ScoringBoundAssumption DEF Init, DriverTypes, FailureExitsNonZero
  <1> QED
    BY <1>3, <1>4, <1>5, <1>6, <1>7 DEF IInv, ScoringInv

\* The invariant holds in every reachable state, whatever the topic holds and
\* however many times a query fails, is killed or is started again.
THEOREM Invariance == Spec => []IInv
  <1>1. Init => IInv
    BY InitIInv
  <1>2. IInv /\ [Next]_vars => IInv'
    BY ScoringInvStep, ValidationInvStep, DriverStep DEF IInv, ScoringInv
  <1> QED
    BY <1>1, <1>2, PTL DEF Spec

LEMMA TypeFromIInv ==
    ASSUME IInv
    PROVE  TypeOK
  <1>1. done \in [Query -> 0..Len(topic)]
    <2>1. Len(topic) \in Nat
      BY TopicFacts DEF IInv, ScoringInv, Basics
    <2>2. \A q \in Query : done[q] \in 0..Len(topic)
      BY <2>1 DEF IInv, ScoringInv, Basics
    <2> QED
      BY <2>2 DEF IInv, ScoringInv, Basics
  <1>2. \A q \in Query : planned[q] \in done[q]..Len(topic)
    BY TopicFacts DEF IInv, ScoringInv, Basics
  <1>3. /\ \A d \in dead : d[1] \in Offsets /\ d[2] = DlqReason(topic[d[1]]) /\ d[2] # Null
        /\ \A o \in tardy : Accepted(topic[o]) /\ TooLate(topic[o])
    BY DEF IInv, ValidationInv
  <1>4. \A p \in store \cup dropped : p[1] \in Covering(topic[p[2]].time)
    BY DEF IInv, ScoringInv, RowsKnown, IsRow
  <1>5. \A e \in scored : e.batch <= batch /\ e.rows \subseteq 1..planned["scoring"]
    <2>1. \A e \in scored : /\ e.batch \in Nat /\ e.batch < batch + 1
                             /\ \A o \in e.rows : o \in 1..planned["scoring"]
      BY EventsPast DEF IInv
    <2>2. batch \in Nat
      BY DEF IInv, ScoringInv, Basics
    <2> QED
      BY <2>1, <2>2
  <1>6. topic \in Topics /\ lateMark \in 0..mark
    BY DEF IInv, ScoringInv, Basics
  <1> QED
    BY <1>1, <1>2, <1>3, <1>4, <1>5, <1>6 DEF TypeOK, IInv, DriverTypes

\* Offsets, plans, side topics, windows in state and published events are
\* always of the kinds the two queries keep.
THEOREM TypeCorrect == Spec => []TypeOK
  <1>1. IInv => TypeOK
    BY TypeFromIInv
  <1> QED
    BY <1>1, Invariance, PTL

LEMMA VanishesFromIInv ==
    ASSUME IInv
    PROVE  NothingVanishes
  <1> SUFFICES ASSUME NEW o \in Offsets, \A q \in Query : o <= done[q]
               PROVE  LET routes == {r \in {"dead", "late"} :
                                IF r = "dead" THEN \E d \in dead : d[1] = o ELSE o \in tardy}
                      IN  IF routes # {}
                          THEN Cardinality(routes) = 1 /\ \A e \in scored : o \notin e.rows
                          ELSE \A s \in Covering(topic[o].time) :
                                   \/ <<s, o>> \in dropped
                                   \/ \E e \in Latest(topic[o].machine, s) : o \in e.rows
    BY DEF NothingVanishes
  <1> DEFINE onDead == \E d \in dead : d[1] = o
             routes == {r \in {"dead", "late"} : IF r = "dead" THEN onDead ELSE o \in tardy}
  <1>1. o \in 1..done["validation"] /\ o \in 1..done["scoring"]
    BY TopicFacts DEF IInv, ScoringInv, Basics, Query
  <1>2. onDead <=> ~Accepted(topic[o])
    BY <1>1 DEF IInv, ValidationInv, Accepted
  <1>3. o \in tardy <=> Accepted(topic[o]) /\ TooLate(topic[o])
    BY <1>1 DEF IInv, ValidationInv
  <1>4. OnTime(topic[o]) <=> ~TooLate(topic[o])
    BY OnTimeOrLate DEF IInv, ScoringInv, Basics
  <1>5. CASE Scorable(o)
    <2>1. routes = {}
      BY <1>2, <1>3, <1>4, <1>5 DEF Scorable
    <2>2. \A s \in Covering(topic[o].time) :
             <<s, o>> \in dropped \/ \E e \in Latest(topic[o].machine, s) : o \in e.rows
      BY <1>1, <1>5 DEF IInv, ScoringInv, LatestHolds
    <2> QED
      BY <2>1, <2>2
  <1>6. CASE ~Scorable(o)
    <2>1. routes = {"dead"} \/ routes = {"late"}
      BY <1>2, <1>3, <1>4, <1>6 DEF Scorable
    <2>2. Cardinality(routes) = 1
      BY <2>1, FS_Singleton
    <2>3. \A e \in scored : o \notin e.rows
      BY <1>6, EventsPast DEF IInv
    <2> QED
      BY <2>1, <2>2, <2>3
  <1> QED
    BY <1>5, <1>6

\* Between the two queries no message is lost and none is routed twice,
\* whatever the batches each was cut into and whatever failed.
THEOREM NothingLost == Spec => []NothingVanishes
  <1>1. IInv => NothingVanishes
    BY VanishesFromIInv
  <1> QED
    BY <1>1, Invariance, PTL

\* A later event of a window holds more rows than an earlier one: eviction
\* never comes before the last row that the watermark admits.
THEOREM WindowsGrow == Spec => []WindowNeverRestarts
  <1>1. IInv => WindowNeverRestarts
    BY DEF IInv, ScoringInv
  <1> QED
    BY <1>1, Invariance, PTL

\* A batch that runs again sends the very events it sent before.
THEOREM Replayed == Spec => []ReplaySameEvents
  <1>1. IInv => ReplaySameEvents
    BY DEF IInv, ScoringInv
  <1> QED
    BY <1>1, Invariance, PTL

\* A job in which a query failed never reports success.
THEOREM FailureShown == Spec => []FailureExitsNonZero
  <1>1. IInv => FailureExitsNonZero
    BY DEF IInv
  <1> QED
    BY <1>1, Invariance, PTL

-----------------------------------------------------------------------------
(* The windows of a sample *)

\* Multiples of a positive number.
LEMMA Multiples ==
    ASSUME NEW d \in Nat \ {0}
    PROVE  /\ \A a \in Int : a \div d \in Int /\ a % d \in 0..(d - 1)
           /\ \A a \in Int : a = d * (a \div d) + (a % d)
           /\ \A a \in Int : (d * a) % d = 0
           /\ \A a, b \in Int : d * a < d * b <=> a < b
<1>1. ASSUME NEW a \in Int
      PROVE  a \div d \in Int /\ a % d \in 0..(d - 1)
  OBVIOUS
<1>2. ASSUME NEW a \in Int
      PROVE  a = d * (a \div d) + (a % d)
  OBVIOUS
<1>3. ASSUME NEW a \in Int
      PROVE  (d * a) % d = 0
  OBVIOUS
<1>4. ASSUME NEW a \in Int, NEW b \in Int
      PROVE  d * a < d * b <=> a < b
  OBVIOUS
<1> QED
  BY <1>1, <1>2, <1>3, <1>4

\* Spark's window(...) and assign_windows put a sample into the same windows,
\* whatever its instant.
THEOREM WindowsAgree == \A t \in Int : Covering(t) = Assigned(t, WindowLen, Slide)
<1> SUFFICES ASSUME NEW t \in Int
             PROVE  Covering(t) = Assigned(t, WindowLen, Slide)
  OBVIOUS
<1> DEFINE slot == t \div Slide
           n == WindowLen \div Slide
<1>1. Slide \in Nat \ {0} /\ WindowLen \in Nat \ {0} /\ WindowLen % Slide = 0
  BY ContractAssumption DEF ContractAssumption
<1>2. /\ slot \in Int /\ n \in Int /\ WindowLen = Slide * n
      /\ t % Slide \in 0..(Slide - 1) /\ t = Slide * slot + (t % Slide)
  <2>1. slot \in Int /\ t % Slide \in 0..(Slide - 1) /\ t = Slide * slot + (t % Slide)
    BY <1>1, Multiples
  <2>2. WindowLen \in Int /\ n \in Int /\ WindowLen = Slide * n + 0
    BY <1>1, Multiples
  <2>3. Slide * n \in Int
    BY <1>1, <2>2
  <2> QED
    BY <2>1, <2>2, <2>3
<1> HIDE DEF slot, n
<1>3. /\ \A k \in Int : Slide * (slot - k) = slot * Slide - k * Slide
      /\ Slide * (slot + 1) = Slide * slot + Slide
      /\ Slide * (slot - n) = Slide * slot - WindowLen
  BY <1>1, <1>2
<1>4. ASSUME NEW h \in Int
      PROVE  Slide * h \in (t - WindowLen + 1)..t <=> h <= slot /\ h > slot - n
  <2>1. Slide * h \in Int /\ Slide * slot \in Int /\ slot - n \in Int /\ slot + 1 \in Int
    BY <1>1, <1>2
  <2>2. Slide * h <= t <=> h <= slot
    <3>1. Slide * h < Slide * (slot + 1) <=> h < slot + 1
      BY <1>1, <2>1, Multiples
    <3>2. Slide * slot < Slide * h <=> slot < h
      BY <1>1, <1>2, <2>1, Multiples
    <3> HIDE DEF slot
    <3> QED
      BY <1>1, <1>2, <1>3, <2>1, <3>1, <3>2
  <2>3. t - WindowLen < Slide * h <=> slot - n < h
    <3>1. Slide * (slot - n) < Slide * h <=> slot - n < h
      BY <1>1, <2>1, Multiples
    <3>2. slot - n < h => Slide * (slot + 1) - WindowLen <= Slide * h
      <4>1. Slide * (slot - n + 1) = Slide * (slot + 1) - WindowLen /\ slot - n + 1 \in Int
        BY <1>1, <1>2, <1>3
      <4>2. Slide * h < Slide * (slot - n + 1) <=> h < slot - n + 1
        BY <1>1, <4>1, Multiples
      <4> QED
        BY <1>1, <1>2, <1>3, <2>1, <4>1, <4>2
    <3> QED
      BY <1>1, <1>2, <1>3, <2>1, <3>1, <3>2
  <2> QED
    BY <1>1, <2>1, <2>2, <2>3
<1>5. ASSUME NEW s \in Covering(t)
      PROVE  s \in Assigned(t, WindowLen, Slide)
  <2>1. s \in Int /\ s \in (t - WindowLen + 1)..t /\ s % Slide = 0
    BY <1>1 DEF Covering
  <2>2. PICK h \in Int : s = Slide * h
    <3> DEFINE h == s \div Slide
    <3>1. h \in Int /\ s = Slide * h + 0
      BY <1>1, <2>1, Multiples
    <3> HIDE DEF h
    <3>2. s = Slide * h
      BY <1>1, <3>1
    <3> QED
      BY <3>1, <3>2
  <2>3. h <= slot /\ h > slot - n
    BY <1>4, <2>1, <2>2
  <2>4. slot - h \in 0..(n - 1) /\ s = slot * Slide - (slot - h) * Slide
    BY <1>1, <1>2, <2>2, <2>3
  <2> QED
    BY <2>4 DEF Assigned, slot, n
<1>6. ASSUME NEW s \in Assigned(t, WindowLen, Slide)
      PROVE  s \in Covering(t)
  <2>1. PICK k \in 0..(n - 1) : s = slot * Slide - k * Slide
    BY DEF Assigned, slot, n
  <2>2. slot - k \in Int /\ slot - k <= slot /\ slot - k > slot - n /\ s = Slide * (slot - k)
    BY <1>2, <1>3, <2>1
  <2>3. s \in (t - WindowLen + 1)..t
    BY <1>4, <2>2
  <2>4. s % Slide = 0
    BY <1>1, <2>2, Multiples
  <2> QED
    BY <2>3, <2>4 DEF Covering
<1> QED
  BY <1>5, <1>6

-----------------------------------------------------------------------------
(* Rows in order *)

\* A strict order of a finite set, given by what is before an element.
Orders(before, S) ==
    /\ before \in [S -> SUBSET S]
    /\ \A i \in S : i \notin before[i]
    /\ \A i, j \in S : i # j => i \in before[j] \/ j \in before[i]
    /\ \A i, j, k \in S : i \in before[j] /\ j \in before[k] => i \in before[k]

Ascending(f, before) == \A k, n \in DOMAIN f : k < n => f[k] \in before[f[n]]

\* A function that lists a set in ascending order lists every element once.
LEMMA AscendingIsBijection ==
    ASSUME NEW S, IsFiniteSet(S), NEW before, Orders(before, S),
           NEW f \in [1..Cardinality(S) -> S], Ascending(f, before)
    PROVE  f \in Bijection(1..Cardinality(S), S)
  <1>1. Cardinality(S) \in Nat
    BY FS_CardinalityType
  <1>2. ASSUME NEW k \in 1..Cardinality(S), NEW n \in 1..Cardinality(S), f[k] = f[n]
        PROVE  k = n
    <2>1. ~(k < n) /\ ~(n < k)
      BY <1>2 DEF Ascending, Orders
    <2> QED
      BY <1>1, <2>1
  <1>3. f \in Injection(1..Cardinality(S), S)
    BY <1>2 DEF Injection, IsInjective
  <1>4. Cardinality(1..Cardinality(S)) = Cardinality(S)
    BY <1>1, FS_Interval
  <1> HIDE DEF Orders
  <1>5. f \in Surjection(1..Cardinality(S), S)
    BY <1>3, <1>4, FS_Injection
  <1> QED
    BY <1>3, <1>5 DEF Bijection

\* There is such a list: the inverse of the rank.
LEMMA AscendingExists ==
    ASSUME NEW S, IsFiniteSet(S), NEW before, Orders(before, S)
    PROVE  \E f \in [1..Cardinality(S) -> S] : Ascending(f, before)
  <1> DEFINE N == Cardinality(S)
             rank == [i \in S |-> Cardinality(before[i]) + 1]
  <1>1. N \in Nat
    BY FS_CardinalityType
  <1>2. \A i \in S : before[i] \subseteq S /\ before[i] # S
    BY DEF Orders
  <1>3. \A i \in S : IsFiniteSet(before[i]) /\ Cardinality(before[i]) \in Nat
    BY <1>2, FS_Subset, FS_CardinalityType
  <1>4. \A i \in S : Cardinality(before[i]) < N
    <2>1. \A i \in S : Cardinality(before[i]) <= N /\ Cardinality(before[i]) # N
      BY <1>2, FS_Subset
    <2> QED
      BY <1>1, <1>3, <2>1
  <1>5. rank \in [S -> 1..N]
    BY <1>1, <1>3, <1>4
  <1>6. ASSUME NEW i \in S, NEW j \in S, i \in before[j]
        PROVE  rank[i] < rank[j]
    <2>1. before[i] \in SUBSET before[j]
      BY <1>2, <1>6 DEF Orders
    <2>2. before[i] # before[j]
      BY <1>6 DEF Orders
    <2>3. Cardinality(before[i]) <= Cardinality(before[j]) /\ Cardinality(before[i]) # Cardinality(before[j])
      BY <1>3, <2>1, <2>2, FS_Subset
    <2> QED
      BY <1>3, <2>3
  <1>7. rank \in Injection(S, 1..N)
    <2>1. ASSUME NEW i \in S, NEW j \in S, rank[i] = rank[j] PROVE i = j
      <3>1. \A x \in S : rank[x] \in Nat
        BY <1>1, <1>5
      <3> HIDE DEF rank
      <3>2. i \notin before[j] /\ j \notin before[i]
        BY <1>6, <2>1, <3>1
      <3> QED
        BY <3>2 DEF Orders
    <2> HIDE DEF rank
    <2> QED
      BY <1>5, <2>1 DEF Injection, IsInjective
  <1>8. rank \in Surjection(S, 1..N)
    <2>1. IsFiniteSet(1..N) /\ Cardinality(1..N) = N
      BY <1>1, FS_Interval
    <2> HIDE DEF rank
    <2> QED
      BY <1>7, <2>1, FS_Injection
  <1> DEFINE f == [k \in 1..N |-> CHOOSE i \in S : rank[i] = k]
  <1>9. \A k \in 1..N : f[k] \in S /\ rank[f[k]] = k
    <2> HIDE DEF rank, N
    <2> QED
      BY <1>8 DEF Surjection
  <1>10. ASSUME NEW k \in 1..N, NEW n \in 1..N, k < n PROVE f[k] \in before[f[n]]
    <2> HIDE DEF rank, f
    <2>1. f[k] # f[n]
      BY <1>1, <1>9, <1>10
    <2>2. f[n] \notin before[f[k]]
      BY <1>1, <1>6, <1>9, <1>10
    <2> QED
      BY <1>9, <2>1, <2>2 DEF Orders
  <1>11. f \in [1..N -> S]
    BY <1>9
  <1> HIDE DEF f
  <1> QED
    BY <1>10, <1>11 DEF Ascending

LEMMA SubsequenceIs ==
    ASSUME NEW rows, NEW P \in SUBSET Int, IsFiniteSet(P)
    PROVE  \E f \in Bijection(1..Cardinality(P), P) :
               /\ \A k, n \in 1..Cardinality(P) : k < n => f[k] < f[n]
               /\ Subsequence(rows, P) = [k \in 1..Cardinality(P) |-> rows[f[k]]]
  <1> DEFINE before == [i \in P |-> {j \in P : j < i}]
             N == Cardinality(P)
             good(f) == \A k, n \in 1..N : k < n => f[k] \in before[f[n]]
             at == CHOOSE f \in [1..N -> P] : good(f)
  <1>1. Orders(before, P)
    BY DEF Orders
  <1>2. \E f \in [1..N -> P] : good(f)
    <2>1. PICK f \in [1..N -> P] : Ascending(f, before)
      BY <1>1, AscendingExists
    <2>2. good(f)
      BY <2>1 DEF Ascending
    <2> QED
      BY <2>2
  <1>3. at \in [1..N -> P] /\ good(at)
    <2> HIDE DEF good
    <2> QED
      BY <1>2
  <1>4. Subsequence(rows, P) = [k \in 1..N |-> rows[at[k]]]
    BY DEF Subsequence, Arranged
  <1>5. Ascending(at, before)
    <2> HIDE DEF at
    <2> QED
      BY <1>3 DEF Ascending
  <1>6. \A k, n \in 1..N : k < n => at[k] < at[n]
    <2> SUFFICES ASSUME NEW k \in 1..N, NEW n \in 1..N, k < n
                 PROVE  at[k] < at[n]
      OBVIOUS
    <2> HIDE DEF at, N
    <2>1. at[k] \in before[at[n]] /\ at[n] \in P
      BY <1>3
    <2> QED
      BY <2>1
  <1> HIDE DEF at, before
  <1>7. at \in Bijection(1..N, P)
    BY <1>1, <1>3, <1>5, AscendingIsBijection
  <1> QED
    BY <1>6, <1>4, <1>7

LEMMA ByTimeIs ==
    ASSUME NEW rows, rows \in Seq(Range(rows)), \A m \in Range(rows) : m.time \in Int
    PROVE  \E f \in Bijection(1..Len(rows), 1..Len(rows)) :
               /\ \A k, n \in 1..Len(rows) : k < n => rows[f[k]].time <= rows[f[n]].time
               /\ ByTime(rows) = [k \in 1..Len(rows) |-> rows[f[k]]]
  <1> DEFINE P == 1..Len(rows)
             first(j, i) == rows[j].time < rows[i].time \/ (rows[j].time = rows[i].time /\ j < i)
             before == [i \in P |-> {j \in P : first(j, i)}]
             N == Cardinality(P)
             good(f) == \A k, n \in 1..N : k < n => f[k] \in before[f[n]]
             at == CHOOSE f \in [1..N -> P] : good(f)
  <1>0. /\ Len(rows) \in Nat /\ DOMAIN rows = P /\ N = Len(rows) /\ IsFiniteSet(P)
        /\ \A i \in P : rows[i].time \in Int
    <2>1. Len(rows) \in Nat /\ DOMAIN rows = P
      OBVIOUS
    <2>2. \A i \in P : rows[i] \in Range(rows)
      BY <2>1 DEF Range
    <2>3. IsFiniteSet(P) /\ N = Len(rows)
      <3>1. IsFiniteSet(1..Len(rows)) /\ Cardinality(1..Len(rows)) =
                IF 1 > Len(rows) THEN 0 ELSE Len(rows) - 1 + 1
        BY <2>1, FS_Interval
      <3> QED
        BY <2>1, <3>1
    <2> QED
      BY <2>1, <2>2, <2>3
  <1>1. Orders(before, P)
    BY <1>0 DEF Orders
  <1>2. \E f \in [1..N -> P] : good(f)
    <2>1. PICK f \in [1..N -> P] : Ascending(f, before)
      BY <1>0, <1>1, AscendingExists
    <2> HIDE DEF first, N
    <2>2. good(f)
      BY <2>1 DEF Ascending
    <2> QED
      BY <2>2
  <1>3. at \in [1..N -> P] /\ good(at)
    <2> HIDE DEF good
    <2> QED
      BY <1>2
  <1>4. ByTime(rows) = [k \in 1..N |-> rows[at[k]]]
    BY <1>0 DEF ByTime, Arranged
  <1>5. Ascending(at, before)
    <2> HIDE DEF at, first, N
    <2> QED
      BY <1>3 DEF Ascending
  <1> HIDE DEF at, before
  <1>6. at \in Bijection(1..N, P)
    BY <1>0, <1>1, <1>3, <1>5, AscendingIsBijection
  <1>7. \A k, n \in 1..N : k < n => rows[at[k]].time <= rows[at[n]].time
    <2> SUFFICES ASSUME NEW k \in 1..N, NEW n \in 1..N, k < n
                 PROVE  rows[at[k]].time <= rows[at[n]].time
      OBVIOUS
    <2>1. at[k] \in before[at[n]]
      BY <1>3
    <2>2. at[k] \in P /\ at[n] \in P
      BY <1>3
    <2>3. rows[at[k]].time \in Int /\ rows[at[n]].time \in Int
      BY <1>0, <2>2
    <2>4. first(at[k], at[n])
      BY <2>1, <2>2 DEF before
    <2> QED
      BY <2>3, <2>4
  <1> QED
    BY <1>0, <1>4, <1>6, <1>7
-----------------------------------------------------------------------------
(* Sums: the folds of the features *)

LEMMA CountUp ==
    ASSUME NEW G, 0 \in G, \A n \in Nat : n \in G => n + 1 \in G
    PROVE  Nat \subseteq G
  <1> DEFINE B == Nat \ G
  <1>1. SUFFICES ASSUME B # {} PROVE FALSE
    OBVIOUS
  <1>2. PICK n \in B : \A k \in B : <<k, n>> \notin OpToRel(<, Nat)
    <2>1. B \subseteq Nat
      OBVIOUS
    <2> HIDE DEF B
    <2> QED
      BY <1>1, <2>1, NatLessThanWellFounded, WFMin
  <1>3. n \in Nat /\ n # 0 /\ n - 1 \in Nat /\ (n - 1) + 1 = n
    OBVIOUS
  <1>4. n - 1 \notin G
    BY <1>3
  <1>5. n - 1 \in B /\ n - 1 < n
    BY <1>3, <1>4
  <1>6. <<n - 1, n>> \in OpToRel(<, Nat)
    BY <1>3, <1>5 DEF OpToRel
  <1> QED
    BY <1>2, <1>5, <1>6

LEMMA LeastSubset ==
    ASSUME NEW S, IsFiniteSet(S), NEW B, B \subseteq SUBSET S, B # {}
    PROVE  \E s \in B : \A u \in B : u \subseteq s => u = s
  <1> DEFINE R == StrictSubsetOrdering(S)
  <1>1. IsWellFoundedOn(R, FiniteSubsetsOf(S))
    BY FS_StrictSubsetOrderingWellFounded
  <1>2. B \subseteq FiniteSubsetsOf(S)
    BY FS_FiniteSubsetsOfFinite
  <1> HIDE DEF R
  <1>3. PICK s \in B : \A u \in B : <<u, s>> \notin R
    BY <1>1, <1>2, WFMin
  <1>4. \A u \in B : u \subseteq s => u = s
    BY <1>3 DEF R, StrictSubsetOrdering
  <1> QED
    BY <1>4

Numbers(g, S) == \A x \in S : g[x] \in Int

Some(s) == CHOOSE x \in s : TRUE

\* The function MapThenFoldSet computes a sum with.
Sums(iter, g, S) ==
    iter = [s \in SUBSET S |-> IF s = {} THEN 0 ELSE g[Some(s)] + iter[s \ {Some(s)}]]

IsSum(v, g, S) == \E iter : Sums(iter, g, S) /\ v = iter[S]

LEMMA SumsExist ==
    ASSUME NEW S, IsFiniteSet(S), NEW g
    PROVE  \E iter : Sums(iter, g, S)
  <1> DEFINE Small(n) == {s \in SUBSET S : Cardinality(s) <= n}
             Step(it, s) == IF s = {} THEN 0 ELSE g[Some(s)] + it[s \ {Some(s)}]
             G == {n \in Nat : \E it : it = [s \in Small(n) |-> Step(it, s)]}
  <1>0. \A s \in SUBSET S : IsFiniteSet(s) /\ Cardinality(s) \in Nat /\ (Cardinality(s) = 0 <=> s = {})
    BY FS_Subset, FS_CardinalityType, FS_EmptySet
  <1>1. 0 \in G
    <2> DEFINE it == [s \in Small(0) |-> 0]
    <2>1. \A s \in Small(0) : s = {}
      BY <1>0
    <2>2. it = [s \in Small(0) |-> Step(it, s)]
      BY <2>1
    <2> QED
      BY <2>2
  <1>2. ASSUME NEW n \in Nat, n \in G PROVE n + 1 \in G
    <2>1. PICK it : it = [s \in Small(n) |-> Step(it, s)]
      BY <1>2
    <2> DEFINE next == [s \in Small(n + 1) |-> IF Cardinality(s) <= n THEN it[s] ELSE Step(it, s)]
    <2>2. ASSUME NEW s \in Small(n + 1) PROVE next[s] = Step(next, s)
      <3>1. CASE s = {}
        <4>1. s \in Small(n) /\ Cardinality(s) <= n
          BY <1>0, <3>1
        <4> QED
          BY <2>1, <3>1, <4>1
      <3>2. CASE s # {}
        <4> DEFINE r == s \ {Some(s)}
        <4>1. Some(s) \in s
          BY <3>2 DEF Some
        <4>2. Cardinality(r) = Cardinality(s) - 1 /\ r \in SUBSET S
          BY <1>0, <4>1, FS_RemoveElement
        <4>3. r \in Small(n) /\ r \in Small(n + 1) /\ Cardinality(r) <= n
          BY <1>0, <4>2
        <4>4. next[r] = it[r]
          BY <4>3
        <4>5. Step(next, s) = Step(it, s)
          BY <3>2, <4>4
        <4>6. Cardinality(s) <= n => it[s] = Step(it, s)
          <5>1. Cardinality(s) <= n => s \in Small(n)
            OBVIOUS
          <5> HIDE DEF Step, Small
          <5> QED
            BY <2>1, <5>1
        <4> HIDE DEF Step
        <4> QED
          BY <4>5, <4>6
      <3> QED
        BY <3>1, <3>2
    <2>3. next = [s \in Small(n + 1) |-> Step(next, s)]
      <3>1. next = [s \in Small(n + 1) |-> next[s]]
        OBVIOUS
      <3> HIDE DEF next, Small, Step
      <3> QED
        BY <2>2, <3>1
    <2>4. n + 1 \in Nat
      OBVIOUS
    <2> HIDE DEF next
    <2> QED
      BY <2>3, <2>4
  <1>3. Cardinality(S) \in G
    <2> HIDE DEF G
    <2>1. Nat \subseteq G
      BY <1>1, <1>2, CountUp
    <2> QED
      BY <1>0, <2>1
  <1>4. Small(Cardinality(S)) = SUBSET S
    BY FS_Subset
  <1>5. PICK it : it = [s \in SUBSET S |-> Step(it, s)]
    BY <1>3, <1>4
  <1> QED
    BY <1>5 DEF Sums

\* The order in which the elements are taken does not matter.
LEMMA SumsStep ==
    ASSUME NEW S, IsFiniteSet(S), NEW g, Numbers(g, S),
           NEW iter, Sums(iter, g, S)
    PROVE  /\ iter[{}] = 0
           /\ \A s \in SUBSET S : iter[s] \in Int
           /\ \A s \in SUBSET S : \A x \in s : iter[s] = g[x] + iter[s \ {x}]
  <1>1. iter[{}] = 0
    BY DEF Sums
  <1>2. \A s \in SUBSET S : s # {} =>
            Some(s) \in s /\ iter[s] = g[Some(s)] + iter[s \ {Some(s)}]
    BY DEF Sums, Some
  <1>3. \A s \in SUBSET S : iter[s] \in Int
    <2> DEFINE B == {s \in SUBSET S : iter[s] \notin Int}
    <2>1. SUFFICES ASSUME B # {} PROVE FALSE
      OBVIOUS
    <2>2. PICK s \in B : \A u \in B : u \subseteq s => u = s
      <3>1. B \subseteq SUBSET S
        OBVIOUS
      <3> HIDE DEF B
      <3> QED
        BY <2>1, <3>1, LeastSubset
    <2>3. s # {}
      BY <1>1
    <2>4. s \ {Some(s)} \notin B
      BY <1>2, <2>2, <2>3
    <2>5. iter[s \ {Some(s)}] \in Int /\ g[Some(s)] \in Int
      BY <1>2, <2>3, <2>4 DEF Numbers
    <2> DEFINE r == iter[s \ {Some(s)}]
    <2>6. iter[s] = g[Some(s)] + r /\ r \in Int
      BY <1>2, <2>3, <2>5
    <2>7. iter[s] \in Int
      <3> HIDE DEF r
      <3> QED
        BY <2>5, <2>6
    <2> QED
      BY <2>7
  <1>4. \A s \in SUBSET S : \A x \in s : iter[s] = g[x] + iter[s \ {x}]
    <2> DEFINE B == {s \in SUBSET S : \E x \in s : iter[s] # g[x] + iter[s \ {x}]}
    <2>1. SUFFICES ASSUME B # {} PROVE FALSE
      OBVIOUS
    <2>2. PICK s \in B : \A u \in B : u \subseteq s => u = s
      <3>1. B \subseteq SUBSET S
        OBVIOUS
      <3> HIDE DEF B
      <3> QED
        BY <2>1, <3>1, LeastSubset
    <2>3. PICK x \in s : iter[s] # g[x] + iter[s \ {x}]
      OBVIOUS
    <2> DEFINE c == Some(s)
    <2>4. c \in s /\ iter[s] = g[c] + iter[s \ {c}] /\ c # x
      BY <1>2, <2>3
    <2>5. s \ {c} \notin B /\ s \ {x} \notin B
      BY <2>2, <2>3, <2>4
    <2> HIDE DEF c
    <2>6. iter[s \ {c}] = g[x] + iter[(s \ {c}) \ {x}]
      BY <2>4, <2>5
    <2>7. iter[s \ {x}] = g[c] + iter[(s \ {x}) \ {c}]
      BY <2>4, <2>5
    <2>8. (s \ {c}) \ {x} = (s \ {x}) \ {c}
      OBVIOUS
    <2>9. g[x] \in Int /\ g[c] \in Int /\ iter[(s \ {x}) \ {c}] \in Int
      BY <1>3, <2>4 DEF Numbers
    <2> DEFINE r == iter[(s \ {x}) \ {c}]
    <2>10. iter[s] = g[c] + (g[x] + r) /\ iter[s] # g[x] + (g[c] + r)
      BY <2>3, <2>4, <2>6, <2>7, <2>8
    <2>11. r \in Int
      BY <2>9
    <2> HIDE DEF B, r
    <2> QED
      BY <2>9, <2>10, <2>11
  <1> QED
    BY <1>1, <1>3, <1>4

LEMMA SumFacts ==
    ASSUME NEW S, IsFiniteSet(S), NEW g, Numbers(g, S), NEW v, IsSum(v, g, S)
    PROVE  v \in Int /\ ((\A x \in S : g[x] >= 0) => v >= 0)
  <1>1. PICK iter : Sums(iter, g, S) /\ v = iter[S]
    BY DEF IsSum
  <1>3. /\ iter[{}] = 0
        /\ \A s \in SUBSET S : iter[s] \in Int
        /\ \A s \in SUBSET S : \A x \in s : iter[s] = g[x] + iter[s \ {x}]
    BY <1>1, SumsStep
  <1>4. ASSUME \A x \in S : g[x] >= 0 PROVE \A s \in SUBSET S : iter[s] >= 0
    <2> DEFINE B == {s \in SUBSET S : ~(iter[s] >= 0)}
    <2>1. SUFFICES ASSUME B # {} PROVE FALSE
      OBVIOUS
    <2>2. PICK s \in B : \A u \in B : u \subseteq s => u = s
      <3>1. B \subseteq SUBSET S
        OBVIOUS
      <3> HIDE DEF B
      <3> QED
        BY <2>1, <3>1, LeastSubset
    <2>3. PICK x \in s : TRUE
      <3>1. iter[{}] >= 0
        BY <1>3
      <3> QED
        BY <3>1
    <2>4. s \ {x} \notin B
      BY <2>2, <2>3
    <2>5. iter[s] = g[x] + iter[s \ {x}] /\ iter[s \ {x}] \in Int /\ iter[s \ {x}] >= 0 /\ g[x] \in Int
      BY <1>3, <2>4 DEF Numbers
    <2> QED
      BY <1>4, <2>5
  <1> QED
    BY <1>1, <1>3, <1>4

SameUnder(q, S, f, g) == \A x \in S : f[x] = g[q[x]]

LEMMA SumRearranged ==
    ASSUME NEW S, NEW T, IsFiniteSet(S), NEW q \in Bijection(S, T),
           NEW f, NEW g, Numbers(f, S), SameUnder(q, S, f, g),
           NEW v, IsSum(v, f, S), NEW w, IsSum(w, g, T)
    PROVE  v = w
  <1>1. /\ q \in [S -> T]
        /\ \A x, y \in S : q[x] = q[y] => x = y
        /\ \A t \in T : \E x \in S : q[x] = t
    BY DEF Bijection, Injection, Surjection, IsInjective
  <1>2. IsFiniteSet(T)
    BY FS_Surjection DEF Bijection
  <1>3. Numbers(f, S) /\ Numbers(g, T)
    BY <1>1 DEF Numbers, SameUnder
  <1>4a. PICK a : Sums(a, f, S) /\ v = a[S]
    BY DEF IsSum
  <1>4b. PICK b : Sums(b, g, T) /\ w = b[T]
    BY DEF IsSum
  <1>4. Sums(a, f, S) /\ Sums(b, g, T) /\ v = a[S] /\ w = b[T]
    BY <1>4a, <1>4b
  <1>5. /\ a[{}] = 0
        /\ \A s \in SUBSET S : \A x \in s : a[s] = f[x] + a[s \ {x}]
    BY <1>3, <1>4, SumsStep
  <1>6. /\ b[{}] = 0
        /\ \A s \in SUBSET T : \A x \in s : b[s] = g[x] + b[s \ {x}]
    <2>1. IsFiniteSet(T)
      BY <1>2
    <2>2. Numbers(g, T)
      BY <1>3
    <2>3. Sums(b, g, T)
      BY <1>4
    <2> QED
      BY ONLY <2>1, <2>2, <2>3, SumsStep
  <1> DEFINE Image(s) == {q[x] : x \in s}
             B == {s \in SUBSET S : a[s] # b[Image(s)]}
  <1>7. B = {}
    <2>1. SUFFICES ASSUME B # {} PROVE FALSE
      OBVIOUS
    <2>2. PICK s \in B : \A u \in B : u \subseteq s => u = s
      <3>1. B \subseteq SUBSET S
        OBVIOUS
      <3> HIDE DEF B
      <3> QED
        BY <2>1, <3>1, LeastSubset
    <2>3. s # {}
      BY <1>5, <1>6
    <2>4. PICK x \in s : TRUE
      BY <2>3
    <2>5. s \ {x} \notin B
      BY <2>2, <2>4
    <2>6. a[s \ {x}] = b[Image(s \ {x})]
      BY <2>5
    <2>7. Image(s \ {x}) = Image(s) \ {q[x]}
      BY <1>1, <2>4
    <2>8. Image(s) \in SUBSET T /\ q[x] \in Image(s)
      BY <1>1
    <2>9. b[Image(s)] = g[q[x]] + b[Image(s) \ {q[x]}]
      <3> HIDE DEF Image
      <3> QED
        BY <1>6, <2>8
    <2>10. a[s] = f[x] + a[s \ {x}] /\ f[x] = g[q[x]]
      BY <1>5, <2>4 DEF SameUnder
    <2>11. a[s] = b[Image(s)]
      <3> HIDE DEF Image, B
      <3> QED
        BY <2>6, <2>7, <2>9, <2>10
    <2> QED
      BY <2>11
  <1>8. Image(S) = T
    BY <1>1
  <1> HIDE DEF Image
  <1> QED
    BY <1>4, <1>7, <1>8
-----------------------------------------------------------------------------
(* Rows in another order *)

Rearranged(a, b) ==
    \E q \in Bijection(DOMAIN a, DOMAIN b) : \A i \in DOMAIN a : a[i] = b[q[i]]

LEMMA BijectionFacts ==
    ASSUME NEW S, NEW T, NEW f
    PROVE  f \in Bijection(S, T) <=>
               /\ f \in [S -> T]
               /\ \A x, y \in S : f[x] = f[y] => x = y
               /\ \A t \in T : \E x \in S : f[x] = t
  BY DEF Bijection, Injection, Surjection, IsInjective

\* The rows at some positions: how many, which, in which order.
LEMMA SubsequenceFacts ==
    ASSUME NEW rows, NEW P \in SUBSET Int, IsFiniteSet(P)
    PROVE  /\ Cardinality(P) \in Nat
           /\ DOMAIN Subsequence(rows, P) = 1..Cardinality(P)
           /\ Len(Subsequence(rows, P)) = Cardinality(P)
           /\ Subsequence(rows, P) \in Seq(Range(Subsequence(rows, P)))
           /\ Range(Subsequence(rows, P)) = {rows[i] : i \in P}
  <1>1. PICK f \in Bijection(1..Cardinality(P), P) :
               Subsequence(rows, P) = [k \in 1..Cardinality(P) |-> rows[f[k]]]
    BY SubsequenceIs
  <1>2. Cardinality(P) \in Nat
    BY FS_CardinalityType
  <1>3. /\ f \in [1..Cardinality(P) -> P]
        /\ \A t \in P : \E x \in 1..Cardinality(P) : f[x] = t
    BY DEF Bijection, Injection, Surjection, IsInjective
  <1> DEFINE s == Subsequence(rows, P)
  <1>4. DOMAIN s = 1..Cardinality(P) /\ \A k \in 1..Cardinality(P) : s[k] = rows[f[k]]
    BY <1>1
  <1>5. s = [k \in 1..Cardinality(P) |-> s[k]]
    BY <1>1
  <1> HIDE DEF s
  <1>6. Range(s) = {rows[i] : i \in P}
    BY <1>3, <1>4 DEF Range
  <1>7. \A k \in 1..Cardinality(P) : s[k] \in Range(s)
    BY <1>4 DEF Range
  <1>8. s \in Seq(Range(s)) /\ Len(s) = Cardinality(P)
    BY <1>2, <1>5, <1>7
  <1> QED
    BY <1>2, <1>4, <1>6, <1>8 DEF s

\* The rows a filter lets through are rearranged when all of them are.
LEMMA FilteredRearranged ==
    ASSUME NEW a, NEW b, NEW M, Rearranged(a, b),
           DOMAIN a \subseteq Int, IsFiniteSet(DOMAIN a), DOMAIN b \subseteq Int
    PROVE  Rearranged(Subsequence(a, {i \in DOMAIN a : a[i] \in M}),
                      Subsequence(b, {i \in DOMAIN b : b[i] \in M}))
  <1> DEFINE P == {i \in DOMAIN a : a[i] \in M}
             Q == {i \in DOMAIN b : b[i] \in M}
             m == Cardinality(P)
             n == Cardinality(Q)
  <1>1. PICK q \in Bijection(DOMAIN a, DOMAIN b) : \A i \in DOMAIN a : a[i] = b[q[i]]
    BY DEF Rearranged
  <1>2. /\ q \in [DOMAIN a -> DOMAIN b]
        /\ \A x, y \in DOMAIN a : q[x] = q[y] => x = y
        /\ \A t \in DOMAIN b : \E x \in DOMAIN a : q[x] = t
    BY BijectionFacts
  <1>3. IsFiniteSet(DOMAIN b)
    BY FS_Surjection DEF Bijection
  <1>4. P \in SUBSET Int /\ IsFiniteSet(P) /\ Q \in SUBSET Int /\ IsFiniteSet(Q)
    BY <1>3, FS_Subset
  <1>5. PICK f \in Bijection(1..m, P) : Subsequence(a, P) = [k \in 1..m |-> a[f[k]]]
    <2> HIDE DEF P
    <2> QED
      BY <1>4, SubsequenceIs
  <1>6. PICK g \in Bijection(1..n, Q) : Subsequence(b, Q) = [k \in 1..n |-> b[g[k]]]
    <2> HIDE DEF Q
    <2> QED
      BY <1>4, SubsequenceIs
  <1>7. /\ f \in [1..m -> P]
        /\ \A x, y \in 1..m : f[x] = f[y] => x = y
        /\ \A t \in P : \E x \in 1..m : f[x] = t
    BY DEF Bijection, Injection, Surjection, IsInjective
  <1>8. /\ g \in [1..n -> Q]
        /\ \A x, y \in 1..n : g[x] = g[y] => x = y
        /\ \A t \in Q : \E x \in 1..n : g[x] = t
    BY DEF Bijection, Injection, Surjection, IsInjective
  <1>9. /\ \A i \in P : q[i] \in Q
        /\ \A t \in Q : \E i \in P : q[i] = t
        /\ P \subseteq DOMAIN a /\ Q \subseteq DOMAIN b
    BY <1>1, <1>2
  <1> HIDE DEF P, Q, m, n
  <1> DEFINE h == [k \in 1..m |-> CHOOSE j \in 1..n : g[j] = q[f[k]]]
  <1>10. \A k \in 1..m : h[k] \in 1..n /\ g[h[k]] = q[f[k]]
    BY <1>7, <1>8, <1>9
  <1>11. h \in [1..m -> 1..n]
    BY <1>10
  <1> HIDE DEF h
  <1>12. ASSUME NEW x \in 1..m, NEW y \in 1..m, h[x] = h[y] PROVE x = y
    <2>1. q[f[x]] = q[f[y]] /\ f[x] \in DOMAIN a /\ f[y] \in DOMAIN a
      BY <1>7, <1>9, <1>10, <1>12
    <2> QED
      BY <1>2, <1>7, <2>1
  <1>13. ASSUME NEW t \in 1..n PROVE \E x \in 1..m : h[x] = t
    <2>1. PICK i \in P : q[i] = g[t]
      BY <1>8, <1>9
    <2>2. PICK x \in 1..m : f[x] = i
      BY <1>7
    <2>3. g[h[x]] = g[t]
      BY <1>10, <2>1, <2>2
    <2> QED
      BY <1>8, <1>10, <2>3
  <1>14. h \in Bijection(1..m, 1..n)
    BY <1>11, <1>12, <1>13, BijectionFacts
  <1>15. \A k \in 1..m : a[f[k]] = b[g[h[k]]]
    BY <1>1, <1>7, <1>9, <1>10
  <1>16. Rearranged([k \in 1..m |-> a[f[k]]], [k \in 1..n |-> b[g[k]]])
    BY <1>10, <1>14, <1>15 DEF Rearranged
  <1> QED
    BY <1>5, <1>6, <1>16 DEF P, Q

LEMMA RearrangedRange ==
    ASSUME NEW a, NEW b, Rearranged(a, b)
    PROVE  Range(a) = Range(b)
  <1>1. PICK q \in Bijection(DOMAIN a, DOMAIN b) : \A i \in DOMAIN a : a[i] = b[q[i]]
    BY DEF Rearranged
  <1>2. q \in [DOMAIN a -> DOMAIN b] /\ \A t \in DOMAIN b : \E x \in DOMAIN a : q[x] = t
    BY BijectionFacts
  <1> QED
    BY <1>1, <1>2 DEF Range

LEMMA UpTo ==
    ASSUME NEW n \in Nat
    PROVE  IsFiniteSet(1..n) /\ Cardinality(1..n) = n
  <1>1. IsFiniteSet(1..n) /\ Cardinality(1..n) = IF 1 > n THEN 0 ELSE n - 1 + 1
    BY FS_Interval
  <1> QED
    BY <1>1

LEMMA RearrangedLen ==
    ASSUME NEW a, NEW b, Rearranged(a, b), a \in Seq(Range(a)), b \in Seq(Range(b))
    PROVE  Len(a) = Len(b)
  <1>1. PICK q \in Bijection(DOMAIN a, DOMAIN b) : \A i \in DOMAIN a : a[i] = b[q[i]]
    BY DEF Rearranged
  <1>2. DOMAIN a = 1..Len(a) /\ DOMAIN b = 1..Len(b) /\ Len(a) \in Nat /\ Len(b) \in Nat
    OBVIOUS
  <1>3. IsFiniteSet(1..Len(a)) /\ Cardinality(1..Len(a)) = Len(a)
    BY <1>2, UpTo
  <1>4. Cardinality(1..Len(b)) = Len(b)
    BY <1>2, UpTo
  <1>5. ExistsBijection(1..Len(a), 1..Len(b))
    BY <1>2 DEF ExistsBijection
  <1>6. Cardinality(1..Len(a)) = Cardinality(1..Len(b))
    BY <1>3, <1>5, FS_Bijection
  <1> QED
    BY <1>3, <1>4, <1>6
-----------------------------------------------------------------------------
(* The folds of the features are sums *)

LEMMA TotalIsSum ==
    ASSUME NEW c, IsFiniteSet(DOMAIN c)
    PROVE  IsSum(Total(c), c, DOMAIN c)
  <1> DEFINE Same(iter) ==
                 iter = [s \in SUBSET DOMAIN c |->
                            IF s = {} THEN 0 ELSE c[Some(s)] + iter[s \ {Some(s)}]]
  <1>1. Total(c) = (CHOOSE iter : Same(iter))[DOMAIN c]
    BY DEF Total, FoldSeq, FoldFunction, FoldFunctionOnSet, MapThenFoldSet, Some
  <1>2. \A iter : Same(iter) <=> Sums(iter, c, DOMAIN c)
    BY DEF Sums
  <1>3. \E iter : Same(iter)
    BY <1>2, SumsExist
  <1> HIDE DEF Same
  <1>4. Same(CHOOSE iter : Same(iter))
    BY <1>3
  <1> QED
    BY <1>1, <1>2, <1>4 DEF IsSum

Deviations(c) == [i \in DOMAIN c |-> Squared(Len(c) * c[i] - Total(c))]

LEMMA ScatterIsSum ==
    ASSUME NEW c, IsFiniteSet(DOMAIN c)
    PROVE  IsSum(Scatter(c), Deviations(c), DOMAIN c)
  <1> DEFINE Same(iter) ==
                 iter = [s \in SUBSET DOMAIN c |->
                            IF s = {} THEN 0
                            ELSE Squared(Len(c) * c[Some(s)] - Total(c)) + iter[s \ {Some(s)}]]
  <1>1. Scatter(c) = (CHOOSE iter : Same(iter))[DOMAIN c]
    BY DEF Scatter, FoldSeq, FoldFunction, FoldFunctionOnSet, MapThenFoldSet, Some
  <1>2. \A iter : Same(iter) <=> Sums(iter, Deviations(c), DOMAIN c)
    <2>1. \A s \in SUBSET DOMAIN c : s # {} =>
              Deviations(c)[Some(s)] = Squared(Len(c) * c[Some(s)] - Total(c))
      BY DEF Deviations, Some
    <2> QED
      BY <2>1 DEF Sums
  <1>3. \E iter : Same(iter)
    BY <1>2, SumsExist
  <1> HIDE DEF Same
  <1>4. Same(CHOOSE iter : Same(iter))
    BY <1>3
  <1> QED
    BY <1>1, <1>2, <1>4 DEF IsSum

Products(xs, ys) ==
    [i \in DOMAIN xs |-> (Len(xs) * xs[i] - Total(xs)) * (Len(ys) * ys[i] - Total(ys))]

LEMMA CovarianceIsSum ==
    ASSUME NEW xs, NEW ys, IsFiniteSet(DOMAIN xs)
    PROVE  IsSum(Covariance(xs, ys), Products(xs, ys), DOMAIN xs)
  <1> DEFINE Term(i) == (Len(xs) * xs[i] - Total(xs)) * (Len(ys) * ys[i] - Total(ys))
             Same(iter) ==
                 iter = [s \in SUBSET DOMAIN [i \in DOMAIN xs |-> i] |->
                            IF s = {} THEN 0
                            ELSE Term([i \in DOMAIN xs |-> i][Some(s)]) + iter[s \ {Some(s)}]]
  <1>1. Covariance(xs, ys) = (CHOOSE iter : Same(iter))[DOMAIN [i \in DOMAIN xs |-> i]]
    BY DEF Covariance, FoldSeq, FoldFunction, FoldFunctionOnSet, MapThenFoldSet, Some
  <1>2. DOMAIN [i \in DOMAIN xs |-> i] = DOMAIN xs
    OBVIOUS
  <1>3. \A iter : Same(iter) <=> Sums(iter, Products(xs, ys), DOMAIN xs)
    <2>1. \A s \in SUBSET DOMAIN xs : s # {} =>
              /\ [i \in DOMAIN xs |-> i][Some(s)] = Some(s)
              /\ Products(xs, ys)[Some(s)] = Term(Some(s))
      BY DEF Products, Some
    <2> HIDE DEF Term
    <2> QED
      BY <1>2, <2>1 DEF Sums
  <1>4. \E iter : Same(iter)
    BY <1>3, SumsExist
  <1> HIDE DEF Same
  <1>5. Same(CHOOSE iter : Same(iter))
    BY <1>4
  <1> QED
    BY <1>1, <1>2, <1>3, <1>5 DEF IsSum

-----------------------------------------------------------------------------
(* The aggregates of a column in another order *)

Integral(c) == c \in Seq(Range(c)) /\ \A i \in DOMAIN c : c[i] \in Int

LEMMA IntegralFacts ==
    ASSUME NEW c, Integral(c)
    PROVE  /\ Len(c) \in Nat /\ DOMAIN c = 1..Len(c) /\ IsFiniteSet(DOMAIN c)
           /\ Total(c) \in Int
           /\ Scatter(c) \in Int /\ Scatter(c) >= 0
  <1>1. Len(c) \in Nat /\ DOMAIN c = 1..Len(c)
    BY DEF Integral
  <1>2. IsFiniteSet(DOMAIN c)
    BY <1>1, UpTo
  <1>3. Total(c) \in Int
    BY <1>2, TotalIsSum, SumFacts DEF Numbers, Integral
  <1>4. \A i \in DOMAIN c : Deviations(c)[i] \in Int /\ Deviations(c)[i] >= 0
    <2> SUFFICES ASSUME NEW i \in DOMAIN c
                 PROVE  Deviations(c)[i] \in Int /\ Deviations(c)[i] >= 0
      OBVIOUS
    <2> DEFINE d == Len(c) * c[i] - Total(c)
    <2>1. d \in Int
      BY <1>1, <1>3 DEF Integral
    <2>2. Deviations(c)[i] = d * d
      BY DEF Deviations, Squared
    <2> HIDE DEF d
    <2>3. d * d \in Int /\ d * d >= 0
      BY <2>1
    <2> QED
      BY <2>2, <2>3
  <1>5. Scatter(c) \in Int /\ Scatter(c) >= 0
    BY <1>2, <1>4, ScatterIsSum, SumFacts DEF Numbers
  <1> QED
    BY <1>1, <1>2, <1>3, <1>5

LEMMA SameAggregates ==
    ASSUME NEW a, NEW b, Integral(a), Integral(b), Rearranged(a, b)
    PROVE  /\ Len(a) = Len(b) /\ Total(a) = Total(b) /\ Scatter(a) = Scatter(b)
           /\ Range(a) = Range(b)
  <1>1. PICK q \in Bijection(DOMAIN a, DOMAIN b) : \A i \in DOMAIN a : a[i] = b[q[i]]
    BY DEF Rearranged
  <1>2. Len(a) = Len(b) /\ Range(a) = Range(b)
    BY RearrangedLen, RearrangedRange DEF Integral
  <1>3. IsFiniteSet(DOMAIN a) /\ IsFiniteSet(DOMAIN b)
    BY IntegralFacts
  <1>4. q \in [DOMAIN a -> DOMAIN b]
    BY BijectionFacts
  <1>5. Total(a) = Total(b)
    <2>1. Numbers(a, DOMAIN a) /\ SameUnder(q, DOMAIN a, a, b)
      BY <1>1 DEF Numbers, SameUnder, Integral
    <2>2. IsSum(Total(a), a, DOMAIN a) /\ IsSum(Total(b), b, DOMAIN b)
      BY <1>3, TotalIsSum
    <2> QED
      BY <1>3, <2>1, <2>2, SumRearranged
  <1>6. Scatter(a) = Scatter(b)
    <2> DEFINE f == Deviations(a)
               g == Deviations(b)
    <2>1. Numbers(f, DOMAIN a)
      <3> SUFFICES ASSUME NEW i \in DOMAIN a PROVE Deviations(a)[i] \in Int
        BY DEF Numbers
      <3>1. Len(a) * a[i] - Total(a) \in Int
        BY IntegralFacts DEF Integral
      <3> QED
        BY <3>1 DEF Deviations, Squared
    <2>2. SameUnder(q, DOMAIN a, f, g)
      BY <1>1, <1>2, <1>4, <1>5 DEF SameUnder, Deviations
    <2>3. IsSum(Scatter(a), f, DOMAIN a) /\ IsSum(Scatter(b), g, DOMAIN b)
      BY <1>3, ScatterIsSum
    <2> HIDE DEF f, g
    <2> QED
      BY <1>3, <2>1, <2>2, <2>3, SumRearranged
  <1> QED
    BY <1>2, <1>5, <1>6

\* The pairs of two columns, moved together.
LEMMA SameCovariance ==
    ASSUME NEW a, NEW b, NEW c, NEW d, Integral(a), Integral(b), Integral(c), Integral(d),
           DOMAIN a = DOMAIN b, DOMAIN c = DOMAIN d,
           NEW q \in Bijection(DOMAIN a, DOMAIN c),
           \A i \in DOMAIN a : a[i] = c[q[i]] /\ b[i] = d[q[i]]
    PROVE  Covariance(a, b) = Covariance(c, d)
  <1>1. IsFiniteSet(DOMAIN a) /\ IsFiniteSet(DOMAIN c)
    BY IntegralFacts
  <1>2. /\ Len(a) = Len(c) /\ Total(a) = Total(c)
        /\ Len(b) = Len(d) /\ Total(b) = Total(d)
    <2>1. Rearranged(a, c) /\ Rearranged(b, d)
      BY DEF Rearranged
    <2> QED
      BY <2>1, SameAggregates
  <1>3. q \in [DOMAIN a -> DOMAIN c]
    BY BijectionFacts
  <1> DEFINE f == Products(a, b)
             g == Products(c, d)
  <1>4. Numbers(f, DOMAIN a)
    <2> SUFFICES ASSUME NEW i \in DOMAIN a PROVE Products(a, b)[i] \in Int
      BY DEF Numbers
    <2>1. a[i] \in Int /\ b[i] \in Int
      BY DEF Integral
    <2>2. Len(a) \in Nat /\ Total(a) \in Int /\ Len(b) \in Nat /\ Total(b) \in Int
      BY IntegralFacts
    <2>3. Len(a) * a[i] - Total(a) \in Int /\ Len(b) * b[i] - Total(b) \in Int
      BY <2>1, <2>2
    <2> QED
      BY <2>3 DEF Products
  <1>5. SameUnder(q, DOMAIN a, f, g)
    BY <1>2, <1>3 DEF SameUnder, Products
  <1>6. IsSum(Covariance(a, b), f, DOMAIN a) /\ IsSum(Covariance(c, d), g, DOMAIN c)
    BY <1>1, CovarianceIsSum
  <1> HIDE DEF f, g
  <1> QED
    BY <1>1, <1>4, <1>5, <1>6, SumRearranged
-----------------------------------------------------------------------------
(* The rows of a part of the topic, sorted *)

Readable(rows) ==
    /\ Null \notin Int
    /\ rows \in Seq(Range(rows))
    /\ \A m \in Range(rows) : m.time \in Int /\ {m.rpm, m.power} \subseteq Int \cup {Null}
    /\ \A m, n \in Range(rows) : m.time = n.time => m = n

LEMMA ReadableRows ==
    ASSUME NEW rows, Readable(rows)
    PROVE  /\ Len(rows) \in Nat /\ DOMAIN rows = 1..Len(rows)
           /\ DOMAIN rows \subseteq Int /\ IsFiniteSet(DOMAIN rows)
           /\ \A i \in DOMAIN rows : rows[i] \in Range(rows)
  <1>1. Len(rows) \in Nat /\ DOMAIN rows = 1..Len(rows)
    BY DEF Readable
  <1>2. IsFiniteSet(DOMAIN rows)
    BY <1>1, UpTo
  <1> QED
    BY <1>1, <1>2 DEF Range

LEMMA Sorted ==
    ASSUME NEW rows, Readable(rows)
    PROVE  /\ Rearranged(ByTime(rows), rows) /\ Readable(ByTime(rows))
           /\ Len(ByTime(rows)) = Len(rows)
           /\ \A k, n \in 1..Len(rows) : k < n => ByTime(rows)[k].time <= ByTime(rows)[n].time
  <1>1. Len(rows) \in Nat /\ DOMAIN rows = 1..Len(rows)
    BY ReadableRows
  <1>2. PICK f \in Bijection(1..Len(rows), 1..Len(rows)) :
            /\ \A k, n \in 1..Len(rows) : k < n => rows[f[k]].time <= rows[f[n]].time
            /\ ByTime(rows) = [k \in 1..Len(rows) |-> rows[f[k]]]
    <2>1. rows \in Seq(Range(rows)) /\ \A m \in Range(rows) : m.time \in Int
      BY DEF Readable
    <2> QED
      BY <2>1, ByTimeIs
  <1> DEFINE sorted == ByTime(rows)
  <1>3. DOMAIN sorted = 1..Len(rows) /\ \A k \in 1..Len(rows) : sorted[k] = rows[f[k]]
    BY <1>2
  <1>4. sorted = [k \in 1..Len(rows) |-> sorted[k]]
    BY <1>2
  <1> HIDE DEF sorted
  <1>5. Rearranged(sorted, rows)
    BY <1>1, <1>3 DEF Rearranged
  <1>6. Range(sorted) = Range(rows)
    BY <1>5, RearrangedRange
  <1>7. \A k \in 1..Len(rows) : sorted[k] \in Range(sorted)
    BY <1>3 DEF Range
  <1>8. sorted \in Seq(Range(sorted)) /\ Len(sorted) = Len(rows)
    BY <1>1, <1>4, <1>7
  <1>9. Readable(sorted)
    BY <1>6, <1>8 DEF Readable
  <1>10. \A k, n \in 1..Len(rows) : k < n => sorted[k].time <= sorted[n].time
    BY <1>2, <1>3
  <1> QED
    BY <1>5, <1>8, <1>9, <1>10 DEF sorted

LEMMA Readings ==
    ASSUME NEW rows, Readable(rows), NEW m \in Range(rows), NEW s \in Signals
    PROVE  Reading(m, s) \in Int \cup {Null}
  <1>1. m.rpm \in Int \cup {Null} /\ m.power \in Int \cup {Null}
    BY DEF Readable
  <1>2. CASE s = "rpm"
    BY <1>1, <1>2 DEF Reading
  <1>3. CASE s = "power"
    BY <1>1, <1>3 DEF Reading
  <1>4. CASE s = "power_per_rpm"
    <2>1. CASE m.rpm = Null \/ m.power = Null
      BY <1>4, <2>1 DEF Reading
    <2>2. CASE m.rpm # Null /\ m.power # Null
      <3>1. m.rpm \in Int /\ m.power \in Int
        BY <1>1, <2>2
      <3>2. m.rpm >= 1 => m.power \div m.rpm \in Int
        BY <3>1
      <3>3. Reading(m, s) = IF m.rpm < 1 THEN Null ELSE m.power \div m.rpm
        BY <1>4, <2>2 DEF Reading, MinRotation
      <3> QED
        BY <3>1, <3>2, <3>3
    <2> QED
      BY <2>1, <2>2
  <1> QED
    BY <1>2, <1>3, <1>4 DEF Signals

\* What is reported in a signal, and its column.
LEMMA ReportedFacts ==
    ASSUME NEW rows, Readable(rows), NEW s \in Signals
    PROVE  /\ Len(Reported(rows, s)) \in Nat
           /\ DOMAIN Reported(rows, s) = 1..Len(Reported(rows, s))
           /\ Range(Reported(rows, s)) \subseteq Range(rows)
           /\ \A i \in DOMAIN Reported(rows, s) : Reported(rows, s)[i] \in Range(Reported(rows, s))
           /\ Integral(Column(rows, s))
           /\ DOMAIN Column(rows, s) = DOMAIN Reported(rows, s)
           /\ Len(Column(rows, s)) = Len(Reported(rows, s))
           /\ \A i \in DOMAIN Reported(rows, s) : Column(rows, s)[i] = Reading(Reported(rows, s)[i], s)
  <1> DEFINE P == {i \in DOMAIN rows : Reading(rows[i], s) # Null}
             shown == Reported(rows, s)
             c == Column(rows, s)
  <1>1. P \in SUBSET Int /\ IsFiniteSet(P)
    BY ReadableRows, FS_Subset
  <1>2. shown = Subsequence(rows, P)
    BY DEF Reported
  <1>3. /\ Cardinality(P) \in Nat
        /\ DOMAIN shown = 1..Cardinality(P)
        /\ Len(shown) = Cardinality(P)
        /\ Range(shown) = {rows[i] : i \in P}
    <2> HIDE DEF P, shown
    <2> QED
      BY <1>1, <1>2, SubsequenceFacts
  <1>4. \A m \in Range(shown) : m \in Range(rows) /\ Reading(m, s) # Null
    BY <1>3, ReadableRows
  <1>5. \A i \in DOMAIN shown : shown[i] \in Range(shown)
    BY DEF Range
  <1>6. \A i \in DOMAIN shown : Reading(shown[i], s) \in Int
    BY <1>4, <1>5, Readings
  <1>7. c = [i \in DOMAIN shown |-> Reading(shown[i], s)]
    BY DEF Column
  <1> HIDE DEF P, shown, c
  <1>8. DOMAIN c = 1..Cardinality(P) /\ \A i \in 1..Cardinality(P) : c[i] = Reading(shown[i], s) /\ c[i] \in Int
    BY <1>3, <1>6, <1>7
  <1>9. \A i \in 1..Cardinality(P) : c[i] \in Range(c)
    BY <1>8 DEF Range
  <1>10. c \in Seq(Range(c)) /\ Len(c) = Cardinality(P)
    BY <1>3, <1>7, <1>8, <1>9
  <1>11. Integral(c)
    BY <1>8, <1>10 DEF Integral
  <1> QED
    BY <1>3, <1>4, <1>5, <1>8, <1>10, <1>11 DEF shown, c

LEMMA SortedColumn ==
    ASSUME NEW rows, Readable(rows), NEW s \in Signals
    PROVE  /\ Range(Reported(ByTime(rows), s)) = Range(Reported(rows, s))
           /\ Rearranged(Column(ByTime(rows), s), Column(rows, s))
  <1> DEFINE sorted == ByTime(rows)
             M == {m \in Range(rows) : Reading(m, s) # Null}
  <1>1. Rearranged(sorted, rows) /\ Readable(sorted)
    BY Sorted
  <1> HIDE DEF sorted
  <1>2. Range(sorted) = Range(rows)
    BY <1>1, RearrangedRange
  <1>3. /\ {i \in DOMAIN sorted : sorted[i] \in M} = {i \in DOMAIN sorted : Reading(sorted[i], s) # Null}
        /\ {i \in DOMAIN rows : rows[i] \in M} = {i \in DOMAIN rows : Reading(rows[i], s) # Null}
    BY <1>1, <1>2, ReadableRows
  <1>4. Rearranged(Reported(sorted, s), Reported(rows, s))
    <2>1. /\ DOMAIN sorted \subseteq Int /\ IsFiniteSet(DOMAIN sorted)
          /\ DOMAIN rows \subseteq Int
      BY <1>1, ReadableRows
    <2> HIDE DEF M
    <2>2. Rearranged(Subsequence(sorted, {i \in DOMAIN sorted : sorted[i] \in M}),
                     Subsequence(rows, {i \in DOMAIN rows : rows[i] \in M}))
      BY <1>1, <2>1, FilteredRearranged
    <2> QED
      BY <1>3, <2>2 DEF Reported
  <1>5. Rearranged(Column(sorted, s), Column(rows, s))
    <2>1. PICK q \in Bijection(DOMAIN Reported(sorted, s), DOMAIN Reported(rows, s)) :
              \A i \in DOMAIN Reported(sorted, s) : Reported(sorted, s)[i] = Reported(rows, s)[q[i]]
      BY <1>4 DEF Rearranged
    <2>2. q \in [DOMAIN Reported(sorted, s) -> DOMAIN Reported(rows, s)]
      BY BijectionFacts
    <2>3. \A i \in DOMAIN Reported(sorted, s) : Column(sorted, s)[i] = Column(rows, s)[q[i]]
      BY <2>1, <2>2 DEF Column
    <2>4. DOMAIN Column(sorted, s) = DOMAIN Reported(sorted, s) /\ DOMAIN Column(rows, s) = DOMAIN Reported(rows, s)
      BY DEF Column
    <2> QED
      BY <2>1, <2>3, <2>4 DEF Rearranged
  <1> QED
    BY <1>4, <1>5, RearrangedRange DEF sorted

LEMMA ReportedInOrder ==
    ASSUME NEW rows, Readable(rows), NEW s \in Signals,
           NEW k \in DOMAIN Reported(ByTime(rows), s), NEW n \in DOMAIN Reported(ByTime(rows), s),
           k <= n
    PROVE  Reported(ByTime(rows), s)[k].time <= Reported(ByTime(rows), s)[n].time
  <1> DEFINE sorted == ByTime(rows)
             P == {i \in DOMAIN sorted : Reading(sorted[i], s) # Null}
             shown == Reported(sorted, s)
  <1>1. Readable(sorted) /\ Len(sorted) = Len(rows)
    BY Sorted
  <1>2. \A i, j \in 1..Len(rows) : i < j => sorted[i].time <= sorted[j].time
    BY Sorted
  <1> HIDE DEF sorted
  <1>3. DOMAIN sorted = 1..Len(rows) /\ P \in SUBSET Int /\ IsFiniteSet(P)
    BY <1>1, ReadableRows, FS_Subset
  <1>4. shown = Subsequence(sorted, P)
    BY DEF Reported
  <1> HIDE DEF P, shown
  <1>5. PICK f \in Bijection(1..Cardinality(P), P) :
            /\ \A i, j \in 1..Cardinality(P) : i < j => f[i] < f[j]
            /\ shown = [i \in 1..Cardinality(P) |-> sorted[f[i]]]
    BY <1>3, <1>4, SubsequenceIs
  <1>6. f \in [1..Cardinality(P) -> P] /\ Cardinality(P) \in Nat
    BY <1>3, BijectionFacts, FS_CardinalityType
  <1>7. k \in 1..Cardinality(P) /\ n \in 1..Cardinality(P)
    BY <1>5 DEF shown, sorted
  <1>8. f[k] \in 1..Len(rows) /\ f[n] \in 1..Len(rows)
    BY <1>3, <1>6, <1>7 DEF P
  <1>9. shown[k] = sorted[f[k]] /\ shown[n] = sorted[f[n]]
    BY <1>5, <1>7
  <1>10. CASE k = n
    <2>1. sorted[f[n]].time \in Int
      BY <1>1, <1>3, <1>8, ReadableRows DEF Readable
    <2> QED
      BY <1>9, <1>10, <2>1 DEF shown, sorted
  <1>11. CASE k < n
    BY <1>2, <1>5, <1>7, <1>8, <1>9, <1>11 DEF shown, sorted
  <1> QED
    BY <1>6, <1>7, <1>10, <1>11
-----------------------------------------------------------------------------
(* Spark's ends of a column are those of the sorted rows *)

LEMMA Ends ==
    ASSUME NEW rows, Readable(rows), NEW s \in Signals,
           Len(Reported(ByTime(rows), s)) # 0
    PROVE  LET shown == Reported(ByTime(rows), s)
               times == {m.time : m \in Range(Reported(rows, s))}
           IN  /\ MaxBy(rows, s) = Reading(shown[Len(shown)], s)
               /\ MinBy(rows, s) = Reading(shown[1], s)
               /\ Max(times) = shown[Len(shown)].time
               /\ Min(times) = shown[1].time
  <1> DEFINE shown == Reported(ByTime(rows), s)
             seen == Range(Reported(rows, s))
             times == {m.time : m \in seen}
             first == shown[1]
             last == shown[Len(shown)]
  <1>1. Range(shown) = seen
    BY SortedColumn
  <1>2. /\ Len(shown) \in Nat /\ Len(shown) # 0 /\ DOMAIN shown = 1..Len(shown)
        /\ \A i \in DOMAIN shown : shown[i] \in Range(shown)
    BY Sorted, ReportedFacts
  <1>3. \A m \in seen : m \in Range(rows) /\ m.time \in Int
    BY ReportedFacts DEF Readable
  <1>4. \A k, n \in DOMAIN shown : k <= n => shown[k].time <= shown[n].time
    BY ReportedInOrder
  <1> HIDE DEF shown, seen
  <1>5. first \in seen /\ last \in seen
    BY <1>1, <1>2
  <1>6. \A m \in seen : first.time <= m.time /\ m.time <= last.time
    <2> SUFFICES ASSUME NEW m \in seen PROVE first.time <= m.time /\ m.time <= last.time
      OBVIOUS
    <2>1. PICK i \in DOMAIN shown : m = shown[i]
      BY <1>1 DEF Range
    <2>2. i \in 1..Len(shown) /\ 1 \in DOMAIN shown /\ Len(shown) \in DOMAIN shown /\ 1 <= i /\ i <= Len(shown)
      BY <1>2
    <2> QED
      BY <1>4, <2>1, <2>2
  <1>7. \A m \in seen : m.time = first.time => m = first
    BY <1>3, <1>5 DEF Readable
  <1>8. \A m \in seen : m.time = last.time => m = last
    BY <1>3, <1>5 DEF Readable
  <1> HIDE DEF first, last
  <1>9. MaxBy(rows, s) = Reading(last, s)
    <2>1. last = CHOOSE m \in seen : \A x \in seen : x.time <= m.time
      <3> DEFINE top(m) == \A x \in seen : x.time <= m.time
                 best == CHOOSE m \in seen : top(m)
      <3>1. last \in seen /\ top(last)
        BY <1>5, <1>6
      <3> HIDE DEF top
      <3>2. best \in seen /\ top(best)
        BY <3>1
      <3> HIDE DEF best
      <3>3. best.time = last.time
        BY <1>3, <1>5, <1>6, <3>2 DEF top
      <3>4. best = last
        BY <1>8, <3>2, <3>3
      <3> QED
        BY <3>4 DEF best, top
    <2>2. seen # {}
      BY <1>5
    <2> QED
      BY <2>1, <2>2 DEF MaxBy, seen
  <1>10. MinBy(rows, s) = Reading(first, s)
    <2>1. first = CHOOSE m \in seen : \A x \in seen : m.time <= x.time
      <3> DEFINE bottom(m) == \A x \in seen : m.time <= x.time
                 best == CHOOSE m \in seen : bottom(m)
      <3>1. first \in seen /\ bottom(first)
        BY <1>5, <1>6
      <3> HIDE DEF bottom
      <3>2. best \in seen /\ bottom(best)
        BY <3>1
      <3> HIDE DEF best
      <3>3. best.time = first.time
        BY <1>3, <1>5, <1>6, <3>2 DEF bottom
      <3>4. best = first
        BY <1>7, <3>2, <3>3
      <3> QED
        BY <3>4 DEF best, bottom
    <2>2. seen # {}
      BY <1>5
    <2> QED
      BY <2>1, <2>2 DEF MinBy, seen
  <1>11. /\ last.time \in times /\ first.time \in times
         /\ \A t \in times : t \in Int /\ first.time <= t /\ t <= last.time
    BY <1>3, <1>5, <1>6
  <1> HIDE DEF times
  <1>12. Max(times) = last.time
    <2>1. /\ Max(times) \in times
          /\ \A t \in times : Max(times) >= t
      BY <1>11 DEF Max
    <2> QED
      BY <1>11, <2>1
  <1>13. Min(times) = first.time
    <2>1. /\ Min(times) \in times
          /\ \A t \in times : Min(times) <= t
      BY <1>11 DEF Min
    <2> QED
      BY <1>11, <2>1
  <1> QED
    BY <1>9, <1>10, <1>12, <1>13 DEF first, last, shown, times, seen
-----------------------------------------------------------------------------
(* The three translations *)

LEMMA EmptyColumn ==
    ASSUME NEW c, Integral(c)
    PROVE  c = <<>> <=> Len(c) = 0
  BY DEF Integral

\* The sorted column and its ends.
LEMMA SortedEnds ==
    ASSUME NEW rows, Readable(rows), NEW s \in Signals
    PROVE  LET shown == Reported(ByTime(rows), s)
               points == Points(ByTime(rows), s)
               values == Column(ByTime(rows), s)
               n == Len(values)
           IN  /\ n \in Nat /\ Len(points) = n /\ Len(shown) = n
               /\ Integral(values)
               /\ n # 0 =>
                     /\ values[1] \in Int /\ values[n] \in Int
                     /\ shown[1].time \in Int /\ shown[n].time \in Int
                     /\ points[1] = <<shown[1].time, values[1]>>
                     /\ points[n] = <<shown[n].time, values[n]>>
                     /\ Head(points) = points[1] /\ Last(points) = points[n]
                     /\ Head(values) = values[1] /\ Last(values) = values[n]
                     /\ Head(shown) = shown[1] /\ Last(shown) = shown[n]
                     /\ values[1] = Reading(shown[1], s) /\ values[n] = Reading(shown[n], s)
  <1> DEFINE sorted == ByTime(rows)
             shown == Reported(sorted, s)
             points == Points(sorted, s)
             values == Column(sorted, s)
             n == Len(values)
  <1>1. Readable(sorted)
    BY Sorted
  <1>2. /\ n \in Nat /\ DOMAIN shown = 1..n /\ Len(shown) = n
        /\ \A i \in 1..n : shown[i] \in Range(sorted)
        /\ Integral(values) /\ DOMAIN values = 1..n
        /\ \A i \in 1..n : values[i] = Reading(shown[i], s) /\ values[i] \in Int
    <2> HIDE DEF sorted
    <2> QED
      BY <1>1, ReportedFacts DEF Integral
  <1>3. \A i \in 1..n : shown[i].time \in Int
    BY <1>1, <1>2 DEF Readable
  <1>4. points = [i \in 1..n |-> <<shown[i].time, values[i]>>]
    BY <1>2 DEF Points
  <1> HIDE DEF shown, values, points, n
  <1>5. Len(points) = n
    BY <1>2, <1>4
  <1>6. ASSUME n # 0
        PROVE  /\ 1 \in 1..n /\ n \in 1..n
               /\ points[1] = <<shown[1].time, values[1]>>
               /\ points[n] = <<shown[n].time, values[n]>>
               /\ Head(points) = points[1] /\ Last(points) = points[n]
               /\ Head(values) = values[1] /\ Last(values) = values[n]
               /\ Head(shown) = shown[1] /\ Last(shown) = shown[n]
    <2>1. 1 \in 1..n /\ n \in 1..n
      BY <1>2, <1>6
    <2>2. Last(points) = points[n] /\ Last(values) = values[n] /\ Last(shown) = shown[n]
      BY <1>2, <1>5 DEF Last, n
    <2>3. Head(points) = points[1] /\ Head(values) = values[1] /\ Head(shown) = shown[1]
      BY DEF Head
    <2> QED
      BY <1>4, <2>1, <2>2, <2>3
  <1> QED
    BY <1>2, <1>3, <1>5, <1>6 DEF shown, values, points, n, sorted

LEMMA SparkAgrees ==
    ASSUME NEW rows, Readable(rows), NEW s \in Signals, NEW k \in Kinds
    PROVE  FeatureColumn(rows, s, k) =
               Aggregate(k, Points(ByTime(rows), s), Column(ByTime(rows), s))
  <1> DEFINE shown == Reported(ByTime(rows), s)
             points == Points(ByTime(rows), s)
             values == Column(ByTime(rows), s)
             n == Len(values)
             c == Column(rows, s)
             times == {m.time : m \in Range(Reported(rows, s))}
  <1>1. /\ Integral(c) /\ Integral(values) /\ Rearranged(values, c)
    BY SortedEnds, ReportedFacts, SortedColumn
  <1>2. /\ Len(c) = n /\ Total(c) = Total(values) /\ Scatter(c) = Scatter(values)
        /\ Range(c) = Range(values) /\ n \in Nat
    <2> HIDE DEF c, values
    <2> QED
      BY <1>1, SameAggregates, IntegralFacts
  <1>3. c = <<>> <=> n = 0
    BY <1>1, <1>2, EmptyColumn
  <1>4. CASE n = 0
    BY <1>3, <1>4 DEF FeatureColumn, Aggregate
  <1>5. CASE n # 0
    <2>1. /\ Len(shown) = n /\ Len(points) = n
          /\ values[1] \in Int /\ values[n] \in Int
          /\ shown[1].time \in Int /\ shown[n].time \in Int
          /\ points[n] = <<shown[n].time, values[n]>>
          /\ Head(points) = <<shown[1].time, values[1]>>
          /\ Last(points) = <<shown[n].time, values[n]>>
          /\ values[1] = Reading(shown[1], s) /\ values[n] = Reading(shown[n], s)
      BY <1>5, SortedEnds
    <2>2. MaxBy(rows, s) = values[n] /\ MinBy(rows, s) = values[1]
      BY <1>5, <2>1, Ends
    <2>3. Max(times) = shown[n].time /\ Min(times) = shown[1].time
      BY <1>5, <2>1, Ends
    <2>4. n = 1 => shown[n].time = shown[1].time
      OBVIOUS
    <2> HIDE DEF shown, points, values, n, c, times
    <2>5. FeatureColumn(rows, s, k) =
              CASE k = "mean" -> MeanOf(c)
                [] k = "stddev" -> IF Len(c) = 1 THEN Null ELSE <<Scatter(c), Len(c)>>
                [] k = "min" -> Min(Range(c))
                [] k = "max" -> Max(Range(c))
                [] k = "range" -> Max(Range(c)) - Min(Range(c))
                [] k = "slope" -> IF Max(times) - Min(times) > 0
                                  THEN <<MaxBy(rows, s) - MinBy(rows, s), Max(times) - Min(times)>>
                                  ELSE Null
                [] k = "deviation" -> FromMean(MaxBy(rows, s), c)
                [] k = "zscore" -> IF Len(c) > 1 /\ Scatter(c) > 0
                                   THEN <<FromMean(MaxBy(rows, s), c), Scatter(c)>> ELSE Null
      BY <1>3, <1>5 DEF FeatureColumn, c, times
    <2>6. Aggregate(k, points, values) =
              CASE k = "mean" -> MeanOf(values)
                [] k = "stddev" -> IF n < 2 THEN Null ELSE <<Scatter(values), n>>
                [] k = "min" -> Min(Range(values))
                [] k = "max" -> Max(Range(values))
                [] k = "range" -> Max(Range(values)) - Min(Range(values))
                [] k = "slope" -> SlopePerSecond(points)
                [] k = "deviation" -> FromMean(points[n][2], values)
                [] k = "zscore" -> IF n < 2 \/ Scatter(values) <= 0 THEN Null
                                   ELSE <<FromMean(points[n][2], values), Scatter(values)>>
      BY <1>5 DEF Aggregate, n
    <2>7. MeanOf(c) = MeanOf(values) /\ \A last : FromMean(last, c) = FromMean(last, values)
      BY <1>2 DEF MeanOf, FromMean, n
    <2>8. Scatter(values) \in Int
      BY <1>1, IntegralFacts
    <2>9. ASSUME k \in {"mean", "min", "max", "range"}
          PROVE  FeatureColumn(rows, s, k) = Aggregate(k, points, values)
      <3>1. CASE k = "mean"
        BY <2>5, <2>6, <2>7, <3>1
      <3>2. CASE k = "min"
        BY <1>2, <2>5, <2>6, <3>2
      <3>3. CASE k = "max"
        BY <1>2, <2>5, <2>6, <3>3
      <3>4. CASE k = "range"
        BY <1>2, <2>5, <2>6, <3>4
      <3> QED
        BY <2>9, <3>1, <3>2, <3>3, <3>4
    <2>10. ASSUME k = "stddev"
           PROVE  FeatureColumn(rows, s, k) = Aggregate(k, points, values)
      <3>1. FeatureColumn(rows, s, k) = IF Len(c) = 1 THEN Null ELSE <<Scatter(c), Len(c)>>
        BY <2>5, <2>10
      <3>2. Aggregate(k, points, values) = IF n < 2 THEN Null ELSE <<Scatter(values), n>>
        BY <2>6, <2>10
      <3>3. n < 2 <=> Len(c) = 1
        BY <1>2, <1>5
      <3> QED
        BY <1>2, <3>1, <3>2, <3>3
    <2>11. ASSUME k = "deviation"
           PROVE  FeatureColumn(rows, s, k) = Aggregate(k, points, values)
      <3>1. FeatureColumn(rows, s, k) = FromMean(MaxBy(rows, s), c)
        BY <2>5, <2>11
      <3>2. Aggregate(k, points, values) = FromMean(points[n][2], values)
        BY <2>6, <2>11
      <3>3. points[n][2] = MaxBy(rows, s)
        BY <2>1, <2>2
      <3> QED
        BY <2>7, <3>1, <3>2, <3>3
    <2>12. ASSUME k = "zscore"
           PROVE  FeatureColumn(rows, s, k) = Aggregate(k, points, values)
      <3>1. FeatureColumn(rows, s, k) =
                IF Len(c) > 1 /\ Scatter(c) > 0
                THEN <<FromMean(MaxBy(rows, s), c), Scatter(c)>> ELSE Null
        BY <2>5, <2>12
      <3>2. Aggregate(k, points, values) =
                IF n < 2 \/ Scatter(values) <= 0 THEN Null
                ELSE <<FromMean(points[n][2], values), Scatter(values)>>
        BY <2>6, <2>12
      <3>3. points[n][2] = MaxBy(rows, s)
        BY <2>1, <2>2
      <3>4. Len(c) > 1 /\ Scatter(c) > 0 <=> ~(n < 2 \/ Scatter(values) <= 0)
        BY <1>2, <2>8
      <3>5. FromMean(MaxBy(rows, s), c) = FromMean(points[n][2], values) /\ Scatter(c) = Scatter(values)
        BY <1>2, <2>7, <3>3
      <3> QED
        BY <3>1, <3>2, <3>4, <3>5
    <2>13. ASSUME k = "slope"
           PROVE  FeatureColumn(rows, s, k) = Aggregate(k, points, values)
      <3> DEFINE elapsed == shown[n].time - shown[1].time
                 rise == values[n] - values[1]
      <3>1. FeatureColumn(rows, s, k) =
                IF Max(times) - Min(times) > 0
                THEN <<MaxBy(rows, s) - MinBy(rows, s), Max(times) - Min(times)>> ELSE Null
        BY <2>5, <2>13
      <3>2. Max(times) - Min(times) = elapsed /\ MaxBy(rows, s) - MinBy(rows, s) = rise
        BY <2>2, <2>3
      <3>3. Aggregate(k, points, values) = SlopePerSecond(points)
        BY <2>6, <2>13
      <3>4. SlopePerSecond(points) =
                IF n < 2 \/ shown[n].time <= shown[1].time THEN Null ELSE <<rise, elapsed>>
        BY <2>1 DEF SlopePerSecond
      <3>5. n < 2 \/ shown[n].time <= shown[1].time <=> ~(elapsed > 0)
        BY <1>2, <1>5, <2>1, <2>4
      <3> HIDE DEF elapsed, rise
      <3> QED
        BY <3>1, <3>2, <3>3, <3>4, <3>5
    <2> QED
      BY <2>9, <2>10, <2>11, <2>12, <2>13 DEF Kinds, points, values
  <1> QED
    BY <1>4, <1>5

LEMMA PandasAgrees ==
    ASSUME NEW rows, Readable(rows), NEW s \in Signals
    PROVE  PandasColumns(ByTime(rows), s) =
               [k \in Kinds |-> Aggregate(k, Points(ByTime(rows), s), Column(ByTime(rows), s))]
  <1> DEFINE shown == Reported(ByTime(rows), s)
             points == Points(ByTime(rows), s)
             values == Column(ByTime(rows), s)
             n == Len(values)
             times == {m.time : m \in Range(shown)}
             elapsed == Max(times) - Min(times)
  <1>1. n \in Nat /\ Integral(values) /\ Scatter(values) \in Int
    BY SortedEnds, IntegralFacts
  <1>2. values = <<>> <=> n = 0
    BY <1>1, EmptyColumn
  <1>3. CASE n = 0
    <2>1. PandasColumns(ByTime(rows), s) = [k \in Kinds |-> Null]
      BY <1>2, <1>3 DEF PandasColumns
    <2>2. \A k \in Kinds : Aggregate(k, points, values) = Null
      BY <1>3 DEF Aggregate
    <2> QED
      BY <2>1, <2>2
  <1>4. CASE n # 0
    <2>1. /\ Len(points) = n
          /\ values[1] \in Int /\ values[n] \in Int
          /\ shown[1].time \in Int /\ shown[n].time \in Int
          /\ points[n] = <<shown[n].time, values[n]>>
          /\ Head(points) = <<shown[1].time, values[1]>>
          /\ Last(points) = <<shown[n].time, values[n]>>
          /\ Head(values) = values[1] /\ Last(values) = values[n]
      BY <1>4, SortedEnds
    <2>2. n = 1 => shown[n].time = shown[1].time
      OBVIOUS
    <2>10. elapsed = shown[n].time - shown[1].time
      <3>1. Range(shown) = Range(Reported(rows, s)) /\ Len(shown) = n
        BY SortedColumn, SortedEnds
      <3>2. /\ Max({m.time : m \in Range(Reported(rows, s))}) = shown[n].time
            /\ Min({m.time : m \in Range(Reported(rows, s))}) = shown[1].time
        BY <1>4, <3>1, Ends
      <3> QED
        BY <3>1, <3>2
    <2> HIDE DEF shown, points, values, n, times, elapsed
    <2> DEFINE stddev == IF n = 1 THEN Null ELSE <<Scatter(values), n>>
               slope == IF elapsed > 0 THEN <<Last(values) - Head(values), elapsed>> ELSE Null
               deviation == FromMean(Last(values), values)
               zscore == IF n > 1 /\ Scatter(values) > 0
                         THEN <<deviation, Scatter(values)>> ELSE Null
    <2>3. PandasColumns(ByTime(rows), s) =
              [mean |-> MeanOf(values), stddev |-> stddev,
               min |-> Min(Range(values)), max |-> Max(Range(values)),
               range |-> Max(Range(values)) - Min(Range(values)),
               slope |-> slope, deviation |-> deviation, zscore |-> zscore]
      BY <1>2, <1>4 DEF PandasColumns, shown, values, times, elapsed, n
    <2>4. points[n][2] = Last(values)
      BY <2>1
    <2>5. SlopePerSecond(points) = slope
      <3>1. SlopePerSecond(points) =
                IF n < 2 \/ shown[n].time <= shown[1].time THEN Null
                ELSE <<values[n] - values[1], shown[n].time - shown[1].time>>
        <4>1. /\ Len(points) = n
              /\ Head(points)[1] = shown[1].time /\ Head(points)[2] = values[1]
              /\ Last(points)[1] = shown[n].time /\ Last(points)[2] = values[n]
          BY <2>1
        <4> QED
          BY <4>1 DEF SlopePerSecond
      <3>2. n < 2 \/ shown[n].time <= shown[1].time <=> ~(elapsed > 0)
        BY <1>1, <1>4, <2>1, <2>2, <2>10 DEF n
      <3>3. elapsed = shown[n].time - shown[1].time /\ Last(values) - Head(values) = values[n] - values[1]
        BY <2>1, <2>10
      <3> QED
        BY <3>1, <3>2, <3>3
    <2>6. (IF n < 2 THEN Null ELSE <<Scatter(values), n>>) = stddev
      <3>1. n < 2 <=> n = 1
        <4>1. n \in Nat /\ n # 0
          BY <1>1, <1>4
        <4> QED
          BY <4>1
      <3> QED
        BY <3>1
    <2>7. (IF n < 2 \/ Scatter(values) <= 0 THEN Null ELSE <<deviation, Scatter(values)>>) = zscore
      <3>1. n < 2 \/ Scatter(values) <= 0 <=> ~(n > 1 /\ Scatter(values) > 0)
        BY <1>1 DEF n, values
      <3> QED
        BY <3>1
    <2> HIDE DEF slope, stddev, deviation, zscore
    <2>8. ASSUME NEW k \in Kinds
          PROVE  Aggregate(k, points, values) =
                    [mean |-> MeanOf(values), stddev |-> stddev,
                     min |-> Min(Range(values)), max |-> Max(Range(values)),
                     range |-> Max(Range(values)) - Min(Range(values)),
                     slope |-> slope, deviation |-> deviation, zscore |-> zscore][k]
      <3>1. Aggregate(k, points, values) =
                CASE k = "mean" -> MeanOf(values)
                  [] k = "stddev" -> stddev
                  [] k = "min" -> Min(Range(values))
                  [] k = "max" -> Max(Range(values))
                  [] k = "range" -> Max(Range(values)) - Min(Range(values))
                  [] k = "slope" -> slope
                  [] k = "deviation" -> deviation
                  [] k = "zscore" -> zscore
        BY <1>4, <2>4, <2>5, <2>6, <2>7 DEF Aggregate, n, deviation
      <3> QED
        BY <3>1 DEF Kinds
    <2>9. [k \in Kinds |-> Aggregate(k, points, values)] =
              [mean |-> MeanOf(values), stddev |-> stddev,
               min |-> Min(Range(values)), max |-> Max(Range(values)),
               range |-> Max(Range(values)) - Min(Range(values)),
               slope |-> slope, deviation |-> deviation, zscore |-> zscore]
      BY <2>8 DEF Kinds
    <2> QED
      BY <2>3, <2>9 DEF points, values
  <1> QED
    BY <1>3, <1>4

-----------------------------------------------------------------------------
(* Pairs, counts and the three records *)

\* The rows of a kind: as many, and the same ones, in either order.
LEMMA SortedPart ==
    ASSUME NEW rows, Readable(rows), NEW M
    PROVE  LET sorted == ByTime(rows)
               before == {i \in DOMAIN rows : rows[i] \in M}
               after == {i \in DOMAIN sorted : sorted[i] \in M}
           IN  /\ Rearranged(Subsequence(sorted, after), Subsequence(rows, before))
               /\ Cardinality(after) = Cardinality(before)
  <1> DEFINE sorted == ByTime(rows)
             before == {i \in DOMAIN rows : rows[i] \in M}
             after == {i \in DOMAIN sorted : sorted[i] \in M}
  <1>1. Rearranged(sorted, rows) /\ Readable(sorted)
    BY Sorted
  <1> HIDE DEF sorted
  <1>2. /\ DOMAIN sorted \subseteq Int /\ IsFiniteSet(DOMAIN sorted)
        /\ DOMAIN rows \subseteq Int /\ IsFiniteSet(DOMAIN rows)
    BY <1>1, ReadableRows
  <1>3. Rearranged(Subsequence(sorted, after), Subsequence(rows, before))
    BY <1>1, <1>2, FilteredRearranged
  <1>4. /\ after \in SUBSET Int /\ IsFiniteSet(after)
        /\ before \in SUBSET Int /\ IsFiniteSet(before)
    BY <1>2, FS_Subset
  <1> HIDE DEF after, before
  <1>5. Cardinality(after) = Cardinality(before)
    BY <1>3, <1>4, SubsequenceFacts, RearrangedLen
  <1> QED
    BY <1>3, <1>5 DEF sorted, after, before

LEMMA SameNullShare ==
    ASSUME NEW rows, Readable(rows)
    PROVE  NullShare(ByTime(rows)) = NullShare(rows)
  <1> DEFINE sorted == ByTime(rows)
             NoRpm == {m \in Range(rows) : m.rpm = Null}
             NoPower == {m \in Range(rows) : m.power = Null}
  <1>1. Rearranged(sorted, rows) /\ Readable(sorted) /\ Len(sorted) = Len(rows)
    BY Sorted
  <1>2. /\ Cardinality({i \in DOMAIN sorted : sorted[i] \in NoRpm})
               = Cardinality({i \in DOMAIN rows : rows[i] \in NoRpm})
        /\ Cardinality({i \in DOMAIN sorted : sorted[i] \in NoPower})
               = Cardinality({i \in DOMAIN rows : rows[i] \in NoPower})
    <2>1. ASSUME NEW M
          PROVE  Cardinality({i \in DOMAIN sorted : sorted[i] \in M})
                     = Cardinality({i \in DOMAIN rows : rows[i] \in M})
      BY SortedPart
    <2> HIDE DEF sorted, NoRpm, NoPower
    <2> QED
      BY <2>1
  <1> HIDE DEF sorted
  <1>3. Range(sorted) = Range(rows)
    BY <1>1, RearrangedRange
  <1>4. /\ {i \in DOMAIN sorted : sorted[i] \in NoRpm} = {i \in DOMAIN sorted : sorted[i].rpm = Null}
        /\ {i \in DOMAIN rows : rows[i] \in NoRpm} = {i \in DOMAIN rows : rows[i].rpm = Null}
        /\ {i \in DOMAIN sorted : sorted[i] \in NoPower} = {i \in DOMAIN sorted : sorted[i].power = Null}
        /\ {i \in DOMAIN rows : rows[i] \in NoPower} = {i \in DOMAIN rows : rows[i].power = Null}
    BY <1>1, <1>3, ReadableRows
  <1> QED
    BY <1>1, <1>2, <1>4 DEF NullShare, sorted

\* Both columns of the pairs have all of them.
LEMMA PairedColumns ==
    ASSUME NEW rows, Readable(rows), NEW s \in {"power", "rpm"}
    PROVE  LET pairs == Paired(rows)
               whole == Subsequence(pairs, DOMAIN pairs)
           IN  /\ Readable(pairs)
               /\ \A i \in DOMAIN pairs : pairs[i].power # Null /\ pairs[i].rpm # Null
               /\ Integral(Column(pairs, s))
               /\ DOMAIN Column(pairs, s) = DOMAIN whole
               /\ \A i \in DOMAIN whole : Column(pairs, s)[i] = Reading(whole[i], s)
  <1> DEFINE P == {i \in DOMAIN rows : rows[i].power # Null /\ rows[i].rpm # Null}
             pairs == Paired(rows)
             whole == Subsequence(pairs, DOMAIN pairs)
  <1>1. P \in SUBSET Int /\ IsFiniteSet(P)
    BY ReadableRows, FS_Subset
  <1>2. pairs = Subsequence(rows, P)
    BY DEF Paired
  <1>3. pairs \in Seq(Range(pairs)) /\ Range(pairs) = {rows[i] : i \in P}
    <2> HIDE DEF P, pairs
    <2> QED
      BY <1>1, <1>2, SubsequenceFacts
  <1>4. \A m \in Range(pairs) : m \in Range(rows) /\ m.power # Null /\ m.rpm # Null
    BY <1>3, ReadableRows
  <1> HIDE DEF pairs
  <1>5. Readable(pairs)
    BY <1>3, <1>4 DEF Readable
  <1>6. \A i \in DOMAIN pairs : pairs[i].power # Null /\ pairs[i].rpm # Null
    BY <1>4, <1>5, ReadableRows
  <1>7. {i \in DOMAIN pairs : Reading(pairs[i], s) # Null} = DOMAIN pairs
    BY <1>6 DEF Reading
  <1>8. Reported(pairs, s) = whole
    BY <1>7 DEF Reported
  <1>9. s \in Signals
    BY DEF Signals
  <1>10. /\ Integral(Column(pairs, s))
         /\ DOMAIN Column(pairs, s) = DOMAIN whole
         /\ \A i \in DOMAIN whole : Column(pairs, s)[i] = Reading(whole[i], s)
    <2> HIDE DEF whole
    <2> QED
      BY <1>5, <1>8, <1>9, ReportedFacts
  <1> QED
    BY <1>5, <1>6, <1>10 DEF pairs

LEMMA SamePairs ==
    ASSUME NEW rows, Readable(rows)
    PROVE  LET sorted == ByTime(rows)
               a == Column(Paired(sorted), "power")
               b == Column(Paired(sorted), "rpm")
               c == Column(Paired(rows), "power")
               d == Column(Paired(rows), "rpm")
           IN  /\ Integral(a) /\ Integral(b) /\ Integral(c) /\ Integral(d)
               /\ Len(a) = Len(c) /\ Scatter(a) = Scatter(c) /\ Scatter(b) = Scatter(d)
               /\ Covariance(a, b) = Covariance(c, d)
  <1> DEFINE sorted == ByTime(rows)
             a == Column(Paired(sorted), "power")
             b == Column(Paired(sorted), "rpm")
             c == Column(Paired(rows), "power")
             d == Column(Paired(rows), "rpm")
             M == {m \in Range(rows) : m.power # Null /\ m.rpm # Null}
             new == Paired(sorted)
             old == Paired(rows)
             News == Subsequence(new, DOMAIN new)
             Olds == Subsequence(old, DOMAIN old)
  <1>1. Rearranged(sorted, rows) /\ Readable(sorted)
    BY Sorted
  <1>2. Rearranged(Subsequence(sorted, {i \in DOMAIN sorted : sorted[i] \in M}),
                   Subsequence(rows, {i \in DOMAIN rows : rows[i] \in M}))
    BY SortedPart
  <1> HIDE DEF sorted
  <1>3. Range(sorted) = Range(rows)
    BY <1>1, RearrangedRange
  <1>4. /\ {i \in DOMAIN sorted : sorted[i] \in M}
                = {i \in DOMAIN sorted : sorted[i].power # Null /\ sorted[i].rpm # Null}
        /\ {i \in DOMAIN rows : rows[i] \in M}
                = {i \in DOMAIN rows : rows[i].power # Null /\ rows[i].rpm # Null}
    BY <1>1, <1>3, ReadableRows
  <1>5. Rearranged(new, old)
    BY <1>2, <1>4 DEF Paired
  <1>6. /\ Readable(new) /\ Readable(old)
        /\ Integral(a) /\ Integral(b) /\ Integral(c) /\ Integral(d)
        /\ DOMAIN a = DOMAIN News /\ DOMAIN b = DOMAIN News
        /\ DOMAIN c = DOMAIN Olds /\ DOMAIN d = DOMAIN Olds
        /\ \A i \in DOMAIN News : a[i] = Reading(News[i], "power") /\ b[i] = Reading(News[i], "rpm")
        /\ \A i \in DOMAIN Olds : c[i] = Reading(Olds[i], "power") /\ d[i] = Reading(Olds[i], "rpm")
    BY <1>1, PairedColumns
  <1> HIDE DEF new, old, a, b, c, d
  <1>7. Rearranged(News, Olds)
    <2> DEFINE R == Range(new)
    <2>1. Range(old) = R
      BY <1>5, RearrangedRange
    <2>2. /\ DOMAIN new \subseteq Int /\ IsFiniteSet(DOMAIN new) /\ DOMAIN old \subseteq Int
          /\ DOMAIN new = {i \in DOMAIN new : new[i] \in R}
          /\ DOMAIN old = {i \in DOMAIN old : old[i] \in R}
      BY <1>6, <2>1, ReadableRows
    <2> HIDE DEF R
    <2>3. Rearranged(Subsequence(new, {i \in DOMAIN new : new[i] \in R}),
                     Subsequence(old, {i \in DOMAIN old : old[i] \in R}))
      BY <1>5, <2>2, FilteredRearranged
    <2> QED
      BY <2>2, <2>3
  <1> HIDE DEF News, Olds
  <1>8. PICK q \in Bijection(DOMAIN News, DOMAIN Olds) : \A i \in DOMAIN News : News[i] = Olds[q[i]]
    BY <1>7 DEF Rearranged
  <1>9. q \in [DOMAIN News -> DOMAIN Olds]
    BY BijectionFacts
  <1>10. \A i \in DOMAIN News : a[i] = c[q[i]] /\ b[i] = d[q[i]]
    BY <1>6, <1>8, <1>9
  <1>11. Covariance(a, b) = Covariance(c, d)
    BY <1>6, <1>8, <1>10, SameCovariance
  <1>12. Rearranged(a, c) /\ Rearranged(b, d)
    BY <1>6, <1>8, <1>10 DEF Rearranged
  <1>13. Len(a) = Len(c) /\ Scatter(a) = Scatter(c) /\ Scatter(b) = Scatter(d)
    BY <1>6, <1>12, SameAggregates
  <1> QED
    BY <1>6, <1>11, <1>13 DEF a, b, c, d, new, old, sorted

LEMMA FeaturesAgree ==
    ASSUME NEW rows, Readable(rows)
    PROVE  /\ SparkFeatures(rows) = ComputeFeatures(rows)
           /\ PandasFeatures(rows) = ComputeFeatures(rows)
  <1> DEFINE sorted == ByTime(rows)
             a == Column(Paired(sorted), "power")
             b == Column(Paired(sorted), "rpm")
             c == Column(Paired(rows), "power")
             d == Column(Paired(rows), "rpm")
             signals == [s \in Signals |-> [k \in Kinds |->
                             Aggregate(k, Points(sorted, s), Column(sorted, s))]]
             corr == PearsonCorrelation(a, b)
  <1>1. /\ Integral(a) /\ Integral(b) /\ Integral(c) /\ Integral(d)
        /\ Len(a) = Len(c) /\ Scatter(a) = Scatter(c) /\ Scatter(b) = Scatter(d)
        /\ Covariance(a, b) = Covariance(c, d)
    BY SamePairs
  <1>2. Len(sorted) = Len(rows) /\ NullShare(sorted) = NullShare(rows)
    BY Sorted, SameNullShare
  <1>3. [s \in Signals |-> [k \in Kinds |-> FeatureColumn(rows, s, k)]] = signals
    BY SparkAgrees
  <1>4. [s \in Signals |-> PandasColumns(sorted, s)] = signals
    BY PandasAgrees
  <1> DEFINE x == Scatter(a)
             y == Scatter(b)
             n == Len(a)
  <1>5. x \in Nat /\ y \in Nat /\ n \in Nat
    <2> HIDE DEF a, b
    <2> QED
      BY <1>1, IntegralFacts
  <1>6. ComputeFeatures(rows) =
            [signals |-> signals, corr |-> corr, samples |-> Len(sorted), nulls |-> NullShare(sorted)]
    BY DEF ComputeFeatures
  <1>7. SparkFeatures(rows) =
            [signals |-> [s \in Signals |-> [k \in Kinds |-> FeatureColumn(rows, s, k)]],
             corr |-> IF Len(c) > 1 /\ Scatter(c) * Scatter(d) # 0
                      THEN <<Covariance(c, d), Scatter(c), Scatter(d)>> ELSE Null,
             samples |-> Len(rows), nulls |-> NullShare(rows)]
    BY DEF SparkFeatures
  <1>8. PandasFeatures(rows) =
            [signals |-> [s \in Signals |-> PandasColumns(sorted, s)],
             corr |-> IF Len(a) >= 2 /\ Scatter(a) > 0 /\ Scatter(b) > 0
                      THEN <<Covariance(a, b), Scatter(a), Scatter(b)>> ELSE Null,
             samples |-> Len(sorted), nulls |-> NullShare(sorted)]
    BY DEF PandasFeatures
  <1>9. corr = IF n < 2 \/ x <= 0 \/ y <= 0 THEN Null ELSE <<Covariance(a, b), x, y>>
    BY DEF PearsonCorrelation
  <1> HIDE DEF signals, corr, a, b, c, d, sorted
  <1>10. n > 1 /\ x * y # 0 <=> ~(n < 2 \/ x <= 0 \/ y <= 0)
    <2> HIDE DEF x, y, n
    <2>1. x = 0 => x * y = 0
      BY <1>5
    <2>2. y = 0 => x * y = 0
      BY <1>5
    <2>3. x > 0 /\ y > 0 => x * y > 0
      BY <1>5
    <2> QED
      BY <1>5, <2>1, <2>2, <2>3
  <1>11. n >= 2 /\ x > 0 /\ y > 0 <=> ~(n < 2 \/ x <= 0 \/ y <= 0)
    <2> HIDE DEF x, y, n
    <2> QED
      BY <1>5
  <1>12. corr = IF Len(c) > 1 /\ Scatter(c) * Scatter(d) # 0
                THEN <<Covariance(c, d), Scatter(c), Scatter(d)>> ELSE Null
    BY <1>1, <1>9, <1>10
  <1>13. corr = IF Len(a) >= 2 /\ Scatter(a) > 0 /\ Scatter(b) > 0
                THEN <<Covariance(a, b), Scatter(a), Scatter(b)>> ELSE Null
    BY <1>9, <1>11
  <1>14. SparkFeatures(rows) = ComputeFeatures(rows)
    BY <1>2, <1>3, <1>6, <1>7, <1>12, Zenon
  <1>15. PandasFeatures(rows) = ComputeFeatures(rows)
    BY <1>4, <1>6, <1>8, <1>13, Zenon
  <1> QED
    BY <1>14, <1>15

-----------------------------------------------------------------------------
(* The topic *)

\* The messages of one machine, at any offsets of the accepted ones.
LEMMA PartIsReadable ==
    ASSUME topic \in Topics, NEW part, part \subseteq {o \in Offsets : Accepted(topic[o])},
           \A o, u \in part : topic[o].machine = topic[u].machine
    PROVE  /\ Readable(Subsequence(topic, part))
           /\ \A m \in Range(Subsequence(topic, part)) : m.time \in Int
  <1> DEFINE rows == Subsequence(topic, part)
  <1>1. Offsets = 1..Len(topic) /\ Len(topic) \in Nat
    BY TopicFacts
  <1>2. part \in SUBSET Int /\ IsFiniteSet(part)
    <2>1. part \in SUBSET (1..Len(topic)) /\ IsFiniteSet(1..Len(topic))
      BY <1>1, UpTo
    <2>2. IsFiniteSet(part)
      BY <2>1, FS_Subset
    <2> QED
      BY <2>1, <2>2
  <1>3. rows \in Seq(Range(rows)) /\ Range(rows) = {topic[o] : o \in part}
    BY <1>2, SubsequenceFacts
  <1>4. \A o \in part : topic[o] \in Range(topic) /\ Accepted(topic[o])
    BY DEF Offsets, Range
  <1> HIDE DEF rows
  <1>5. \A m \in Range(rows) : m.time \in Int /\ {m.rpm, m.power} \subseteq Int \cup {Null}
    BY <1>3, <1>4, TopicsAssumption
  <1>6. \A m, n \in Range(rows) : m.time = n.time => m = n
    BY <1>3, <1>4, TopicsAssumption
  <1>7. Null \notin Int
    BY TopicsAssumption
  <1> QED
    BY <1>3, <1>5, <1>6, <1>7 DEF Readable, rows

\* No skew between training and scoring: on every part of the topic the
\* reference, Spark's aggregates without an order of rows and pandas over
\* sorted rows compute the same features and the same windows.
THEOREM NoSkew == Spec => []TranslationsAgree
  <1>1. IInv => TranslationsAgree
    <2> SUFFICES ASSUME topic \in Topics,
                        NEW part, part \subseteq {o \in Offsets : Accepted(topic[o])},
                        \A o, u \in part : topic[o].machine = topic[u].machine
                 PROVE  LET rows == Subsequence(topic, part)
                        IN  /\ SparkFeatures(rows) = ComputeFeatures(rows)
                            /\ PandasFeatures(rows) = ComputeFeatures(rows)
                            /\ \A m \in Range(rows) :
                                   Covering(m.time) = Assigned(m.time, WindowLen, Slide)
      BY DEF IInv, ScoringInv, Basics, TranslationsAgree
    <2> DEFINE rows == Subsequence(topic, part)
    <2>1. Readable(rows) /\ \A m \in Range(rows) : m.time \in Int
      BY PartIsReadable
    <2> HIDE DEF rows
    <2>2. SparkFeatures(rows) = ComputeFeatures(rows) /\ PandasFeatures(rows) = ComputeFeatures(rows)
      BY <2>1, FeaturesAgree
    <2>3. \A m \in Range(rows) : Covering(m.time) = Assigned(m.time, WindowLen, Slide)
      BY <2>1, WindowsAgree
    <2> QED
      BY <2>2, <2>3 DEF rows
  <1> QED
    BY <1>1, Invariance, PTL
=============================================================================
