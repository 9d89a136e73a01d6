--------------------------- MODULE DashboardProofs ---------------------------
(***************************************************************************)
(* The three pages of the dashboard, each a specification of its own, for  *)
(* any alerts, filters, visits, navigations and failed requests.           *)
(***************************************************************************)
EXTENDS LiveView, HistoryPage, AlertDetailPage, FiniteSetTheorems, TLAPS

-----------------------------------------------------------------------------
(* The live page: the stream service *)

\* A timer only runs where no source is held, and a page that is left keeps
\* neither.
StreamInv ==
    /\ visible \in BOOLEAN /\ timer \in BOOLEAN
    /\ timer => source = "none"
    /\ ~visible => source = "none" /\ ~timer
    /\ leaked = 0

\* Steps that only move data, between the database and the screen.
LEMMA DataKept ==
    ASSUME StreamInv, UNCHANGED <<visible, source, timer, leaked>>
    PROVE  StreamInv'
BY DEF StreamInv

\* A new source is opened where none is held.
LEMMA OpenStep ==
    ASSUME StreamInv, source = "none", Open
    PROVE  source' = "connecting" /\ leaked' = 0
BY DEF StreamInv, Open

\* The page is entered, left, left again while a timer runs, or its stream
\* breaks: the service knows the source it has, if any.
LEMMA StreamStep ==
    ASSUME StreamInv, [Next]_vars
    PROVE  StreamInv'
<1>1. CASE UNCHANGED vars
  BY <1>1, DataKept DEF vars, pageVars, streamVars
<1>2. ASSUME NEW a \in Alert, NEW st, Write(a, st) PROVE StreamInv'
  BY <1>2, DataKept DEF Write, pageVars, streamVars
<1>3. ASSUME NEW c, ReadRow(c) \/ ReadFails(c) \/ Broadcast(c) PROVE StreamInv'
  BY <1>3, DataKept DEF ReadRow, ReadFails, Broadcast, pageVars, streamVars
<1>4. CASE OnEvent \/ Answer \/ \E p \in DOMAIN answers : OnPage(p)
  BY <1>4, DataKept DEF OnEvent, Answer, OnPage, pageVars, streamVars
<1>5. CASE Register \/ OnOpen
  <2>1. /\ source # "none" /\ visible' = visible /\ timer' = timer /\ leaked' = leaked
    BY <1>5 DEF Register, OnOpen, pageVars
  <2> QED
    BY <2>1 DEF StreamInv
<1>6. CASE Start
  <2>1. source = "none" /\ ~timer /\ Open /\ visible' = TRUE /\ timer' = timer
    BY <1>6 DEF Start, StreamInv
  <2> QED
    BY <2>1, OpenStep DEF StreamInv
<1>7. CASE Stop
  <2>1. visible' = FALSE /\ timer' = FALSE /\ source' = "none" /\ leaked' = leaked
    BY <1>7 DEF Stop, TimerAfterStop
  <2> QED
    BY <2>1 DEF StreamInv
<1>8. CASE OnError
  <2>1. /\ source # "none" /\ source' = "none" /\ timer' = TRUE /\ leaked' = leaked
        /\ visible' = visible
    BY <1>8 DEF OnError, Reschedules, pageVars
  <2> QED
    BY <2>1 DEF StreamInv
<1>9. CASE Cut \/ Crash
  <2>1. /\ source' = source \/ (source # "none" /\ source' = "cut")
        /\ visible' = visible /\ timer' = timer /\ leaked' = leaked
    BY <1>9 DEF Cut, Crash, pageVars
  <2> QED
    BY <2>1 DEF StreamInv
<1>10. CASE TimerFires
  <2>1. source = "none" /\ visible /\ Open /\ timer' = FALSE /\ visible' = visible
    BY <1>10 DEF TimerFires, StreamInv, pageVars
  <2> QED
    BY <2>1, OpenStep DEF StreamInv
<1>11. CASE OnRequestError \/ Retry
  BY <1>11, DataKept DEF OnRequestError, Retry, pageVars, streamVars
<1>12. CASE Service
  BY <1>2, <1>3, <1>9, <1>12 DEF Service, Insert, Revise, Acknowledge
<1> QED
  BY <1>1, <1>4, <1>5, <1>6, <1>7, <1>8, <1>10, <1>11, <1>12 DEF Next, Network

THEOREM StreamInvariance == Spec => []StreamInv
<1>1. Init => StreamInv
  BY DEF Init, StreamInv
<1> QED
  BY <1>1, StreamStep, PTL DEF Spec

\* However a user comes and goes while streams break and timers run, no
\* stream is opened while another is held.
THEOREM NoLeak == Spec => []NoStreamLeaked
<1>1. StreamInv => NoStreamLeaked
  BY DEF StreamInv, NoStreamLeaked
<1> QED
  BY <1>1, StreamInvariance, PTL

-----------------------------------------------------------------------------
(* The live page: what is on screen *)

Elements(s) == {s[i] : i \in DOMAIN s}

\* The commit of the row of an alert.
Commit(a) == database[a].commit

Above(a) == {b \in Stored : b > a}

\* No row of the feed is left for this alert.
Low(a) == Cardinality(Above(a)) >= FeedLimit

\* A row that the database has or has had.
Past(a, row) == row.commit <= Commit(a) /\ (row.commit = Commit(a) => row = database[a])

LiveTyped ==
    /\ database \in [Alert -> Row \cup {NoRow}] /\ IsFiniteSet(Stored)
    /\ version \in Nat /\ told \in [Alert -> Nat]
    /\ announcing \subseteq [alert : Alert, commit : Nat]
    /\ sending \subseteq [alert : Alert, commit : Nat, row : Row]
    /\ unannounced \subseteq Alert
    /\ channel \in Seq(Event)
    /\ asked \in Nat /\ IsABag(answers)
    /\ visits \in Nat /\ subscriptions = visits /\ (visible => visits > 0)
    /\ source \in {"none", "connecting", "registered", "open", "cut"}
    /\ source \notin {"registered", "open"} => channel = <<>>
    /\ error \in BOOLEAN
    /\ alerts \in Rows /\ \A p \in DOMAIN answers : p.version \in Nat /\ p.rows \in Rows

\* Commits are numbered by the version; only what is stored is announced, and
\* the map has been told of nothing that was not committed.
Counted ==
    /\ \A a \in Alert : Commit(a) <= version /\ told[a] <= Commit(a)
    /\ \A c \in announcing : c.alert \in Stored /\ 1 <= c.commit /\ c.commit <= version
    /\ \A s \in sending : 1 <= s.commit /\ s.commit <= version
    /\ \A p \in DOMAIN answers : p.version <= version

\* What is shown or on its way was committed; the map remembers the newest.
OnlyPast ==
    /\ \A s \in sending : Past(s.alert, s.row)
    /\ \A e \in Elements(channel) : Past(e.alert, e.row)
    /\ \A a \in DOMAIN alerts : Past(a, alerts[a]) /\ alerts[a].commit <= told[a]
    /\ \A p \in DOMAIN answers : \A a \in DOMAIN p.rows : Past(a, p.rows[a])

\* A page has the row of every alert that has not changed since.
PagesComplete ==
    \A p \in DOMAIN answers : \A a \in Stored :
        Commit(a) <= p.version => Low(a) \/ (a \in DOMAIN p.rows /\ p.rows[a] = database[a])

\* A load is under way, failed, or will be asked for when the source opens.
LoadOwed == asked > 0 \/ error \/ source # "open"

\* The row is on its way to the map, in an announcement or in a page.
Coming(a) ==
    \/ \E c \in announcing : c.alert = a
    \/ \E s \in sending : s.alert = a /\ s.row.commit = Commit(a)
    \/ \E e \in Elements(channel) : e.alert = a /\ e.row.commit = Commit(a)
    \/ \E p \in DOMAIN answers : Commit(a) <= p.version
    \/ LoadOwed

\* The map has had the row of every alert of the feed, or it is coming, or the
\* service told no one.
AllTold ==
    \A a \in Stored : Low(a) \/ told[a] = Commit(a) \/ a \in unannounced \/ Coming(a)

LiveInv == StreamInv /\ LiveTyped /\ Counted /\ OnlyPast /\ PagesComplete /\ AllTold

\* Sequences of events, end by end.
LEMMA ElementsTail ==
    ASSUME NEW S, NEW s \in Seq(S), s # <<>>
    PROVE  /\ Tail(s) \in Seq(S) /\ Head(s) \in S
           /\ Elements(s) = {Head(s)} \cup Elements(Tail(s))
<1>1. /\ Tail(s) \in Seq(S) /\ Head(s) \in S /\ Head(s) = s[1]
      /\ Len(s) \in Nat /\ Len(s) > 0 /\ Len(Tail(s)) = Len(s) - 1
      /\ DOMAIN s = 1..Len(s) /\ DOMAIN Tail(s) = 1..(Len(s) - 1)
      /\ \A i \in 1..(Len(s) - 1) : Tail(s)[i] = s[i + 1]
  OBVIOUS
<1>2. ASSUME NEW i \in DOMAIN s PROVE s[i] \in {Head(s)} \cup Elements(Tail(s))
  <2>1. CASE i = 1
    BY <1>1, <2>1
  <2>2. CASE i # 1
    <3>1. i - 1 \in DOMAIN Tail(s) /\ Tail(s)[i - 1] = s[i]
      BY <1>1, <2>2
    <3> QED
      BY <3>1 DEF Elements
  <2> QED
    BY <2>1, <2>2
<1>3. ASSUME NEW i \in DOMAIN Tail(s) PROVE Tail(s)[i] \in Elements(s)
  <2>1. i + 1 \in DOMAIN s /\ Tail(s)[i] = s[i + 1]
    BY <1>1
  <2> QED
    BY <2>1 DEF Elements
<1>4. Head(s) \in Elements(s)
  BY <1>1 DEF Elements
<1> QED
  BY <1>1, <1>2, <1>3, <1>4 DEF Elements

LEMMA ElementsAppend ==
    ASSUME NEW S, NEW s \in Seq(S), NEW e \in S
    PROVE  Append(s, e) \in Seq(S) /\ Elements(Append(s, e)) = Elements(s) \cup {e}
<1>1. /\ Append(s, e) \in Seq(S) /\ Len(Append(s, e)) = Len(s) + 1 /\ Len(s) \in Nat
      /\ DOMAIN s = 1..Len(s) /\ DOMAIN Append(s, e) = 1..(Len(s) + 1)
      /\ \A i \in 1..Len(s) : Append(s, e)[i] = s[i]
      /\ Append(s, e)[Len(s) + 1] = e
  OBVIOUS
<1>2. Elements(Append(s, e)) \subseteq Elements(s) \cup {e}
  BY <1>1 DEF Elements
<1>3. Elements(s) \cup {e} \subseteq Elements(Append(s, e))
  <2>1. Len(s) + 1 \in 1..(Len(s) + 1) /\ \A i \in 1..Len(s) : i \in 1..(Len(s) + 1)
    BY <1>1
  <2> QED
    BY <1>1, <2>1 DEF Elements
<1> QED
  BY <1>1, <1>2, <1>3

LEMMA ElementsTyped ==
    ASSUME NEW S, NEW s \in Seq(S)
    PROVE  Elements(s) \subseteq S
BY DEF Elements

LEMMA ElementsEmpty ==
    ASSUME NEW S
    PROVE  <<>> \in Seq(S) /\ Elements(<<>>) = {}
BY DEF Elements

\* Bags of pages.
LEMMA PageAdded ==
    ASSUME IsABag(answers), NEW p, answers' = answers (+) SetToBag({p})
    PROVE  IsABag(answers') /\ DOMAIN answers' = DOMAIN answers \cup {p}
BY DEF IsABag, (+), SetToBag

LEMMA PageRemoved ==
    ASSUME IsABag(answers), NEW p \in DOMAIN answers, answers' = answers (-) SetToBag({p})
    PROVE  /\ IsABag(answers') /\ DOMAIN answers' \subseteq DOMAIN answers
           /\ DOMAIN answers \ {p} \subseteq DOMAIN answers'
<1> DEFINE B == [e \in DOMAIN answers |-> IF e \in {p} THEN answers[e] - 1 ELSE answers[e]]
<1>1. /\ answers' = [e \in {d \in DOMAIN B : B[d] > 0} |-> B[e]]
      /\ \A d \in DOMAIN answers : answers[d] \in Nat /\ answers[d] > 0
  BY DEF IsABag, (-), SetToBag
<1>2. \A d \in DOMAIN B : B[d] \in Nat
  BY <1>1
<1>3. \A d \in DOMAIN answers \ {p} : B[d] > 0 /\ d \in DOMAIN B
  BY <1>1
<1>4. DOMAIN answers' = {d \in DOMAIN B : B[d] > 0} /\ DOMAIN B = DOMAIN answers
  BY <1>1
<1> HIDE DEF B
<1>5. answers' \in [DOMAIN answers' -> {n \in Nat : n > 0}]
  BY <1>1, <1>2, <1>4
<1> QED
  BY <1>3, <1>4, <1>5 DEF IsABag

\* Rows, and the commits that wrote them.
LEMMA RowFacts ==
    ASSUME LiveTyped
    PROVE  /\ \A r \in Row : r.commit \in Nat /\ r.commit > 0 /\ r.status \in Status
           /\ NoRow.commit = 0 /\ NoRow \notin Row
           /\ \A a \in Alert : Commit(a) \in Nat /\ database[a] \in Row \cup {NoRow}
           /\ \A a \in Alert : a \in Stored <=> Commit(a) > 0
           /\ \A a \in Stored : a \in Alert /\ database[a] \in Row
<1>1. \A r \in Row : r.commit \in Nat /\ r.commit > 0 /\ r.status \in Status
  BY DEF Row
<1>2. NoRow.commit = 0 /\ NoRow \notin Row
  BY <1>1 DEF NoRow
<1>3. \A a \in Alert : database[a] \in Row \cup {NoRow}
  BY DEF LiveTyped
<1>4. ASSUME NEW a \in Alert PROVE Commit(a) \in Nat /\ (a \in Stored <=> Commit(a) > 0)
  <2>1. CASE database[a] = NoRow
    BY <1>2, <2>1 DEF Commit, Stored
  <2>2. CASE database[a] \in Row
    <3>1. database[a] # NoRow
      BY <1>2, <2>2
    <3> QED
      BY <1>1, <2>2, <3>1 DEF Commit, Stored
  <2> QED
    BY <1>3, <2>1, <2>2
<1> QED
  BY <1>1, <1>2, <1>3, <1>4 DEF Stored

LEMMA RowsFacts ==
    ASSUME NEW rows \in Rows
    PROVE  DOMAIN rows \subseteq Alert /\ \A a \in DOMAIN rows : rows[a] \in Row
BY DEF Rows

\* What a page has, and what it leaves out.
LEMMA PageFacts ==
    ASSUME LiveTyped
    PROVE  /\ Page \in Rows /\ DOMAIN Page \subseteq Stored
           /\ \A a \in DOMAIN Page : Page[a] = database[a]
           /\ \A a \in Stored : Low(a) <=> a \notin DOMAIN Page
<1>1. /\ DOMAIN Page = {a \in Stored : Cardinality(Above(a)) < FeedLimit}
      /\ \A a \in DOMAIN Page : Page[a] = database[a]
      /\ Page = [a \in DOMAIN Page |-> Page[a]]
  BY DEF Page, Newest, Above
<1>2. ASSUME NEW a PROVE Cardinality(Above(a)) \in Nat
  <2>1. Above(a) \subseteq Stored /\ IsFiniteSet(Stored)
    BY DEF Above, LiveTyped
  <2> QED
    BY <2>1, FS_Subset, FS_CardinalityType
<1>3. \A a \in Stored : Low(a) <=> a \notin DOMAIN Page
  BY <1>1, <1>2, LiveAssumption DEF Low
<1>4. DOMAIN Page \in SUBSET Alert /\ Page \in [DOMAIN Page -> Row]
  BY <1>1, RowFacts
<1> QED
  BY <1>1, <1>3, <1>4 DEF Rows

\* What is on its way may go, as long as a load is owed for it or nothing of
\* it is lost.
LEMMA Dropped ==
    ASSUME LiveInv, UNCHANGED <<database, version, answers, alerts, told>>,
           announcing' \subseteq announcing, sending' \subseteq sending,
           Elements(channel') \subseteq Elements(channel)
    PROVE  Counted' /\ OnlyPast' /\ PagesComplete'
<1> USE DEF LiveInv
<1>1. /\ \A a : Commit(a)' = Commit(a) /\ Low(a)' = Low(a)
      /\ Stored' = Stored /\ \A a, row : Past(a, row)' = Past(a, row)
  BY DEF Commit, Stored, Low, Above, Past
<1>2. Counted'
  BY <1>1 DEF Counted
<1>3. OnlyPast'
  BY <1>1 DEF OnlyPast
<1>4. PagesComplete'
  BY <1>1 DEF PagesComplete
<1> QED
  BY <1>2, <1>3, <1>4

-----------------------------------------------------------------------------
(* The live page: the service commits *)

\* What a commit leaves as it was, and what it moves on.
LEMMA WriteFacts ==
    ASSUME LiveInv, NEW a \in Alert, NEW st \in Status, Write(a, st)
    PROVE  /\ version' = version + 1 /\ version' \in Nat
           /\ database' = [database EXCEPT ![a] = [status |-> st, commit |-> version + 1]]
           /\ database' \in [Alert -> Row \cup {NoRow}]
           /\ Commit(a)' = version + 1 /\ Commit(a) <= version
           /\ \A b \in Alert \ {a} : database'[b] = database[b] /\ Commit(b)' = Commit(b)
           /\ Stored' = Stored \cup {a} /\ IsFiniteSet(Stored')
           /\ \A b : Low(b) => Low(b)'
           /\ \A b \in Alert, row \in Row : Past(b, row) => Past(b, row)'
<1> USE DEF LiveInv
<1>1. /\ version' = version + 1 /\ version \in Nat /\ version' \in Nat
      /\ database' = [database EXCEPT ![a] = [status |-> st, commit |-> version + 1]]
  BY DEF Write, LiveTyped
<1> DEFINE new == [status |-> st, commit |-> version + 1]
<1>2. new \in Row /\ new.commit = version + 1
  <2>1. version + 1 \in 1..MaxCommits
    BY <1>1, LiveAssumption DEF Write
  <2> QED
    BY <2>1 DEF Row
<1>3. /\ database \in [Alert -> Row \cup {NoRow}] /\ database' \in [Alert -> Row \cup {NoRow}]
      /\ database'[a] = new /\ \A b \in Alert \ {a} : database'[b] = database[b]
  BY <1>1, <1>2 DEF LiveTyped
<1> HIDE DEF new
<1>4. /\ Commit(a)' = version + 1 /\ Commit(a) <= version
      /\ \A b \in Alert \ {a} : Commit(b)' = Commit(b)
  BY <1>2, <1>3 DEF Commit, Counted
<1>5. Stored' = Stored \cup {a} /\ IsFiniteSet(Stored')
  <2>1. new # NoRow
    BY <1>2, RowFacts
  <2>2. Stored' = Stored \cup {a}
    BY <1>3, <2>1 DEF Stored
  <2>3. IsFiniteSet(Stored)
    BY DEF LiveTyped
  <2> QED
    BY <2>2, <2>3, FS_AddElement
<1>6. ASSUME NEW b, Low(b) PROVE Low(b)'
  <2>1. Above(b) \subseteq Above(b)' /\ IsFiniteSet(Above(b)') /\ IsFiniteSet(Above(b))
    <3>1. Above(b) \subseteq Above(b)' /\ Above(b)' \subseteq Stored' /\ Above(b) \subseteq Stored
      BY <1>5 DEF Above
    <3> QED
      BY <1>5, <3>1, FS_Subset DEF LiveTyped
  <2>2. /\ Cardinality(Above(b)) \in Nat /\ Cardinality(Above(b)') \in Nat
        /\ Cardinality(Above(b)) <= Cardinality(Above(b)')
    BY <2>1, FS_Subset, FS_CardinalityType
  <2> QED
    BY <1>6, <2>2, LiveAssumption DEF Low
<1>7. ASSUME NEW b \in Alert, NEW row \in Row, Past(b, row) PROVE Past(b, row)'
  <2>1. row.commit \in Nat /\ Commit(b) \in Nat
    BY RowFacts
  <2>2. CASE b = a
    BY <1>1, <1>4, <1>7, <2>1, <2>2 DEF Past
  <2>3. CASE b # a
    BY <1>3, <1>4, <1>7, <2>3 DEF Past
  <2> QED
    BY <2>2, <2>3
<1> QED
  BY <1>1, <1>3, <1>4, <1>5, <1>6, <1>7 DEF new

\* A row is written: it is announced, or known not to be.
LEMMA CommitStep ==
    ASSUME LiveInv, StreamInv', NEW a \in Alert, Insert(a) \/ Revise(a) \/ Acknowledge(a)
    PROVE  LiveInv'
<1> USE DEF LiveInv
<1>1. PICK st \in Status : Write(a, st)
  BY DEF Insert, Revise, Acknowledge, Status
<1> DEFINE c == [alert |-> a, commit |-> version + 1]
<1>2. \/ announcing' = announcing \cup {c} /\ unannounced' = unannounced
      \/ announcing' = announcing /\ unannounced' = unannounced \cup {a}
  BY DEF Insert, Revise, Acknowledge, Announced
<1>3. UNCHANGED <<sending, streamVars, storeVars, requestVars, pageVars, faults>>
  BY <1>1 DEF Write
<1>4. /\ sending' = sending /\ channel' = channel /\ answers' = answers /\ alerts' = alerts
      /\ told' = told /\ asked' = asked /\ error' = error /\ source' = source
  BY <1>3 DEF streamVars, storeVars, requestVars
<1>5. /\ version' = version + 1 /\ version' \in Nat /\ version \in Nat
      /\ database' \in [Alert -> Row \cup {NoRow}]
      /\ Commit(a)' = version + 1 /\ Commit(a) <= version
      /\ \A b \in Alert \ {a} : database'[b] = database[b] /\ Commit(b)' = Commit(b)
      /\ Stored' = Stored \cup {a} /\ IsFiniteSet(Stored')
      /\ \A b : Low(b) => Low(b)'
      /\ \A b \in Alert, row \in Row : Past(b, row) => Past(b, row)'
  BY <1>1, WriteFacts DEF LiveTyped
<1>6. c \in [alert : Alert, commit : Nat] /\ c.alert = a /\ c.commit = version + 1
  BY <1>5
<1> HIDE DEF c
<1>7. LiveTyped'
  <2>1. announcing' \subseteq [alert : Alert, commit : Nat] /\ unannounced' \subseteq Alert
    BY <1>2, <1>6 DEF LiveTyped
  <2> QED
    BY <1>3, <1>4, <1>5, <2>1 DEF LiveTyped, pageVars, streamVars, requestVars
<1>8. Counted'
  <2>1. \A b \in Alert : /\ Commit(b) \in Nat /\ told[b] \in Nat
                         /\ Commit(b) <= version /\ told[b] <= Commit(b)
    BY RowFacts DEF LiveTyped, Counted
  <2>2. \A b \in Alert : Commit(b)' <= version' /\ told'[b] <= Commit(b)'
    BY <1>4, <1>5, <2>1
  <2>3. \A d \in announcing' : d.alert \in Stored' /\ 1 <= d.commit /\ d.commit <= version'
    <3>1. \A d \in announcing : d.commit \in Nat
      BY DEF LiveTyped
    <3> QED
      BY <1>2, <1>5, <1>6, <3>1 DEF Counted
  <2>4. \A s \in sending' : 1 <= s.commit /\ s.commit <= version'
    <3>1. \A s \in sending : s.commit \in Nat
      BY DEF LiveTyped
    <3> QED
      BY <1>4, <1>5, <3>1 DEF Counted
  <2>5. \A p \in DOMAIN answers' : p.version <= version'
    BY <1>4, <1>5 DEF Counted, LiveTyped
  <2> QED
    BY <2>2, <2>3, <2>4, <2>5 DEF Counted
<1>9. OnlyPast'
  <2>1. \A s \in sending : s.alert \in Alert /\ s.row \in Row
    BY DEF LiveTyped
  <2>2. \A e \in Elements(channel) : e.alert \in Alert /\ e.row \in Row
    <3>1. Elements(channel) \subseteq Event
      BY ElementsTyped DEF LiveTyped
    <3> QED
      BY <3>1 DEF Event
  <2>3. \A b \in DOMAIN alerts : b \in Alert /\ alerts[b] \in Row
    BY RowsFacts DEF LiveTyped
  <2>4. \A p \in DOMAIN answers : \A b \in DOMAIN p.rows : b \in Alert /\ p.rows[b] \in Row
    BY RowsFacts DEF LiveTyped
  <2> QED
    BY <1>4, <1>5, <2>1, <2>2, <2>3, <2>4 DEF OnlyPast
<1>10. PagesComplete'
  <2> SUFFICES ASSUME NEW p \in DOMAIN answers, NEW b \in Stored', Commit(b)' <= p.version
               PROVE  Low(b)' \/ (b \in DOMAIN p.rows /\ p.rows[b] = database'[b])
    BY <1>4 DEF PagesComplete
  <2>1. b # a
    <3>1. p.version <= version /\ p.version \in Nat
      BY DEF Counted, LiveTyped
    <3> QED
      BY <1>5, <3>1
  <2>2. b \in Stored /\ b \in Alert
    BY <1>5, <2>1, RowFacts
  <2> QED
    BY <1>5, <2>1, <2>2 DEF PagesComplete
<1>11. AllTold'
  <2> SUFFICES ASSUME NEW b \in Stored'
               PROVE  Low(b)' \/ told'[b] = Commit(b)' \/ b \in unannounced' \/ Coming(b)'
    BY DEF AllTold
  <2>1. CASE b = a
    BY <1>2, <1>6, <2>1 DEF Coming
  <2>2. CASE b # a
    <3>1. b \in Stored /\ b \in Alert /\ Commit(b)' = Commit(b)
      BY <1>5, <2>2, RowFacts
    <3>2. Low(b) \/ told[b] = Commit(b) \/ b \in unannounced \/ Coming(b)
      BY <3>1 DEF AllTold
    <3>3. Coming(b) => Coming(b)'
      BY <1>2, <1>4, <3>1 DEF Coming, LoadOwed
    <3> QED
      BY <1>2, <1>4, <1>5, <3>1, <3>2, <3>3
  <2> QED
    BY <2>1, <2>2
<1> QED
  BY <1>7, <1>8, <1>9, <1>10, <1>11

-----------------------------------------------------------------------------
(* The live page: the service announces *)

\* The row is read for the broadcast as the database has it, or cannot be read.
LEMMA ReadStep ==
    ASSUME LiveInv, StreamInv', NEW c \in announcing, ReadRow(c) \/ ReadFails(c)
    PROVE  LiveInv'
<1> USE DEF LiveInv
<1> DEFINE s == [alert |-> c.alert, commit |-> c.commit, row |-> database[c.alert]]
<1>1. /\ announcing' = announcing \ {c}
      /\ \/ sending' = sending \cup {s} /\ unannounced' = unannounced \ {c.alert}
         \/ sending' = sending /\ unannounced' = unannounced \cup {c.alert}
      /\ UNCHANGED <<database, version, streamVars, storeVars, requestVars, pageVars>>
  BY DEF ReadRow, ReadFails
<1>2. /\ channel' = channel /\ answers' = answers /\ alerts' = alerts
      /\ told' = told /\ asked' = asked /\ error' = error /\ source' = source
      /\ database' = database /\ version' = version
  BY <1>1 DEF streamVars, storeVars, requestVars
<1>3. /\ c.alert \in Alert /\ c.commit \in Nat /\ 1 <= c.commit /\ c.commit <= version
      /\ database[c.alert] \in Row
  BY RowFacts DEF LiveTyped, Counted
<1>4. /\ s \in [alert : Alert, commit : Nat, row : Row]
      /\ s.alert = c.alert /\ s.commit = c.commit /\ s.row = database[c.alert]
  BY <1>3
<1> HIDE DEF s
<1>5. /\ \A b : Commit(b)' = Commit(b) /\ Low(b)' = Low(b)
      /\ Stored' = Stored /\ \A b, row : Past(b, row)' = Past(b, row)
  BY <1>2 DEF Commit, Stored, Low, Above, Past
<1>6. LiveTyped'
  <2>1. /\ announcing' \subseteq [alert : Alert, commit : Nat] /\ unannounced' \subseteq Alert
        /\ sending' \subseteq [alert : Alert, commit : Nat, row : Row]
    BY <1>1, <1>3, <1>4 DEF LiveTyped
  <2> QED
    BY <1>1, <1>2, <1>5, <2>1 DEF LiveTyped, pageVars, streamVars, requestVars
<1>7. Counted'
  BY <1>1, <1>2, <1>3, <1>4, <1>5 DEF Counted
<1>8. OnlyPast'
  <2>1. Past(s.alert, s.row)
    BY <1>3, <1>4, RowFacts DEF Past, Commit
  <2> QED
    BY <1>1, <1>2, <1>5, <2>1 DEF OnlyPast
<1>9. PagesComplete'
  BY <1>2, <1>5 DEF PagesComplete
<1>10. AllTold'
  <2> SUFFICES ASSUME NEW b \in Stored
               PROVE  Low(b) \/ told[b] = Commit(b) \/ b \in unannounced' \/ Coming(b)'
    BY <1>2, <1>5 DEF AllTold
  <2>1. CASE b = c.alert
    BY <1>1, <1>4, <1>5, <2>1 DEF Coming, Commit
  <2>2. CASE b # c.alert
    <3>1. Coming(b) => Coming(b)'
      BY <1>1, <1>2, <1>5, <2>2 DEF Coming, LoadOwed
    <3> QED
      BY <1>1, <2>2, <3>1 DEF AllTold
  <2> QED
    BY <2>1, <2>2
<1> QED
  BY <1>6, <1>7, <1>8, <1>9, <1>10

\* A row is sent to the source, if it is registered.
LEMMA BroadcastStep ==
    ASSUME LiveInv, StreamInv', NEW s \in sending, Broadcast(s)
    PROVE  LiveInv'
<1> USE DEF LiveInv
<1> DEFINE e == [alert |-> s.alert, row |-> s.row]
<1>1. /\ sending' = sending \ {s}
      /\ channel' = IF source \in {"registered", "open"} THEN Append(channel, e) ELSE channel
      /\ UNCHANGED <<database, version, announcing, unannounced, source, leaked, timer,
                     storeVars, requestVars, pageVars, faults>>
  BY DEF Broadcast
<1>2. /\ announcing' = announcing /\ unannounced' = unannounced /\ answers' = answers
      /\ alerts' = alerts /\ told' = told /\ asked' = asked /\ error' = error
      /\ source' = source /\ database' = database /\ version' = version
  BY <1>1 DEF storeVars, requestVars
<1>3. s \in [alert : Alert, commit : Nat, row : Row]
  BY DEF LiveTyped
<1>4. e \in Event /\ e.alert = s.alert /\ e.row = s.row
  BY <1>3 DEF Event
<1> HIDE DEF e
<1>5. /\ channel' \in Seq(Event) /\ Elements(channel) \subseteq Elements(channel')
      /\ Elements(channel') \subseteq Elements(channel) \cup {e}
      /\ source = "open" => e \in Elements(channel')
      /\ source \notin {"registered", "open"} => channel' = <<>>
  <2>1. channel \in Seq(Event)
    BY DEF LiveTyped
  <2>2. CASE source \in {"registered", "open"}
    <3>1. channel' = Append(channel, e)
      BY <1>1, <2>2
    <3>2. channel' \in Seq(Event) /\ Elements(channel') = Elements(channel) \cup {e}
      BY <1>4, <2>1, <3>1, ElementsAppend
    <3> QED
      BY <2>2, <3>2
  <2>3. CASE source \notin {"registered", "open"}
    BY <1>1, <2>1, <2>3 DEF LiveTyped
  <2> QED
    BY <2>2, <2>3
<1>6. /\ \A b : Commit(b)' = Commit(b) /\ Low(b)' = Low(b)
      /\ Stored' = Stored /\ \A b, row : Past(b, row)' = Past(b, row)
  BY <1>2 DEF Commit, Stored, Low, Above, Past
<1>7. LiveTyped'
  BY <1>1, <1>2, <1>5, <1>6 DEF LiveTyped, pageVars
<1>8. Counted'
  BY <1>1, <1>2, <1>6 DEF Counted
<1>9. OnlyPast'
  <2>1. Past(e.alert, e.row)
    BY <1>4 DEF OnlyPast
  <2> QED
    BY <1>1, <1>2, <1>5, <1>6, <2>1 DEF OnlyPast
<1>10. PagesComplete'
  BY <1>2, <1>6 DEF PagesComplete
<1>11. AllTold'
  <2> SUFFICES ASSUME NEW b \in Stored, Coming(b)
               PROVE  Coming(b)'
    BY <1>2, <1>6 DEF AllTold
  <2>1. CASE LoadOwed
    BY <1>2, <2>1 DEF Coming, LoadOwed
  <2>2. CASE s.alert = b /\ s.row.commit = Commit(b) /\ source = "open"
    BY <1>4, <1>5, <1>6, <2>2 DEF Coming
  <2>3. CASE ~LoadOwed /\ ~(s.alert = b /\ s.row.commit = Commit(b))
    BY <1>1, <1>2, <1>5, <1>6, <2>3 DEF Coming
  <2> QED
    BY <2>1, <2>2, <2>3 DEF LoadOwed
<1> QED
  BY <1>7, <1>8, <1>9, <1>10, <1>11

-----------------------------------------------------------------------------
(* The live page: the page asks and is answered *)

\* A page is read: the row of every alert is on its way.
LEMMA AnswerStep ==
    ASSUME LiveInv, StreamInv', Answer
    PROVE  LiveInv'
<1> USE DEF LiveInv
<1> DEFINE page == [version |-> version, rows |-> Page]
<1>1. /\ asked > 0 /\ asked' = asked - 1 /\ answers' = answers (+) SetToBag({page})
      /\ unannounced' = {}
      /\ UNCHANGED <<database, version, announcing, sending, streamVars, storeVars, loading,
                     error, pageVars, faults>>
  BY DEF Answer
<1>2. IsABag(answers') /\ DOMAIN answers' = DOMAIN answers \cup {page}
  BY <1>1, PageAdded DEF LiveTyped
<1>3. /\ announcing' = announcing /\ sending' = sending /\ channel' = channel
      /\ alerts' = alerts /\ told' = told /\ error' = error /\ source' = source
      /\ database' = database /\ version' = version
  BY <1>1 DEF streamVars, storeVars
<1>4. /\ \A b : Commit(b)' = Commit(b) /\ Low(b)' = Low(b)
      /\ Stored' = Stored /\ \A b, row : Past(b, row)' = Past(b, row)
  BY <1>3 DEF Commit, Stored, Low, Above, Past
<1>5. /\ Page \in Rows /\ DOMAIN Page \subseteq Stored
      /\ \A b \in DOMAIN Page : Page[b] = database[b]
      /\ \A b \in Stored : Low(b) \/ b \in DOMAIN Page
  BY PageFacts
<1>6. page.version = version /\ page.rows = Page
  OBVIOUS
<1> HIDE DEF page
<1>7. LiveTyped'
  <2>1. asked' \in Nat /\ version \in Nat
    BY <1>1 DEF LiveTyped
  <2>2. \A p \in DOMAIN answers' : p.version \in Nat /\ p.rows \in Rows
    BY <1>2, <1>5, <1>6, <2>1 DEF LiveTyped
  <2> QED
    BY <1>1, <1>2, <1>3, <1>4, <2>1, <2>2 DEF LiveTyped, pageVars
<1>8. Counted'
  <2>1. \A p \in DOMAIN answers' : p.version <= version
    BY <1>2, <1>6 DEF Counted, LiveTyped
  <2> QED
    BY <1>3, <1>4, <2>1 DEF Counted
<1>9. OnlyPast'
  <2>1. \A b \in DOMAIN page.rows : Past(b, page.rows[b])
    BY <1>5, <1>6, RowFacts DEF Past, Commit
  <2>2. \A p \in DOMAIN answers' : \A b \in DOMAIN p.rows : Past(b, p.rows[b])
    BY <1>2, <2>1 DEF OnlyPast
  <2> QED
    BY <1>3, <1>4, <2>2 DEF OnlyPast
<1>10. PagesComplete'
  <2>1. \A b \in Stored : Low(b) \/ (b \in DOMAIN page.rows /\ page.rows[b] = database[b])
    BY <1>5, <1>6
  <2> QED
    BY <1>2, <1>3, <1>4, <2>1 DEF PagesComplete
<1>11. AllTold'
  <2>1. \A b \in Stored : Commit(b) <= page.version
    BY <1>6, RowFacts DEF Counted
  <2> QED
    BY <1>2, <1>4, <2>1 DEF AllTold, Coming
<1> QED
  BY <1>7, <1>8, <1>9, <1>10, <1>11

\* An event is put on screen, older or newer than what was there.
LEMMA OnEventStep ==
    ASSUME LiveInv, StreamInv', OnEvent
    PROVE  LiveInv'
<1> USE DEF LiveInv
<1> DEFINE e == Head(channel)
<1>1. /\ source = "open" /\ channel # <<>> /\ channel' = Tail(channel)
      /\ alerts' = [a \in DOMAIN alerts \cup {e.alert} |->
                       IF a = e.alert THEN e.row ELSE alerts[a]]
      /\ told' = [told EXCEPT ![e.alert] = Later(told[e.alert], e.row.commit)]
      /\ UNCHANGED <<serverVars, source, leaked, timer, requestVars, pageVars, faults>>
  BY DEF OnEvent
<1>2. /\ announcing' = announcing /\ sending' = sending /\ unannounced' = unannounced
      /\ answers' = answers /\ asked' = asked /\ error' = error
      /\ source' = source /\ database' = database /\ version' = version
  BY <1>1 DEF serverVars, requestVars
<1>3. channel' \in Seq(Event) /\ e \in Event /\ Elements(channel) = {e} \cup Elements(channel')
  BY <1>1, ElementsTail DEF LiveTyped
<1> HIDE DEF e
<1>4. e.alert \in Alert /\ e.row \in Row /\ Past(e.alert, e.row)
  BY <1>3 DEF Event, OnlyPast
<1>5. /\ \A b : Commit(b)' = Commit(b) /\ Low(b)' = Low(b)
      /\ Stored' = Stored /\ \A b, row : Past(b, row)' = Past(b, row)
  BY <1>2 DEF Commit, Stored, Low, Above, Past
<1>6. /\ told \in [Alert -> Nat] /\ e.row.commit \in Nat /\ Commit(e.alert) \in Nat
      /\ told[e.alert] \in Nat /\ told[e.alert] <= Commit(e.alert)
      /\ e.row.commit <= Commit(e.alert)
  BY <1>4, RowFacts DEF LiveTyped, Counted, Past
<1>7. /\ told' \in [Alert -> Nat] /\ \A b \in Alert \ {e.alert} : told'[b] = told[b]
      /\ told'[e.alert] >= told[e.alert] /\ told'[e.alert] >= e.row.commit
      /\ told'[e.alert] <= Commit(e.alert) /\ told'[e.alert] \in Nat
  BY <1>1, <1>4, <1>6 DEF Later
<1>8. LiveTyped'
  <2>1. alerts' \in Rows
    <3>1. PICK held \in SUBSET Alert : alerts \in [held -> Row]
      BY DEF LiveTyped, Rows
    <3>2. /\ held \cup {e.alert} \in SUBSET Alert
          /\ alerts' \in [held \cup {e.alert} -> Row]
      BY <1>1, <1>4, <3>1
    <3> QED
      BY <3>2 DEF Rows
  <2> QED
    BY <1>1, <1>2, <1>3, <1>5, <1>7, <2>1 DEF LiveTyped, pageVars
<1>9. Counted'
  BY <1>2, <1>5, <1>7 DEF Counted
<1>10. OnlyPast'
  <2>1. ASSUME NEW b \in DOMAIN alerts' PROVE Past(b, alerts'[b]) /\ alerts'[b].commit <= told'[b]
    <3>1. CASE b = e.alert
      BY <1>1, <1>4, <1>6, <1>7, <3>1
    <3>2. CASE b # e.alert
      <4>1. b \in DOMAIN alerts /\ b \in Alert /\ alerts'[b] = alerts[b]
        BY <1>1, <3>2, RowsFacts DEF LiveTyped
      <4> QED
        BY <1>7, <3>2, <4>1 DEF OnlyPast
    <3> QED
      BY <3>1, <3>2
  <2> QED
    BY <1>2, <1>3, <1>5, <2>1 DEF OnlyPast
<1>11. PagesComplete'
  BY <1>2, <1>5 DEF PagesComplete
<1>12. AllTold'
  <2> SUFFICES ASSUME NEW b \in Stored
               PROVE  Low(b) \/ told'[b] = Commit(b) \/ b \in unannounced \/ Coming(b)'
    BY <1>2, <1>5 DEF AllTold
  <2>0. b \in Alert
    BY RowFacts
  <2>1. CASE told[b] = Commit(b)
    BY <1>6, <1>7, <2>0, <2>1
  <2>2. CASE e.alert = b /\ e.row.commit = Commit(b)
    BY <1>6, <1>7, <2>2
  <2>3. CASE Coming(b) /\ ~(e.alert = b /\ e.row.commit = Commit(b))
    BY <1>2, <1>3, <1>5, <2>3 DEF Coming, LoadOwed
  <2> QED
    BY <2>1, <2>2, <2>3 DEF AllTold
<1> QED
  BY <1>8, <1>9, <1>10, <1>11, <1>12

\* A page replaces what is on screen, older or newer than it.
LEMMA OnPageStep ==
    ASSUME LiveInv, StreamInv', NEW p \in DOMAIN answers, OnPage(p)
    PROVE  LiveInv'
<1> USE DEF LiveInv
<1>1. /\ answers' = answers (-) SetToBag({p}) /\ alerts' = p.rows
      /\ told' = [a \in Alert |-> Later(told[a], In(p.rows, a).commit)]
      /\ UNCHANGED <<serverVars, streamVars, asked, error, pageVars, faults>>
  BY DEF OnPage
<1>2. IsABag(answers') /\ DOMAIN answers' \subseteq DOMAIN answers
        /\ DOMAIN answers \ {p} \subseteq DOMAIN answers'
  BY <1>1, PageRemoved DEF LiveTyped
<1>3. /\ announcing' = announcing /\ sending' = sending /\ unannounced' = unannounced
      /\ channel' = channel /\ asked' = asked /\ error' = error
      /\ source' = source /\ database' = database /\ version' = version
  BY <1>1 DEF serverVars, streamVars
<1>4. /\ \A b : Commit(b)' = Commit(b) /\ Low(b)' = Low(b)
      /\ Stored' = Stored /\ \A b, row : Past(b, row)' = Past(b, row)
  BY <1>3 DEF Commit, Stored, Low, Above, Past
<1>5. /\ p.rows \in Rows /\ DOMAIN p.rows \subseteq Alert
      /\ \A b \in DOMAIN p.rows : p.rows[b] \in Row /\ Past(b, p.rows[b])
  BY RowsFacts DEF LiveTyped, OnlyPast
<1>6. ASSUME NEW b \in Alert
      PROVE  /\ In(p.rows, b).commit \in Nat /\ In(p.rows, b).commit <= Commit(b)
             /\ told[b] \in Nat /\ told[b] <= Commit(b) /\ Commit(b) \in Nat
  BY <1>5, RowFacts DEF In, Past, LiveTyped, Counted
<1>7. \A b \in Alert : /\ told'[b] \in Nat /\ told'[b] >= told[b]
                       /\ told'[b] >= In(p.rows, b).commit /\ told'[b] <= Commit(b)
  BY <1>1, <1>6 DEF Later
<1>8. LiveTyped'
  <2>1. told' \in [Alert -> Nat]
    BY <1>1, <1>7
  <2> QED
    BY <1>1, <1>2, <1>3, <1>4, <1>5, <2>1 DEF LiveTyped, pageVars, streamVars
<1>9. Counted'
  BY <1>2, <1>3, <1>4, <1>7 DEF Counted
<1>10. OnlyPast'
  <2>1. \A b \in DOMAIN alerts' : Past(b, alerts'[b]) /\ alerts'[b].commit <= told'[b]
    BY <1>1, <1>5, <1>7 DEF In
  <2> QED
    BY <1>2, <1>3, <1>4, <2>1 DEF OnlyPast
<1>11. PagesComplete'
  BY <1>2, <1>3, <1>4 DEF PagesComplete
<1>12. AllTold'
  <2> SUFFICES ASSUME NEW b \in Stored
               PROVE  Low(b) \/ told'[b] = Commit(b) \/ b \in unannounced \/ Coming(b)'
    BY <1>3, <1>4 DEF AllTold
  <2>0. b \in Alert
    BY RowFacts
  <2>1. CASE told[b] = Commit(b)
    BY <1>6, <1>7, <2>0, <2>1
  <2>2. CASE Commit(b) <= p.version
    <3>1. Low(b) \/ (b \in DOMAIN p.rows /\ p.rows[b] = database[b])
      BY <2>2 DEF PagesComplete
    <3>2. b \in DOMAIN p.rows /\ p.rows[b] = database[b] => In(p.rows, b).commit = Commit(b)
      BY DEF In, Commit
    <3> QED
      BY <1>6, <1>7, <2>0, <3>1, <3>2
  <2>3. CASE Coming(b) /\ ~(Commit(b) <= p.version)
    BY <1>2, <1>3, <1>4, <2>3 DEF Coming, LoadOwed
  <2> QED
    BY <2>1, <2>2, <2>3 DEF AllTold
<1> QED
  BY <1>8, <1>9, <1>10, <1>11, <1>12

\* Steps that leave the rows alone: what they take away is owed, and what is
\* owed stays so.
LEMMA ServiceStep ==
    ASSUME LiveInv, StreamInv', LiveTyped',
           UNCHANGED <<database, version, unannounced, storeVars, answers>>,
           \/ /\ UNCHANGED <<announcing, sending, channel>>
              /\ LoadOwed => LoadOwed'
           \/ announcing' \subseteq announcing /\ sending' \subseteq sending
              /\ channel' \in {channel, <<>>} /\ LoadOwed'
    PROVE  LiveInv'
<1> USE DEF LiveInv
<1>1. alerts' = alerts /\ told' = told
  BY DEF storeVars
<1>2. Elements(<<>>) = {}
  BY ElementsEmpty
<1>3. Counted' /\ OnlyPast' /\ PagesComplete'
  BY <1>1, <1>2, Dropped
<1>4. /\ \A b : Commit(b)' = Commit(b) /\ Low(b)' = Low(b) /\ Stored' = Stored
  BY DEF Commit, Stored, Low, Above
<1>5. AllTold'
  <2>1. CASE LoadOwed'
    BY <2>1 DEF AllTold, Coming
  <2>2. CASE ~LoadOwed /\ UNCHANGED <<announcing, sending, channel>>
    BY <1>1, <1>4, <2>2 DEF AllTold, Coming
  <2> QED
    BY <2>1, <2>2
<1> QED
  BY <1>3, <1>5

\* The link breaks, or the service dies with what it had to announce: a load
\* is owed once the stream is open again.
LEMMA CutStep ==
    ASSUME LiveInv, StreamInv', Cut \/ Crash
    PROVE  LiveInv'
<1> USE DEF LiveInv
<1>1. /\ announcing' \subseteq announcing /\ sending' \subseteq sending /\ channel' = <<>>
      /\ UNCHANGED <<database, version, unannounced, storeVars, requestVars, pageVars>>
      /\ source' = "cut" \/ (source' = source /\ source \notin {"registered", "open"})
  BY DEF Cut, Crash, serverVars
<1>2. channel' \in Seq(Event)
  BY <1>1, ElementsEmpty
<1>3. LiveTyped'
  BY <1>1, <1>2 DEF LiveTyped, storeVars, requestVars, pageVars, Stored
<1>4. LoadOwed'
  BY <1>1 DEF LoadOwed
<1> QED
  BY <1>1, <1>3, <1>4, ServiceStep DEF requestVars

LEMMA ConnectionStep ==
    ASSUME LiveInv, StreamInv', Start \/ Stop \/ Register \/ OnOpen \/ OnError \/ TimerFires
    PROVE  LiveInv'
<1> USE DEF LiveInv
<1>0. /\ asked \in Nat /\ error \in BOOLEAN /\ visits \in Nat /\ subscriptions = visits
      /\ channel \in Seq(Event) /\ <<>> \in Seq(Event) /\ (visible => visits > 0)
      /\ (source \notin {"registered", "open"} => channel = <<>>)
      /\ (~visible => source = "none")
  BY ElementsEmpty DEF LiveTyped, StreamInv
<1>1. CASE Start
  <2>1. /\ visits' = visits + 1 /\ visible' = TRUE /\ subscriptions' = subscriptions + 1
        /\ asked' = asked + 1 /\ error' = (error /\ 1 = 0) /\ answers' = answers
        /\ source' = "connecting" /\ channel' = <<>>
        /\ UNCHANGED <<serverVars, storeVars>>
    BY <1>0, <1>1 DEF Start, Refresh, Open
  <2>2. asked' \in Nat /\ error' \in BOOLEAN /\ visits' \in Nat /\ visits' > 0
        /\ subscriptions' = visits'
    BY <1>0, <2>1
  <2>3. LiveTyped' /\ LoadOwed'
    BY <1>0, <2>1, <2>2 DEF LiveTyped, LoadOwed, serverVars, storeVars, Stored
  <2> QED
    BY <2>1, <2>3, ServiceStep DEF serverVars
<1>2. CASE Stop
  <2>1. /\ visible' = FALSE /\ source' = "none" /\ channel' = <<>>
        /\ UNCHANGED <<serverVars, storeVars, requestVars, subscriptions, visits>>
    BY <1>2 DEF Stop
  <2>2. LiveTyped' /\ LoadOwed'
    BY <1>0, <2>1 DEF LiveTyped, LoadOwed, serverVars, storeVars, requestVars, Stored
  <2> QED
    BY <2>1, <2>2, ServiceStep DEF requestVars, serverVars
<1>3. CASE Register
  <2>1. /\ source' = "registered"
        /\ UNCHANGED <<serverVars, channel, storeVars, requestVars, pageVars>>
    BY <1>3 DEF Register
  <2>2. LiveTyped' /\ LoadOwed'
    BY <1>0, <2>1 DEF LiveTyped, LoadOwed, serverVars, storeVars, requestVars, pageVars, Stored
  <2> QED
    BY <2>1, <2>2, ServiceStep DEF requestVars, serverVars
<1>4. CASE OnOpen
  <2>1. /\ source = "registered" /\ source' = "open"
        /\ asked' = asked + subscriptions /\ answers' = answers
        /\ error' = (error /\ subscriptions = 0)
        /\ UNCHANGED <<serverVars, channel, storeVars, pageVars>>
    BY <1>4 DEF OnOpen, Refresh, Reloads
  <2>2. asked' > 0 /\ asked' \in Nat /\ error' \in BOOLEAN
    BY <1>0, <2>1
  <2>3. LiveTyped' /\ LoadOwed'
    BY <1>0, <2>1, <2>2 DEF LiveTyped, LoadOwed, serverVars, storeVars, pageVars, Stored
  <2> QED
    BY <2>1, <2>2, <2>3, ServiceStep DEF serverVars
<1>5. CASE OnError
  <2>1. /\ source' = "none" /\ channel' = <<>>
        /\ UNCHANGED <<serverVars, storeVars, requestVars, pageVars>>
    BY <1>0, <1>5 DEF OnError
  <2>2. LiveTyped' /\ LoadOwed'
    BY <1>0, <2>1 DEF LiveTyped, LoadOwed, serverVars, storeVars, requestVars, pageVars, Stored
  <2> QED
    BY <2>1, <2>2, ServiceStep DEF requestVars, serverVars
<1>6. CASE TimerFires
  <2>1. /\ \/ source' = "connecting" /\ channel' = <<>>
           \/ source' = source /\ channel' = channel
        /\ UNCHANGED <<serverVars, storeVars, requestVars, pageVars>>
    BY <1>6 DEF TimerFires, Open
  <2>2. LiveTyped'
    BY <1>0, <2>1 DEF LiveTyped, serverVars, storeVars, requestVars, pageVars, Stored
  <2>3. CASE source' = "connecting" /\ channel' = <<>>
    <3>1. LoadOwed'
      BY <2>3 DEF LoadOwed
    <3> QED
      BY <2>1, <2>2, <2>3, <3>1, ServiceStep DEF requestVars, serverVars
  <2>4. CASE source' = source /\ channel' = channel
    <3>1. LoadOwed => LoadOwed'
      BY <2>1, <2>4 DEF LoadOwed, requestVars
    <3> QED
      BY <2>1, <2>2, <2>4, <3>1, ServiceStep DEF requestVars, serverVars
  <2> QED
    BY <2>1, <2>3, <2>4
<1> QED
  BY <1>1, <1>2, <1>3, <1>4, <1>5, <1>6

LEMMA RequestStep ==
    ASSUME LiveInv, StreamInv', OnRequestError \/ Retry
    PROVE  LiveInv'
<1> USE DEF LiveInv
<1>1. CASE OnRequestError
  <2>1. /\ asked > 0 /\ asked' = asked - 1 /\ error' = TRUE
        /\ UNCHANGED <<serverVars, streamVars, storeVars, answers, pageVars>>
    BY <1>1 DEF OnRequestError
  <2>2. asked' \in Nat /\ LoadOwed'
    BY <2>1 DEF LiveTyped, LoadOwed
  <2>3. LiveTyped'
    BY <2>1, <2>2 DEF LiveTyped, serverVars, streamVars, storeVars, pageVars, Stored
  <2> QED
    BY <2>1, <2>2, <2>3, ServiceStep DEF streamVars, serverVars
<1>2. CASE Retry
  <2>1. /\ asked' = asked + 1 /\ error' = (error /\ 1 = 0) /\ answers' = answers
        /\ UNCHANGED <<serverVars, streamVars, storeVars, pageVars>>
    BY <1>2 DEF Retry, Refresh
  <2>2. asked' > 0 /\ asked' \in Nat /\ error' \in BOOLEAN /\ LoadOwed'
    BY <2>1 DEF LiveTyped, LoadOwed
  <2>3. LiveTyped'
    BY <2>1, <2>2 DEF LiveTyped, serverVars, streamVars, storeVars, pageVars, Stored
  <2> QED
    BY <2>1, <2>2, <2>3, ServiceStep DEF streamVars, serverVars
<1> QED
  BY <1>1, <1>2

\* Whatever the service commits, announces late or loses, whatever page comes
\* late: the map has had every row of the newest alerts, or it is coming, or
\* the service told no stream of it.
THEOREM LiveInvariance == Spec => []LiveInv
<1>1. Init => LiveInv
  <2> SUFFICES ASSUME Init PROVE LiveInv
    OBVIOUS
  <2>1. Stored = {} /\ IsFiniteSet(Stored)
    BY FS_EmptySet DEF Init, Stored
  <2>2. DOMAIN answers = {} /\ IsABag(answers)
    BY DEF Init, EmptyBag, SetToBag, IsABag
  <2>3. channel = <<>> /\ channel \in Seq(Event) /\ Elements(channel) = {}
    BY ElementsEmpty DEF Init
  <2>4. EmptyMap \in [{} -> Row] /\ {} \in SUBSET Alert
    BY DEF EmptyMap
  <2>5. alerts \in Rows /\ DOMAIN alerts = {}
    BY <2>4 DEF Rows, Init
  <2>6. LiveTyped
    BY <2>1, <2>2, <2>3, <2>5 DEF Init, LiveTyped
  <2>7. Counted
    BY <2>2 DEF Init, Counted, Commit, NoRow
  <2>8. OnlyPast /\ PagesComplete /\ AllTold
    BY <2>1, <2>2, <2>3, <2>5 DEF Init, OnlyPast, PagesComplete, AllTold
  <2> QED
    BY <2>6, <2>7, <2>8 DEF Init, LiveInv, StreamInv
<1>2. LiveInv /\ [Next]_vars => LiveInv'
  <2> SUFFICES ASSUME LiveInv, [Next]_vars PROVE LiveInv'
    OBVIOUS
  <2>1. StreamInv'
    BY StreamStep DEF LiveInv
  <2>2. CASE UNCHANGED vars
    <3>1. /\ UNCHANGED serverVars /\ UNCHANGED streamVars /\ UNCHANGED storeVars
          /\ UNCHANGED requestVars /\ UNCHANGED pageVars
      BY <2>2 DEF vars
    <3>2. LiveTyped' /\ (LoadOwed => LoadOwed')
      BY <3>1 DEF serverVars, streamVars, storeVars, requestVars, pageVars, LiveInv,
                  LiveTyped, Stored, LoadOwed
    <3> QED
      BY <2>1, <3>1, <3>2, ServiceStep DEF serverVars, streamVars, requestVars
  <2>3. CASE Service
    BY <2>1, <2>3, CommitStep, ReadStep, BroadcastStep, CutStep DEF Service
  <2>4. CASE Next /\ ~Service
    BY <2>1, <2>4, AnswerStep, OnEventStep, OnPageStep, ConnectionStep, RequestStep
       DEF Next, Network
  <2> QED
    BY <2>2, <2>3, <2>4
<1> QED
  BY <1>1, <1>2, PTL DEF Spec

-----------------------------------------------------------------------------
(* The live page: the feed *)

\* Of a finite set of alerts that has FeedLimit rows above one that is not
\* among its newest, as many of the newest are above it.
LEMMA NewestAbove ==
    ASSUME IsFiniteSet(Stored), Stored \subseteq Nat, NEW a \in Stored,
           Cardinality(Above(a)) >= FeedLimit
    PROVE  \E c \in Stored :
              /\ Cardinality(Above(c)) >= FeedLimit /\ Above(c) \subseteq Above(a)
              /\ \A b \in Above(c) : ~(Cardinality(Above(b)) >= FeedLimit)
<1> DEFINE R == StrictSubsetOrdering(Stored)
           F == {Above(c) : c \in {d \in Stored : /\ Cardinality(Above(d)) >= FeedLimit
                                                  /\ Above(d) \subseteq Above(a)}}
<1>1. IsWellFoundedOn(R, FiniteSubsetsOf(Stored))
  BY FS_StrictSubsetOrderingWellFounded
<1>2. F \subseteq FiniteSubsetsOf(Stored) /\ F # {}
  <2>1. ASSUME NEW c \in Stored PROVE Above(c) \in FiniteSubsetsOf(Stored)
    <3>1. Above(c) \subseteq Stored
      BY DEF Above
    <3> QED
      BY <3>1, FS_Subset DEF FiniteSubsetsOf
  <2>2. Above(a) \in F
    OBVIOUS
  <2> QED
    BY <2>1, <2>2
<1>3. PICK x \in F : \A y \in F : ~(<<y, x>> \in R)
  <2> HIDE DEF R, F
  <2> QED
    BY <1>1, <1>2, WFMin
<1>4. PICK c \in Stored : /\ x = Above(c) /\ Cardinality(Above(c)) >= FeedLimit
                          /\ Above(c) \subseteq Above(a)
  OBVIOUS
<1>5. ASSUME NEW b \in Above(c), Cardinality(Above(b)) >= FeedLimit PROVE FALSE
  <2>1. b \in Stored /\ b > c /\ c \in Nat /\ b \in Nat
    BY DEF Above
  <2>2. Above(b) \subseteq Above(c) /\ Above(b) # Above(c)
    <3>1. \A d \in Stored : d \in Nat /\ (d > b => d > c)
      BY <2>1
    <3>2. b \notin Above(b)
      BY <2>1 DEF Above
    <3> QED
      BY <3>1, <3>2 DEF Above
  <2>3. Above(b) \in F
    BY <1>4, <1>5, <2>1, <2>2
  <2>4. Above(b) \subseteq Stored /\ Above(c) \subseteq Stored
    BY DEF Above
  <2>5. <<Above(b), x>> \in R
    BY <1>4, <2>2, <2>4 DEF StrictSubsetOrdering
  <2> QED
    BY <1>3, <2>3, <2>5
<1> QED
  BY <1>4, <1>5

\* The map holds no row that is not stored.
LEMMA HeldStored ==
    ASSUME LiveInv
    PROVE  DOMAIN alerts \subseteq Stored
<1> SUFFICES ASSUME NEW a \in DOMAIN alerts PROVE a \in Stored
  OBVIOUS
<1>1. a \in Alert /\ alerts[a] \in Row
  BY RowsFacts DEF LiveInv, LiveTyped
<1>2. alerts[a].commit \in Nat /\ alerts[a].commit > 0 /\ Commit(a) \in Nat
  BY <1>1, RowFacts DEF LiveInv
<1>3. alerts[a].commit <= Commit(a)
  BY DEF LiveInv, OnlyPast, Past
<1> QED
  BY <1>1, <1>2, <1>3, RowFacts DEF LiveInv

\* What a map that is told of everything above holds: the page.
LEMMA ToldFeed ==
    ASSUME LiveTyped, DOMAIN alerts \subseteq Stored,
           \A a \in DOMAIN Page : a \in DOMAIN alerts /\ alerts[a] = database[a]
    PROVE  Feed = Page
<1> DEFINE Seen(a) == {b \in DOMAIN alerts : b > a}
<1>1. IsFiniteSet(Stored) /\ Stored \subseteq Nat
  BY LiveAssumption DEF LiveTyped, Stored
<1>2. FeedLimit \in Nat
  BY LiveAssumption
<1>3. ASSUME NEW a
      PROVE  /\ Seen(a) \subseteq Above(a) /\ IsFiniteSet(Above(a)) /\ IsFiniteSet(Seen(a))
             /\ Cardinality(Above(a)) \in Nat /\ Cardinality(Seen(a)) \in Nat
             /\ Cardinality(Seen(a)) <= Cardinality(Above(a))
  <2>1. Seen(a) \subseteq Above(a) /\ Above(a) \subseteq Stored
    BY DEF Above
  <2>2. IsFiniteSet(Above(a))
    BY <1>1, <2>1, FS_Subset
  <2> QED
    BY <2>1, <2>2, FS_Subset, FS_CardinalityType
<1>4. ASSUME NEW a \in DOMAIN alerts, Cardinality(Above(a)) >= FeedLimit
      PROVE  Cardinality(Seen(a)) >= FeedLimit
  <2>1. PICK c \in Stored :
           /\ Cardinality(Above(c)) >= FeedLimit /\ Above(c) \subseteq Above(a)
           /\ \A b \in Above(c) : ~(Cardinality(Above(b)) >= FeedLimit)
    BY <1>1, <1>4, NewestAbove
  <2>2. Above(c) \subseteq Seen(a)
    <3> SUFFICES ASSUME NEW b \in Above(c) PROVE b \in DOMAIN alerts /\ b > a
      OBVIOUS
    <3>1. b \in Stored /\ ~Low(b)
      BY <2>1 DEF Above, Low
    <3>2. b \in DOMAIN alerts
      BY <3>1, PageFacts
    <3> QED
      BY <2>1, <3>2 DEF Above
  <2>3. Cardinality(Above(c)) <= Cardinality(Seen(a))
    BY <1>3, <2>2, FS_Subset
  <2>4. Cardinality(Above(c)) \in Nat /\ Cardinality(Seen(a)) \in Nat
    BY <1>3
  <2> HIDE DEF Seen
  <2> QED
    BY <1>2, <2>1, <2>3, <2>4
<1>5. {a \in DOMAIN alerts : Cardinality(Seen(a)) < FeedLimit}
        = {a \in Stored : Cardinality(Above(a)) < FeedLimit}
  <2>1. ASSUME NEW a \in DOMAIN alerts, Cardinality(Seen(a)) < FeedLimit
        PROVE  a \in Stored /\ Cardinality(Above(a)) < FeedLimit
    BY <1>2, <1>3, <1>4, <2>1
  <2>2. ASSUME NEW a \in Stored, Cardinality(Above(a)) < FeedLimit
        PROVE  a \in DOMAIN alerts /\ Cardinality(Seen(a)) < FeedLimit
    <3>1. Cardinality(Seen(a)) < FeedLimit
      BY <1>2, <1>3, <2>2
    <3>2. Cardinality(Above(a)) \in Nat
      BY <1>3
    <3>3. ~Low(a)
      BY <1>2, <2>2, <3>2 DEF Low
    <3> QED
      BY <3>1, <3>3, PageFacts
  <2> QED
    BY <2>1, <2>2
<1>6. Feed = [a \in {x \in DOMAIN alerts : Cardinality(Seen(x)) < FeedLimit} |-> alerts[a]]
  BY DEF Feed, Newest
<1>7. Page = [a \in {x \in Stored : Cardinality(Above(x)) < FeedLimit} |-> database[a]]
  BY DEF Page, Newest, Above
<1>8. \A a \in {x \in Stored : Cardinality(Above(x)) < FeedLimit} : alerts[a] = database[a]
  BY <1>7
<1> QED
  BY <1>5, <1>6, <1>7, <1>8

\* A row of a page that the map was told of, and that nothing older was put
\* over: it is in the feed as the database has it.
LEMMA ToldRow ==
    ASSUME LiveInv, NEW a \in DOMAIN Page, told[a] = Commit(a), a \notin Overtaken
    PROVE  a \in DOMAIN Feed /\ a \in DOMAIN alerts /\ alerts[a] = database[a]
           /\ Feed[a] = Page[a]
<1> USE DEF LiveInv
<1>1. a \in Stored /\ a \in Alert /\ ~Low(a) /\ Page[a] = database[a] /\ Commit(a) > 0
  BY PageFacts, RowFacts
<1>2. In(alerts, a).commit >= Commit(a)
  <2>1. ~(In(alerts, a).commit < told[a])
    BY <1>1 DEF Overtaken
  <2>2. In(alerts, a).commit \in Nat /\ Commit(a) \in Nat
    BY <1>1, RowFacts, RowsFacts DEF In, LiveTyped
  <2> QED
    BY <2>1, <2>2
<1>3. a \in DOMAIN alerts
  <2>1. NoRow.commit = 0
    BY RowFacts
  <2> QED
    BY <1>1, <1>2, <2>1, RowFacts DEF In
<1>4. alerts[a] = database[a]
  <2>1. Past(a, alerts[a]) /\ alerts[a].commit >= Commit(a)
    BY <1>2, <1>3 DEF OnlyPast, In
  <2>2. alerts[a].commit \in Nat /\ Commit(a) \in Nat
    BY <1>1, <1>3, RowFacts, RowsFacts DEF LiveTyped
  <2> QED
    BY <2>1, <2>2 DEF Past
<1>5. Cardinality({b \in DOMAIN alerts : b > a}) < FeedLimit
  <2>1. {b \in DOMAIN alerts : b > a} \subseteq Above(a) /\ Above(a) \subseteq Stored
    BY HeldStored DEF Above
  <2>2. IsFiniteSet(Stored)
    BY DEF LiveTyped
  <2>3. IsFiniteSet(Above(a)) /\ IsFiniteSet({b \in DOMAIN alerts : b > a})
    BY <2>1, <2>2, FS_Subset
  <2>4. /\ Cardinality(Above(a)) \in Nat /\ Cardinality({b \in DOMAIN alerts : b > a}) \in Nat
        /\ Cardinality({b \in DOMAIN alerts : b > a}) <= Cardinality(Above(a))
    BY <2>1, <2>3, FS_Subset, FS_CardinalityType
  <2> QED
    BY <1>1, <2>4, LiveAssumption DEF Low
<1>6. a \in DOMAIN Feed /\ Feed[a] = alerts[a]
  BY <1>3, <1>5 DEF Feed, Newest
<1> QED
  BY <1>1, <1>3, <1>4, <1>6

\* A connected page at rest shows every row among the newest that the service
\* told it of and that nothing older replaced, and the feed itself if that is
\* all of them, for any number of alerts, rows, commits, visits and failures.
THEOREM FeedAgrees == Spec => []AgreesWhereTold
<1>1. LiveInv => AgreesWhereTold
  <2> SUFFICES ASSUME LiveInv, Quiet, ~error PROVE AgreesWhereTold
    BY DEF AgreesWhereTold
  <2> DEFINE spoilt == (unannounced \cup Overtaken) \cap DOMAIN Page
  <2>1. ASSUME NEW a PROVE ~Coming(a)
    <3>1. /\ announcing = {} /\ sending = {} /\ Elements(channel) = {} /\ DOMAIN answers = {}
          /\ ~LoadOwed
      BY ElementsEmpty DEF Quiet, EmptyBag, SetToBag, LoadOwed
    <3> QED
      BY <3>1 DEF Coming
  <2>2. ASSUME NEW a \in DOMAIN Page \ spoilt
        PROVE  a \in DOMAIN Feed /\ a \in DOMAIN alerts /\ alerts[a] = database[a]
               /\ Feed[a] = Page[a]
    <3>1. a \in Stored /\ ~Low(a)
      BY PageFacts DEF LiveInv
    <3>2. told[a] = Commit(a)
      BY <2>1, <3>1 DEF LiveInv, AllTold
    <3> QED
      BY <3>2, ToldRow
  <2>3. ASSUME spoilt = {} PROVE Feed = Page
    <3>1. \A a \in DOMAIN Page : a \in DOMAIN alerts /\ alerts[a] = database[a]
      BY <2>2, <2>3
    <3> HIDE DEF spoilt
    <3> QED
      BY <3>1, HeldStored, ToldFeed DEF LiveInv
  <2> QED
    BY <2>2, <2>3 DEF AgreesWhereTold
<1> QED
  BY <1>1, LiveInvariance, PTL

\* The bounds, and what the loading message says.
OnScreenTyped ==
    /\ version <= MaxCommits /\ visits <= MaxVisits /\ faults \in 0..MaxFaults
    /\ loading \in BOOLEAN /\ (loading => asked > 0 \/ DOMAIN answers # {})

LEMMA OnScreenStep ==
    ASSUME OnScreenTyped, LiveTyped, [Next]_vars
    PROVE  OnScreenTyped'
<1> USE DEF OnScreenTyped
<1>0. version \in Nat /\ visits \in Nat /\ asked \in Nat /\ subscriptions \in Nat
  BY DEF LiveTyped
<1>1. CASE UNCHANGED vars
  BY <1>1 DEF vars, serverVars, requestVars, pageVars
<1>2. ASSUME NEW a \in Alert, NEW st, Write(a, st) PROVE OnScreenTyped'
  <2>1. version' = version + 1 /\ version < MaxCommits
    BY <1>2 DEF Write
  <2>2. version' <= MaxCommits
    BY <1>0, <2>1, LiveAssumption
  <2> QED
    BY <1>2, <2>2 DEF Write, requestVars, pageVars
<1>3. ASSUME NEW c, ReadRow(c) \/ Broadcast(c) PROVE OnScreenTyped'
  BY <1>3 DEF ReadRow, Broadcast, requestVars, pageVars
<1>4. CASE Register \/ Stop \/ TimerFires \/ OnEvent \/ (OnError /\ UNCHANGED faults)
  BY <1>4 DEF Register, OnError, Stop, TimerFires, OnEvent, serverVars, requestVars, pageVars
<1>5. CASE OnOpen
  <2>1. /\ asked' = asked + subscriptions /\ loading' = (loading \/ subscriptions > 0)
        /\ answers' = answers
        /\ UNCHANGED <<serverVars, pageVars, faults>>
    BY <1>5 DEF OnOpen, Refresh, Reloads
  <2>2. asked' >= asked /\ (subscriptions > 0 => asked' > 0) /\ loading' \in BOOLEAN
    BY <1>0, <2>1
  <2>3. loading' => asked' > 0 \/ DOMAIN answers # {}
    BY <1>0, <2>1, <2>2
  <2> QED
    BY <2>1, <2>2, <2>3 DEF serverVars, pageVars
<1>6. CASE Start
  <2>1. /\ visits < MaxVisits /\ visits' = visits + 1 /\ asked' = asked + 1
        /\ loading' = (loading \/ 1 > 0) /\ answers' = answers
        /\ UNCHANGED <<serverVars, faults>>
    BY <1>6 DEF Start, Refresh
  <2>2. visits' <= MaxVisits /\ asked' > 0 /\ loading' \in BOOLEAN
    BY <1>0, <2>1, LiveAssumption
  <2> QED
    BY <2>1, <2>2 DEF serverVars
<1>7. CASE Retry
  <2>1. /\ asked' = asked + 1 /\ loading' = (loading \/ 1 > 0) /\ answers' = answers
        /\ UNCHANGED <<serverVars, pageVars, faults>>
    BY <1>7 DEF Retry, Refresh
  <2>2. asked' > 0 /\ loading' \in BOOLEAN
    BY <1>0, <2>1
  <2> QED
    BY <2>1, <2>2 DEF serverVars, pageVars
<1>8. CASE \/ (OnError /\ Faulty)
           \/ Cut \/ Crash \/ OnRequestError \/ \E c \in announcing : ReadFails(c)
  <2>1. /\ faults < MaxFaults /\ faults' = faults + 1
        /\ UNCHANGED <<version, answers, visits>>
        /\ loading' = FALSE \/ (loading' = loading /\ asked' = asked)
    BY <1>8 DEF OnError, Cut, Crash, OnRequestError, ReadFails, Faulty, serverVars, requestVars,
                pageVars
  <2>2. faults' \in 0..MaxFaults
    BY <2>1, RequestAssumption
  <2>3. loading' \in BOOLEAN /\ (loading' => asked' > 0 \/ DOMAIN answers # {})
    <3>1. CASE loading' = FALSE
      BY <3>1
    <3>2. CASE loading' = loading /\ asked' = asked
      BY <3>2
    <3> QED
      BY <2>1, <3>1, <3>2
  <2> QED
    BY <2>1, <2>2, <2>3
<1>9. CASE Answer
  <2>1. /\ answers' = answers (+) SetToBag({[version |-> version, rows |-> Page]})
        /\ loading' = loading /\ UNCHANGED <<version, pageVars, faults>>
    BY <1>9 DEF Answer
  <2>2. DOMAIN answers' # {}
    BY <2>1, PageAdded DEF LiveTyped
  <2> QED
    BY <2>1, <2>2 DEF pageVars
<1>10. ASSUME NEW p \in DOMAIN answers, OnPage(p) PROVE OnScreenTyped'
  BY <1>10 DEF OnPage, serverVars, pageVars
<1>11. CASE Service
  BY <1>2, <1>3, <1>8, <1>11 DEF Service, Insert, Revise, Acknowledge
<1> QED
  BY <1>1, <1>4, <1>5, <1>6, <1>7, <1>8, <1>9, <1>10, <1>11 DEF Next, Network, OnError

\* The loading message is on screen only while a request or an answer is on
\* its way, and what is announced, sent or answered is numbered by commits.
THEOREM LiveTypeCorrect == Spec => []TypeOK
<1>1. Init => OnScreenTyped
  <2> SUFFICES ASSUME Init PROVE OnScreenTyped
    OBVIOUS
  <2>1. 0 <= MaxCommits /\ 0 <= MaxVisits /\ 0 \in 0..MaxFaults
    BY LiveAssumption, RequestAssumption
  <2> QED
    BY <2>1 DEF Init, OnScreenTyped
<1>2. LiveInv => LiveTyped
  BY DEF LiveInv
<1>3. LiveInv /\ OnScreenTyped => TypeOK
  <2> SUFFICES ASSUME LiveInv, OnScreenTyped PROVE TypeOK
    OBVIOUS
  <2>1. LiveTyped /\ StreamInv /\ Counted
    BY DEF LiveInv
  <2>2. /\ version \in 0..MaxCommits /\ visits \in 0..MaxVisits /\ leaked = 0
        /\ faults \in 0..MaxFaults /\ version \in Nat
    BY <2>1, LiveAssumption DEF OnScreenTyped, LiveTyped, StreamInv
  <2>3. ASSUME NEW a \in Alert PROVE told[a] \in 0..version
    <3>1. told[a] \in Nat /\ Commit(a) \in Nat
      BY <2>1, RowFacts DEF LiveTyped
    <3>2. told[a] <= Commit(a) /\ Commit(a) <= version
      BY <2>1 DEF Counted
    <3> QED
      BY <2>2, <3>1, <3>2
  <2>4. told \in [Alert -> 0..version]
    BY <2>1, <2>3 DEF LiveTyped
  <2>5. \A c \in announcing : c.alert \in Alert /\ c.commit \in 1..version
    BY <2>1, <2>2 DEF LiveTyped, Counted
  <2>6. \A s \in sending : s.alert \in Alert /\ s.commit \in 1..version /\ s.row \in Row
    BY <2>1, <2>2 DEF LiveTyped, Counted
  <2>7. loading => asked > 0 \/ answers # EmptyBag
    BY DEF OnScreenTyped, EmptyBag, SetToBag
  <2>8. \A p \in DOMAIN answers : p.version \in 0..version /\ p.rows \in Rows
    BY <2>1, <2>2 DEF LiveTyped, Counted
  <2> QED
    BY <2>1, <2>2, <2>4, <2>5, <2>6, <2>7, <2>8 DEF TypeOK, LiveTyped, StreamInv, OnScreenTyped
<1> QED
  BY <1>1, <1>2, <1>3, OnScreenStep, LiveInvariance, PTL DEF Spec

-----------------------------------------------------------------------------
(* The history page *)

\* The pipe has let the query through, or holds it back.
PipeHasQuery ==
    alive => \/ debounced = query
             \/ debounced = NoQuery /\ passed = query

\* Only the last value let through is asked for.
AsksForPassed == inflight \subseteq {passed}

\* The error message that offers a reload comes from a request that failed,
\* and the first to fail ends the pipe.
NoReloadAlive == alive => ~error /\ retries = {}

\* One request of reload() at a time: it clears the error that offers it.
OneReload ==
    /\ error => retries = {}
    /\ retries = {} \/ \E q \in Query : retries = {q}

\* A pipe without a request in flight has shown what it let through.
ShownPassed == alive /\ passed # NoQuery /\ inflight = {} => shown = passed

\* The type invariant without the count of the reloads.
HistoryTyped ==
    /\ form \in Filter
    /\ query \in Query
    /\ debounced \in Query \cup {NoQuery} /\ passed \in Query \cup {NoQuery}
    /\ inflight \subseteq Query /\ retries \subseteq Query
    /\ ~alive => debounced = NoQuery /\ inflight = {}
    /\ alive \in BOOLEAN
    /\ shown \in Query \cup {NoQuery}
    /\ loading \in BOOLEAN /\ error \in BOOLEAN
    /\ loading <=> inflight # {}
    /\ changes \in 0..MaxChanges /\ faults \in 0..MaxFaults

HistoryInv ==
    /\ HistoryTyped /\ PipeHasQuery /\ AsksForPassed
    /\ NoReloadAlive /\ OneReload /\ ShownPassed

LEMMA NoQueryIsNone == NoQuery \notin Query
BY DEF NoQuery, Query, Direction

LEMMA ChangeStep ==
    ASSUME HistoryInv, NEW q \in Query, Change(q), form' \in Filter
    PROVE  HistoryInv'
<1>1. /\ query' = q /\ debounced' = (IF alive THEN q ELSE NoQuery)
      /\ changes < MaxChanges /\ changes' = changes + 1
      /\ passed' = passed /\ inflight' = inflight /\ alive' = alive /\ retries' = retries
      /\ shown' = shown /\ loading' = loading /\ error' = error /\ faults' = faults
  BY DEF Change, Update, tableVars
<1>2. HistoryTyped'
  BY <1>1, HistoryAssumption, RequestAssumption DEF HistoryInv, HistoryTyped, HistoryAssumption
<1>3. PipeHasQuery'
  BY <1>1 DEF PipeHasQuery
<1>4. AsksForPassed' /\ NoReloadAlive' /\ OneReload' /\ ShownPassed'
  BY <1>1 DEF HistoryInv, AsksForPassed, NoReloadAlive, OneReload, ShownPassed, NoQuery
<1> QED
  BY <1>2, <1>3, <1>4 DEF HistoryInv

LEMMA UserStep ==
    ASSUME HistoryInv, User
    PROVE  HistoryInv'
<1>0. HistoryTyped /\ query.direction \in Direction /\ 0 \in 0..MaxPage
  BY HistoryAssumption, RequestAssumption DEF HistoryInv, HistoryTyped, Query, HistoryAssumption
<1>1. ASSUME NEW f \in Filter, ApplyFilters(f) PROVE HistoryInv'
  <2>1. [query EXCEPT !.filter = f, !.page = 0] \in Query
    BY <1>0 DEF HistoryTyped, Query
  <2> QED
    BY <1>1, <2>1, ChangeStep DEF ApplyFilters
<1>2. CASE ResetFilters
  <2>1. [query EXCEPT !.page = 0] \in Query /\ NoFilter \in Filter
    BY <1>0, HistoryAssumption, RequestAssumption DEF HistoryAssumption, HistoryTyped, Query
  <2> QED
    BY <1>2, <2>1, ChangeStep DEF ResetFilters
<1>3. CASE ToggleSort
  <2>1. [query EXCEPT !.direction = IF @ = "desc" THEN "asc" ELSE "desc", !.page = 0] \in Query
    BY <1>0 DEF HistoryTyped, Query, Direction
  <2> QED
    BY <1>3, <2>1, ChangeStep DEF ToggleSort, HistoryInv, HistoryTyped
<1>4. ASSUME NEW p \in 0..MaxPage, GoToPage(p) PROVE HistoryInv'
  <2>1. [query EXCEPT !.page = p] \in Query
    BY <1>0, <1>4 DEF HistoryTyped, Query
  <2> QED
    BY <1>4, <2>1, ChangeStep DEF GoToPage, HistoryInv, HistoryTyped
<1>5. CASE Reload
  <2>1. ~alive
    BY <1>5 DEF Reload, HistoryInv, NoReloadAlive
  <2>2. /\ query' = query /\ debounced' = NoQuery /\ error' = FALSE
        /\ retries' = retries \cup {query} /\ form' = form /\ passed' = passed
        /\ inflight' = inflight /\ alive' = alive /\ shown' = shown /\ loading' = loading
        /\ changes' = changes /\ faults' = faults
    BY <1>5, <2>1 DEF Reload, Update
  <2>3. retries = {} /\ query \in Query
    BY <1>5 DEF Reload, HistoryInv, HistoryTyped, OneReload
  <2>4. HistoryTyped'
    BY <2>1, <2>2, <2>3 DEF HistoryInv, HistoryTyped
  <2>5. OneReload'
    BY <2>2, <2>3 DEF OneReload
  <2> QED
    BY <2>1, <2>2, <2>4, <2>5 DEF HistoryInv, PipeHasQuery, AsksForPassed, NoReloadAlive, ShownPassed
<1> QED
  BY <1>1, <1>2, <1>3, <1>4, <1>5 DEF User

\* 250 ms later the pipe asks for what it holds back, or has asked for it.
LEMMA DebounceStep ==
    ASSUME HistoryInv, Debounce
    PROVE  HistoryInv'
<1>1. /\ debounced # NoQuery /\ debounced' = NoQuery /\ passed' = debounced
      /\ form' = form /\ query' = query /\ alive' = alive /\ retries' = retries
      /\ shown' = shown /\ changes' = changes /\ faults' = faults
  BY DEF Debounce
<1>2. alive /\ debounced = query /\ debounced \in Query
  BY <1>1 DEF HistoryInv, HistoryTyped, PipeHasQuery
<1>3. CASE debounced = passed
  <2>1. inflight' = inflight /\ loading' = loading /\ error' = error
    BY <1>3 DEF Debounce
  <2>2. HistoryTyped' /\ PipeHasQuery'
    BY <1>1, <1>2, <1>3, <2>1 DEF HistoryInv, HistoryTyped, PipeHasQuery
  <2>3. AsksForPassed' /\ NoReloadAlive' /\ OneReload' /\ ShownPassed'
    BY <1>1, <1>2, <1>3, <2>1 DEF HistoryInv, AsksForPassed, NoReloadAlive, OneReload, ShownPassed, NoQuery
  <2> QED
    BY <2>2, <2>3 DEF HistoryInv
<1>4. CASE debounced # passed
  <2>1. inflight' = {debounced} /\ loading' = TRUE /\ error' = FALSE
    BY <1>4 DEF Debounce, Switched
  <2>2. HistoryTyped' /\ PipeHasQuery'
    BY <1>1, <1>2, <2>1 DEF HistoryInv, HistoryTyped, PipeHasQuery
  <2>3. AsksForPassed' /\ NoReloadAlive' /\ OneReload' /\ ShownPassed'
    BY <1>1, <1>2, <2>1 DEF HistoryInv, AsksForPassed, NoReloadAlive, OneReload, ShownPassed
  <2> QED
    BY <2>2, <2>3 DEF HistoryInv
<1> QED
  BY <1>3, <1>4

LEMMA AnswerQueryStep ==
    ASSUME HistoryInv, NEW q \in inflight, AnswerQuery(q) \/ AnswerFails(q)
    PROVE  HistoryInv'
<1>1. q = passed /\ q \in Query /\ alive
  BY DEF HistoryInv, HistoryTyped, AsksForPassed
<1>2. inflight = {q}
  BY <1>1 DEF HistoryInv, AsksForPassed
<1>3. CASE AnswerQuery(q)
  <2>1. /\ inflight' = {} /\ shown' = q /\ loading' = FALSE
        /\ form' = form /\ query' = query /\ debounced' = debounced /\ passed' = passed
        /\ alive' = alive /\ retries' = retries /\ error' = error
        /\ changes' = changes /\ faults' = faults
    BY <1>2, <1>3 DEF AnswerQuery
  <2>2. HistoryTyped' /\ PipeHasQuery'
    BY <1>1, <2>1 DEF HistoryInv, HistoryTyped, PipeHasQuery
  <2>3. AsksForPassed' /\ NoReloadAlive' /\ OneReload' /\ ShownPassed'
    BY <1>1, <2>1 DEF HistoryInv, AsksForPassed, NoReloadAlive, OneReload, ShownPassed
  <2> QED
    BY <2>2, <2>3 DEF HistoryInv
<1>4. CASE AnswerFails(q)
  <2>1. /\ alive' = FALSE /\ inflight' = {} /\ debounced' = NoQuery /\ loading' = FALSE
        /\ error' = TRUE /\ faults < MaxFaults /\ faults' = faults + 1
        /\ form' = form /\ query' = query /\ passed' = passed /\ retries' = retries
        /\ shown' = shown /\ changes' = changes
    BY <1>4 DEF AnswerFails, Faulty
  <2>2. HistoryTyped'
    <3>1. faults' \in 0..MaxFaults
      BY <2>1, HistoryAssumption, RequestAssumption DEF HistoryInv, HistoryTyped, HistoryAssumption
    <3> QED
      BY <2>1, <3>1 DEF HistoryInv, HistoryTyped
  <2>3. OneReload'
    BY <1>1, <2>1 DEF HistoryInv, NoReloadAlive, OneReload
  <2> QED
    BY <2>1, <2>2, <2>3 DEF HistoryInv, PipeHasQuery, AsksForPassed, NoReloadAlive, ShownPassed
<1> QED
  BY <1>3, <1>4

LEMMA RetryStep ==
    ASSUME HistoryInv, NEW q \in retries, AnswerRetry(q) \/ RetryFails(q)
    PROVE  HistoryInv'
<1>1. ~alive /\ q \in Query
  BY DEF HistoryInv, HistoryTyped, NoReloadAlive
<1>2. /\ form' = form /\ query' = query /\ retries' = retries \ {q}
      /\ debounced' = debounced /\ passed' = passed /\ inflight' = inflight
      /\ alive' = alive /\ loading' = loading /\ changes' = changes
      /\ shown' \in {q, shown} /\ error' \in {error, TRUE}
      /\ faults' = faults \/ (faults < MaxFaults /\ faults' = faults + 1)
  BY DEF AnswerRetry, RetryFails, Faulty, pipeVars
<1>3. HistoryTyped'
  <2>1. faults' \in 0..MaxFaults
    BY <1>2, HistoryAssumption, RequestAssumption DEF HistoryInv, HistoryTyped, HistoryAssumption
  <2>2. shown' \in Query \cup {NoQuery} /\ error' \in BOOLEAN /\ retries' \subseteq Query
    BY <1>1, <1>2 DEF HistoryInv, HistoryTyped
  <2> QED
    BY <1>1, <1>2, <2>1, <2>2 DEF HistoryInv, HistoryTyped
<1> QED
  BY <1>1, <1>2, <1>3 DEF HistoryInv, PipeHasQuery, AsksForPassed, NoReloadAlive, OneReload, ShownPassed

\* The pipe has asked for the query, or holds it back, as long as no request
\* has failed.
THEOREM HistoryInvariance == HistorySpec => []HistoryInv
<1>1. HistoryInit => HistoryInv
  <2> SUFFICES ASSUME HistoryInit PROVE HistoryInv
    OBVIOUS
  <2>1. Default \in Query
    BY HistoryAssumption, RequestAssumption DEF Default, Query, Direction, HistoryAssumption
  <2>2. NoFilter \in Filter /\ 0 \in 0..MaxChanges /\ 0 \in 0..MaxFaults
    BY HistoryAssumption, RequestAssumption DEF HistoryAssumption
  <2>3. HistoryTyped
    BY <2>1, <2>2 DEF HistoryInit, HistoryTyped
  <2> QED
    BY <2>3 DEF HistoryInit, HistoryInv, PipeHasQuery, AsksForPassed, NoReloadAlive, OneReload, ShownPassed
<1>2. HistoryInv /\ [HistoryNext]_historyVars => HistoryInv'
  <2> SUFFICES ASSUME HistoryInv, [HistoryNext]_historyVars PROVE HistoryInv'
    OBVIOUS
  <2>1. CASE UNCHANGED historyVars
    <3>1. HistoryTyped'
      BY <2>1 DEF historyVars, pipeVars, tableVars, HistoryInv, HistoryTyped
    <3>2. PipeHasQuery' /\ AsksForPassed'
      BY <2>1 DEF historyVars, pipeVars, tableVars, HistoryInv, PipeHasQuery, AsksForPassed
    <3>3. NoReloadAlive' /\ OneReload' /\ ShownPassed'
      BY <2>1 DEF historyVars, pipeVars, tableVars, HistoryInv, NoReloadAlive, OneReload,
                  ShownPassed
    <3> QED
      BY <3>1, <3>2, <3>3 DEF HistoryInv
  <2> QED
    BY <2>1, UserStep, DebounceStep, AnswerQueryStep, RetryStep DEF HistoryNext
<1> QED
  BY <1>1, <1>2, PTL DEF HistorySpec

\* The variables keep their types; there is one reload at a time.
THEOREM HistoryTypeCorrect == HistorySpec => []HistoryTypeOK
<1>1. HistoryInv => HistoryTypeOK
  <2> SUFFICES ASSUME HistoryInv PROVE Cardinality(retries) <= 1
    BY DEF HistoryInv, HistoryTyped, HistoryTypeOK
  <2>1. CASE retries = {}
    BY <2>1, FS_EmptySet
  <2>2. ASSUME NEW q \in Query, retries = {q} PROVE Cardinality(retries) <= 1
    <3>1. Cardinality({q}) = 1
      BY FS_Singleton
    <3> QED
      BY <2>2, <3>1
  <2> QED
    BY <2>1, <2>2 DEF HistoryInv, OneReload
<1> QED
  BY <1>1, HistoryInvariance, PTL

\* However fast the controls are used, a page at rest answers the query they
\* show, as long as no request has failed.
THEOREM HistoryAnswers == HistorySpec => []AnswersWhileAlive
<1>1. HistoryInv => AnswersWhileAlive
  <2> SUFFICES ASSUME HistoryInv, PipeQuiet, alive PROVE shown = query
    BY DEF AnswersWhileAlive
  <2>1. passed = query /\ passed \in Query
    BY NoQueryIsNone DEF HistoryInv, HistoryTyped, PipeHasQuery, PipeQuiet
  <2> QED
    BY <2>1, NoQueryIsNone DEF HistoryInv, ShownPassed, PipeQuiet
<1> QED
  BY <1>1, HistoryInvariance, PTL

-----------------------------------------------------------------------------
(* The detail page *)

\* The type invariant, with what the requests hold.
DetailTyped ==
    /\ DetailTypeOK
    /\ ack = NoAck \/ ack \in [phase : {"sent", "done", "refused"}, id : Alert, version : {0}]
    /\ loads \subseteq [n : Nat, id : Alert, answer : Detail \cup {None}]
    /\ issued \in Nat

\* An acknowledgement is decided once and for all.
DecidedKept == \A a \in decided : status[a] = "ACKNOWLEDGED"

\* An answer is about the alert that was asked for.
AnswersNamed == \A r \in loads : r.answer # None => r.answer.id = r.id

\* The youngest load is still on its way.
Awaited == \E r \in loads : r.n = issued

\* The decision about this alert is on its way back to the page.
Deciding(a) == ack # NoAck /\ ack.phase # "sent" /\ ack.id = a

\* What shows a decided alert as NEW.
Behind(d) == d.id \in decided /\ d.status = "NEW"

\* The youngest load is for the route, and what it brings is up to date.
YoungestRight ==
    \A r \in loads : r.n = issued =>
        /\ r.id = route \/ strayed
        /\ r.answer # None /\ Behind(r.answer) => error \/ stale \/ Deciding(r.id)

\* No load is lost unseen.
YoungestSeen == Awaited \/ error \/ answered = issued

\* So is what is on screen, once the youngest load has come.
ScreenRight ==
    \/ Awaited \/ error \/ outrun
    \/ /\ alert \in Detail
       /\ alert.id = route \/ strayed
       /\ Behind(alert) => stale \/ Deciding(alert.id)

DetailInv ==
    /\ DetailTyped /\ DecidedKept /\ AnswersNamed
    /\ YoungestRight /\ YoungestSeen /\ ScreenRight

\* A load: of another alert, once more, or after a conflict.
LEMMA LoadStep ==
    ASSUME DetailTyped, AnswersNamed, NEW a \in Alert, Load(a), UNCHANGED <<answered, outrun>>
    PROVE  /\ loads' \subseteq [n : Nat, id : Alert, answer : Detail \cup {None}]
           /\ issued' \in Nat /\ answered' \in 0..issued'
           /\ error' = FALSE /\ loading' = TRUE /\ stale' = FALSE /\ outrun' \in BOOLEAN
           /\ \A r \in loads' : r.n \in 1..issued' /\ (r.n = issued' => r = Request(issued', a))
           /\ Awaited' /\ AnswersNamed'
<1> DEFINE r == Request(issued + 1, a)
<1>1. /\ loads' = loads \cup {r} /\ error' = FALSE /\ loading' = TRUE /\ stale' = FALSE
      /\ issued' = issued + 1 /\ issued \in Nat /\ issued' \in Nat
  BY DEF Load, DetailTyped
<1>2. /\ r \in [n : Nat, id : Alert, answer : Detail \cup {None}]
      /\ r.n = issued' /\ r.answer = None
  BY <1>1 DEF Request
<1>3. \A x \in loads : x.n \in 1..issued
  BY DEF DetailTyped, DetailTypeOK
<1>4. \A x \in loads : x.n \in 1..issued' /\ x.n # issued'
  BY <1>1, <1>3
<1>5. r = Request(issued', a)
  BY <1>1
<1> HIDE DEF r
<1>6. \A x \in loads' : x.n \in 1..issued' /\ (x.n = issued' => x = Request(issued', a))
  BY <1>1, <1>2, <1>4, <1>5
<1>7. Awaited' /\ AnswersNamed'
  BY <1>1, <1>2 DEF Awaited, AnswersNamed
<1>8. answered' \in 0..issued' /\ outrun' \in BOOLEAN
  BY <1>1 DEF DetailTyped, DetailTypeOK
<1> QED
  BY <1>1, <1>2, <1>6, <1>7, <1>8 DEF DetailTyped

\* What a load begins is right: it is for the route, or an acknowledgement of
\* another alert has come back.
LEMMA LoadRight ==
    ASSUME DetailTyped, AnswersNamed, NEW a \in Alert, Load(a), UNCHANGED <<answered, outrun>>,
           a = route' \/ strayed'
    PROVE  YoungestRight' /\ YoungestSeen' /\ ScreenRight'
<1>1. Awaited' /\ \A r \in loads' : r.n = issued' => r = Request(issued', a)
  BY LoadStep
<1>2. \A r \in loads' : r.n = issued' => r.id = a /\ r.answer = None
  BY <1>1 DEF Request
<1>3. YoungestRight'
  BY <1>2 DEF YoungestRight
<1> QED
  BY <1>1, <1>3 DEF YoungestSeen, ScreenRight

LEMMA NavigateStep ==
    ASSUME DetailInv, NEW a \in Alert, Navigate(a)
    PROVE  DetailInv'
<1> USE DEF DetailInv
<1>1. /\ Load(a) /\ route' = a /\ strayed' = FALSE /\ navigations' = navigations + 1
      /\ navigations < MaxNavigations
      /\ UNCHANGED <<status, alert, telemetry, acknowledging, acknowledged, conflict, charts, ack,
                     answered, outrun, decided, faults>>
  BY DEF Navigate, LoadNamed
<1>2. navigations' \in 0..MaxNavigations
  BY <1>1, DetailAssumption DEF DetailTyped, DetailTypeOK
<1>3. DetailTyped' /\ AnswersNamed'
  BY <1>1, <1>2, LoadStep DEF DetailTyped, DetailTypeOK, Awaited
<1>4. DecidedKept'
  BY <1>1 DEF DecidedKept
<1> QED
  BY <1>1, <1>3, <1>4, LoadRight

LEMMA RetryLoadStep ==
    ASSUME DetailInv, RetryLoad
    PROVE  DetailInv'
<1> USE DEF DetailInv
<1>1. /\ Load(route) /\ route' = route /\ route \in Alert /\ strayed' = FALSE
      /\ UNCHANGED <<status, alert, telemetry, acknowledging, acknowledged, conflict, charts, ack,
                     answered, outrun, decided, boundVars>>
  BY DEF RetryLoad, DetailTyped, DetailTypeOK
<1>2. DetailTyped' /\ AnswersNamed'
  BY <1>1, LoadStep DEF DetailTyped, DetailTypeOK, Awaited, boundVars
<1>3. DecidedKept'
  BY <1>1 DEF DecidedKept
<1> QED
  BY <1>1, <1>2, <1>3, LoadRight

\* The service reads the row: after a decision, as it was decided.
LEMMA ServeLoadStep ==
    ASSUME DetailInv, NEW r \in loads, ServeLoad(r)
    PROVE  DetailInv'
<1> USE DEF DetailInv
<1> DEFINE served == [r EXCEPT !.answer = [id |-> r.id, status |-> status[r.id]]]
<1>1. /\ loads' = (loads \ {r}) \cup {served} /\ r.answer = None
      /\ UNCHANGED <<status, route, screenVars, charts, ack, issued, orderVars, decided,
                     boundVars>>
  BY DEF ServeLoad
<1>2. r \in [n : Nat, id : Alert, answer : Detail \cup {None}] /\ r.n \in 1..issued
  BY DEF DetailTyped, DetailTypeOK
<1>3. status[r.id] \in Status /\ [id |-> r.id, status |-> status[r.id]] \in Detail
  BY <1>2 DEF DetailTyped, DetailTypeOK, Detail
<1>4. /\ served \in [n : Nat, id : Alert, answer : Detail \cup {None}]
      /\ served.n = r.n /\ served.id = r.id
      /\ served.answer = [id |-> r.id, status |-> status[r.id]]
  BY <1>2, <1>3
<1>5. ~Behind(served.answer)
  BY <1>2, <1>4 DEF Behind, DecidedKept
<1> HIDE DEF served
<1>6. DetailTyped'
  <2>1. \A x \in loads' : x.n \in 1..issued /\ x.id \in Alert
                            /\ (x.answer = None \/ x.answer \in Detail)
    BY <1>1, <1>2, <1>3, <1>4 DEF DetailTyped, DetailTypeOK
  <2>2. loads' \subseteq [n : Nat, id : Alert, answer : Detail \cup {None}] /\ loads' # {}
    BY <1>1, <1>4 DEF DetailTyped
  <2> QED
    BY <1>1, <2>1, <2>2 DEF DetailTyped, DetailTypeOK, screenVars, boundVars, orderVars
<1>7. DecidedKept' /\ AnswersNamed'
  BY <1>1, <1>4 DEF DecidedKept, AnswersNamed
<1>8. /\ issued' = issued /\ route' = route /\ strayed' = strayed /\ error' = error
      /\ stale' = stale /\ answered' = answered /\ outrun' = outrun /\ alert' = alert
      /\ \A a : Deciding(a)' = Deciding(a) /\ \A d : Behind(d)' = Behind(d)
  BY <1>1 DEF Deciding, Behind, screenVars, orderVars
<1>9. Awaited => Awaited'
  BY <1>1, <1>4, <1>8 DEF Awaited
<1>10. YoungestRight'
  BY <1>1, <1>4, <1>5, <1>8 DEF YoungestRight
<1> QED
  BY <1>6, <1>7, <1>8, <1>9, <1>10 DEF YoungestSeen, ScreenRight

\* The alert comes, or the load fails.
LEMMA LoadedTyped ==
    ASSUME DetailInv, NEW r \in loads, OnDetail(r) \/ OnLoadError(r)
    PROVE  DetailTyped' /\ DecidedKept' /\ AnswersNamed'
<1> USE DEF DetailInv
<1>1. /\ loads' = loads \ {r} /\ loading' = FALSE
      /\ UNCHANGED <<status, route, telemetry, acknowledging, acknowledged, conflict, ack, issued,
                     strayed, stale, decided, navigations>>
      /\ \/ r.answer # None /\ alert' = r.answer /\ error' = error
            /\ charts' = charts \cup {r.id} /\ faults' = faults
            /\ answered' = (IF r.n > answered THEN r.n ELSE answered)
            /\ outrun' = (r.n < answered)
         \/ alert' = alert /\ error' = TRUE /\ charts' = charts
            /\ faults < MaxFaults /\ faults' = faults + 1
            /\ answered' = answered /\ outrun' = outrun
  BY DEF OnDetail, OnLoadError, Faulty, boundVars, orderVars
<1>2. r.id \in Alert /\ (r.answer = None \/ r.answer \in Detail) /\ r.n \in 1..issued
  BY DEF DetailTyped, DetailTypeOK
<1>3. faults' \in 0..MaxFaults
  BY <1>1, RequestAssumption DEF DetailTyped, DetailTypeOK
<1>4. (alert' = None \/ alert' \in Detail) /\ error' \in BOOLEAN /\ charts' \subseteq Alert
  BY <1>1, <1>2 DEF DetailTyped, DetailTypeOK
<1>5. answered' \in 0..issued /\ outrun' \in BOOLEAN
  <2>1. answered \in 0..issued /\ outrun \in BOOLEAN /\ issued \in Nat
    BY DEF DetailTyped, DetailTypeOK
  <2>2. outrun' \in BOOLEAN
    <3>1. (r.n < answered) \in BOOLEAN
      OBVIOUS
    <3>2. CASE outrun' = (r.n < answered)
      BY <3>1, <3>2, Zenon
    <3>3. CASE outrun' = outrun
      BY <2>1, <3>3
    <3> QED
      BY <1>1, <3>2, <3>3, Zenon
  <2>3. answered' \in {r.n, answered}
    BY <1>1
  <2> QED
    BY <1>2, <2>1, <2>2, <2>3
<1>6. DetailTyped'
  BY <1>1, <1>3, <1>4, <1>5 DEF DetailTyped, DetailTypeOK
<1>7. DecidedKept' /\ AnswersNamed'
  BY <1>1 DEF DecidedKept, AnswersNamed
<1> QED
  BY <1>6, <1>7

\* The youngest load brings what is right; another one comes before it, or is
\* known to be outrun.
LEMMA OnDetailStep ==
    ASSUME DetailInv, NEW r \in loads, OnDetail(r)
    PROVE  DetailInv'
<1> USE DEF DetailInv
<1>1. /\ r.answer # None /\ loads' = loads \ {r} /\ alert' = r.answer
      /\ answered' = (IF r.n > answered THEN r.n ELSE answered)
      /\ outrun' = (r.n < answered)
      /\ route' = route /\ error' = error /\ ack' = ack /\ issued' = issued
      /\ strayed' = strayed /\ stale' = stale /\ decided' = decided
  BY DEF OnDetail
<1>2. /\ r.answer \in Detail /\ r.answer.id = r.id
      /\ r.n \in 1..issued /\ issued \in Nat /\ answered \in 0..issued
  BY <1>1 DEF DetailTyped, DetailTypeOK, AnswersNamed
<1>3. (\A a : Deciding(a)' = Deciding(a)) /\ (\A d : Behind(d)' = Behind(d))
  BY <1>1 DEF Deciding, Behind
<1>4. YoungestRight'
  BY <1>1, <1>3 DEF YoungestRight
<1>5. CASE r.n = issued
  <2>1. answered' = issued'
    BY <1>1, <1>2, <1>5
  <2>2. /\ r.id = route \/ strayed
        /\ Behind(r.answer) => error \/ stale \/ Deciding(r.id)
    BY <1>1, <1>5 DEF YoungestRight
  <2>3. ScreenRight'
    BY <1>1, <1>2, <1>3, <2>2 DEF ScreenRight
  <2> QED
    BY <1>4, <2>1, <2>3, LoadedTyped DEF YoungestSeen
<1>6. CASE r.n # issued /\ Awaited
  <2>1. Awaited'
    BY <1>1, <1>6 DEF Awaited
  <2> QED
    BY <1>4, <2>1, LoadedTyped DEF YoungestSeen, ScreenRight
<1>7. CASE error
  BY <1>1, <1>4, <1>7, LoadedTyped DEF YoungestSeen, ScreenRight
<1>8. CASE r.n # issued /\ answered = issued
  <2>1. r.n < answered /\ ~(r.n > answered)
    BY <1>2, <1>8
  <2>2. answered' = issued' /\ outrun' = TRUE
    BY <1>1, <1>8, <2>1
  <2> QED
    BY <1>4, <2>2, LoadedTyped DEF YoungestSeen, ScreenRight
<1> QED
  BY <1>5, <1>6, <1>7, <1>8 DEF YoungestSeen

LEMMA OnLoadErrorStep ==
    ASSUME DetailInv, NEW r \in loads, OnLoadError(r)
    PROVE  DetailInv'
<1> USE DEF DetailInv
<1>1. /\ loads' = loads \ {r} /\ error' = TRUE /\ route' = route /\ issued' = issued
      /\ UNCHANGED orderVars
  BY DEF OnLoadError
<1>2. YoungestRight'
  BY <1>1 DEF YoungestRight, orderVars
<1> QED
  BY <1>1, <1>2, LoadedTyped DEF YoungestSeen, ScreenRight

\* Steps that leave the loads and the screen alone.
LEMMA LoadsKept ==
    ASSUME YoungestRight, YoungestSeen, ScreenRight,
           UNCHANGED <<loads, issued, route, alert, error, orderVars>>,
           \A d \in Detail \cup {None} : Behind(d)' => Behind(d) \/ Deciding(d.id)',
           \A a : Deciding(a) => Deciding(a)',
           DetailTyped, AnswersNamed
    PROVE  YoungestRight' /\ YoungestSeen' /\ ScreenRight'
<1>1. /\ strayed' = strayed /\ stale' = stale /\ outrun' = outrun /\ answered' = answered
      /\ Awaited' = Awaited
  BY DEF orderVars, Awaited
<1>2. \A r \in loads : r.answer \in Detail \cup {None}
  BY DEF DetailTyped
<1>3. YoungestRight'
  BY <1>1, <1>2 DEF YoungestRight, AnswersNamed
<1> QED
  BY <1>1, <1>3 DEF YoungestSeen, ScreenRight

LEMMA OnChartStep ==
    ASSUME DetailInv, NEW a \in charts, OnChart(a)
    PROVE  DetailInv'
<1> USE DEF DetailInv
<1>1. /\ charts' = charts \ {a} /\ telemetry' \in {a, None}
      /\ UNCHANGED <<status, route, alert, loading, error, acknowledging, acknowledged, conflict,
                     loads, ack, issued, orderVars, decided, boundVars>>
  BY DEF OnChart
<1>2. DetailTyped'
  BY <1>1 DEF DetailTyped, DetailTypeOK, boundVars, orderVars
<1>3. DecidedKept' /\ AnswersNamed'
  BY <1>1 DEF DecidedKept, AnswersNamed
<1>4. (\A d : Behind(d)' = Behind(d)) /\ (\A x : Deciding(x)' = Deciding(x))
  BY <1>1 DEF Behind, Deciding
<1> QED
  BY <1>1, <1>2, <1>3, <1>4, LoadsKept

\* Nothing is being decided when an alert is submitted.
LEMMA SubmitStep ==
    ASSUME DetailInv, Submit
    PROVE  DetailInv'
<1> USE DEF DetailInv
<1>1. /\ alert # None /\ alert.status = "NEW" /\ ~acknowledging
      /\ ack' = [phase |-> "sent", id |-> alert.id, version |-> 0]
      /\ acknowledging' = TRUE /\ conflict' = None
      /\ UNCHANGED <<status, route, alert, telemetry, loading, error, acknowledged, loads, charts,
                     issued, orderVars, decided, boundVars>>
  BY DEF Submit, FormVisible, Version
<1>2. alert \in Detail /\ alert.id \in Alert /\ ack = NoAck
  BY <1>1 DEF DetailTyped, DetailTypeOK, Detail
<1>3. /\ ack' \in [phase : {"sent", "done", "refused"}, id : Alert, version : {0}]
      /\ ack'.phase = "sent" /\ ack'.id = alert.id /\ ack' # NoAck
  BY <1>1, <1>2 DEF NoAck
<1>4. DetailTyped'
  BY <1>1, <1>3 DEF DetailTyped, DetailTypeOK, boundVars, orderVars
<1>5. DecidedKept' /\ AnswersNamed'
  BY <1>1 DEF DecidedKept, AnswersNamed
<1>6. (\A d : Behind(d)' = Behind(d)) /\ (\A x : ~Deciding(x))
  BY <1>1, <1>2 DEF Behind, Deciding
<1> QED
  BY <1>1, <1>4, <1>5, <1>6, LoadsKept

\* What becomes out of date by the decision is told by its answer.
LEMMA ServeAckStep ==
    ASSUME DetailInv, ack # NoAck, ServeAck
    PROVE  DetailInv'
<1> USE DEF DetailInv
<1>1. /\ ack \in [phase : {"sent", "done", "refused"}, id : Alert, version : {0}]
      /\ ack.phase = "sent" /\ ack.id \in Alert /\ ack.version = 0
  BY DEF DetailTyped, ServeAck
<1>2. /\ decided' = decided \cup {ack.id}
      /\ UNCHANGED <<route, screenVars, loads, charts, issued, orderVars, boundVars>>
  BY DEF ServeAck
<1>3. /\ status' \in [Alert -> Status]
      /\ status'[ack.id] = "ACKNOWLEDGED"
      /\ \A a \in Alert : status[a] = "ACKNOWLEDGED" => status'[a] = "ACKNOWLEDGED"
      /\ ack' \in [phase : {"done", "refused"}, id : {ack.id}, version : {0}]
  <2>1. CASE status[ack.id] = "NEW" /\ Version(status[ack.id]) = ack.version
    <3>1. /\ status' = [status EXCEPT ![ack.id] = "ACKNOWLEDGED"]
          /\ ack' = [ack EXCEPT !.phase = "done"]
      BY <2>1 DEF ServeAck
    <3> QED
      BY <1>1, <3>1 DEF DetailTyped, DetailTypeOK, Status
  <2>2. CASE ~(status[ack.id] = "NEW" /\ Version(status[ack.id]) = ack.version)
    <3>1. status' = status /\ ack' = [ack EXCEPT !.phase = "refused"]
      BY <2>2 DEF ServeAck
    <3>2. status[ack.id] = "ACKNOWLEDGED"
      BY <1>1, <2>2 DEF Version, DetailTyped, DetailTypeOK, Status
    <3> QED
      BY <1>1, <3>1, <3>2 DEF DetailTyped, DetailTypeOK
  <2> QED
    BY <2>1, <2>2
<1>4. ack' # NoAck /\ ack'.id = ack.id /\ ack'.phase # "sent"
  BY <1>3 DEF NoAck
<1>5. DetailTyped'
  BY <1>1, <1>2, <1>3, <1>4 DEF DetailTyped, DetailTypeOK, screenVars, boundVars, orderVars
<1>6. DecidedKept' /\ AnswersNamed'
  BY <1>1, <1>2, <1>3 DEF DecidedKept, AnswersNamed, DetailTyped, DetailTypeOK
<1>7. \A d : Behind(d)' => Behind(d) \/ Deciding(d.id)'
  BY <1>2, <1>4 DEF Behind, Deciding
<1>8. \A a : ~Deciding(a)
  BY <1>1 DEF Deciding
<1> QED
  BY <1>2, <1>5, <1>6, <1>7, <1>8, LoadsKept DEF screenVars

LEMMA OnAcknowledgedStep ==
    ASSUME DetailInv, ack # NoAck, OnAcknowledged
    PROVE  DetailInv'
<1> USE DEF DetailInv
<1>1. /\ alert' = [id |-> ack.id, status |-> "ACKNOWLEDGED"] /\ ack' = NoAck
      /\ acknowledging' = FALSE /\ acknowledged' = TRUE
      /\ strayed' = (strayed \/ ack.id # route)
      /\ stale' = (stale \/ \E r \in loads : r.answer = [id |-> ack.id, status |-> "NEW"])
      /\ UNCHANGED <<status, route, telemetry, loading, error, conflict, loads, charts, issued,
                     answered, outrun, decided, boundVars>>
  BY DEF OnAcknowledged, Updated
<1>2. /\ ack.id \in Alert /\ alert' \in Detail /\ alert'.id = ack.id
      /\ alert'.status = "ACKNOWLEDGED" /\ strayed' \in BOOLEAN /\ stale' \in BOOLEAN
  BY <1>1 DEF DetailTyped, DetailTypeOK, Detail, Status
<1>3. DetailTyped'
  BY <1>1, <1>2 DEF DetailTyped, DetailTypeOK, boundVars
<1>4. DecidedKept' /\ AnswersNamed'
  BY <1>1 DEF DecidedKept, AnswersNamed
<1>5. Awaited' = Awaited /\ \A d : Behind(d)' = Behind(d)
  BY <1>1 DEF Awaited, Behind
<1>6. YoungestRight'
  <2> SUFFICES ASSUME NEW r \in loads, r.n = issued
               PROVE  /\ r.id = route \/ strayed'
                      /\ r.answer # None /\ Behind(r.answer) => error \/ stale'
    BY <1>1, <1>5 DEF YoungestRight
  <2>1. CASE Deciding(r.id) /\ r.answer # None /\ Behind(r.answer)
    <3>1. r.answer \in Detail /\ r.answer.id = ack.id /\ r.answer.status = "NEW"
      BY <2>1 DEF Deciding, Behind, AnswersNamed, DetailTyped, DetailTypeOK
    <3>2. r.answer = [id |-> ack.id, status |-> "NEW"]
      BY <3>1 DEF Detail
    <3> QED
      BY <1>1, <3>2 DEF YoungestRight
  <2>2. CASE ~(Deciding(r.id) /\ r.answer # None /\ Behind(r.answer))
    BY <1>1, <2>2 DEF YoungestRight
  <2> QED
    BY <2>1, <2>2
<1>7. YoungestSeen' /\ ScreenRight'
  BY <1>1, <1>2, <1>5 DEF YoungestSeen, ScreenRight, Behind
<1> QED
  BY <1>3, <1>4, <1>6, <1>7

LEMMA OnConflictStep ==
    ASSUME DetailInv, ack # NoAck, OnConflict
    PROVE  DetailInv'
<1> USE DEF DetailInv
<1>1. /\ Load(ack.id) /\ conflict' = ack.id /\ acknowledging' = FALSE /\ ack' = NoAck
      /\ strayed' = (strayed \/ ack.id # route)
      /\ UNCHANGED <<status, route, alert, telemetry, acknowledged, charts, answered, outrun,
                     decided, boundVars>>
  BY DEF OnConflict, ReloadAfterConflict
<1>2. ack.id \in Alert /\ strayed' \in BOOLEAN /\ (ack.id = route' \/ strayed')
  BY <1>1 DEF DetailTyped, DetailTypeOK
<1>3. DetailTyped' /\ AnswersNamed'
  BY <1>1, <1>2, LoadStep DEF DetailTyped, DetailTypeOK, boundVars, Awaited
<1>4. DecidedKept'
  BY <1>1 DEF DecidedKept
<1> QED
  BY <1>1, <1>2, <1>3, <1>4, LoadRight

LEMMA OnAckErrorStep ==
    ASSUME DetailInv, OnAckError
    PROVE  DetailInv'
<1> USE DEF DetailInv
<1>1. /\ ack # NoAck /\ ack' = NoAck /\ acknowledging' = FALSE /\ error' = TRUE
      /\ faults < MaxFaults /\ faults' = faults + 1
      /\ UNCHANGED <<status, route, alert, telemetry, loading, acknowledged, conflict, loads,
                     charts, issued, orderVars, decided, navigations>>
  BY DEF OnAckError, Faulty
<1>2. faults' \in 0..MaxFaults
  BY <1>1, RequestAssumption DEF DetailTyped, DetailTypeOK
<1>3. DetailTyped'
  BY <1>1, <1>2 DEF DetailTyped, DetailTypeOK, orderVars
<1>4. DecidedKept' /\ AnswersNamed'
  BY <1>1 DEF DecidedKept, AnswersNamed
<1>5. YoungestRight'
  BY <1>1 DEF YoungestRight, orderVars
<1> QED
  BY <1>1, <1>3, <1>4, <1>5 DEF YoungestSeen, ScreenRight

LEMMA OtherOperatorStep ==
    ASSUME DetailInv, NEW a \in Alert, OtherOperator(a)
    PROVE  DetailInv'
<1> USE DEF DetailInv
<1>1. /\ status' = [status EXCEPT ![a] = "ACKNOWLEDGED"]
      /\ UNCHANGED <<route, screenVars, loadVars, orderVars, decided, boundVars>>
  BY DEF OtherOperator
<1>2. DetailTyped'
  BY <1>1 DEF DetailTyped, DetailTypeOK, Status, screenVars, loadVars, boundVars, orderVars
<1>3. DecidedKept' /\ AnswersNamed'
  BY <1>1 DEF DecidedKept, AnswersNamed, DetailTyped, DetailTypeOK, loadVars
<1>4. (\A d : Behind(d)' = Behind(d)) /\ (\A x : Deciding(x)' = Deciding(x))
  BY <1>1 DEF Behind, Deciding, loadVars
<1> QED
  BY <1>1, <1>2, <1>3, <1>4, LoadsKept DEF screenVars, loadVars

\* The last load asked for is still to come, has failed, or is the last that
\* was answered; what it brings is about the route and knows of the decisions
\* made, or the page has what tells why not.
THEOREM DetailInvariance == DetailSpec => []DetailInv
<1>1. DetailInit => DetailInv
  <2> SUFFICES ASSUME DetailInit PROVE DetailInv
    OBVIOUS
  <2>1. /\ Request(1, route) \in [n : Nat, id : Alert, answer : Detail \cup {None}]
        /\ Request(1, route).n = 1 /\ Request(1, route).answer = None
        /\ Request(1, route).id = route
    BY DEF DetailInit, Request
  <2>2. /\ loads = {Request(1, route)} /\ issued = 1 /\ 1 \in Nat
        /\ 0 \in 0..MaxNavigations /\ 0 \in 0..MaxFaults
    BY DetailAssumption, RequestAssumption DEF DetailInit
  <2>3. \A r \in loads : r.n \in 1..issued /\ r.id \in Alert /\ r.answer = None
    BY <2>1, <2>2 DEF DetailInit
  <2>4. DetailTypeOK
    <3>1. answered = 0 /\ 0 \in 0..1
      BY DEF DetailInit
    <3> QED
      BY <2>2, <2>3, <3>1 DEF DetailInit, DetailTypeOK
  <2>5. DetailTyped
    BY <2>1, <2>2, <2>4 DEF DetailInit, DetailTyped
  <2>6. DecidedKept /\ AnswersNamed
    BY <2>3 DEF DetailInit, DecidedKept, AnswersNamed
  <2>7. Awaited /\ YoungestRight
    BY <2>1, <2>2 DEF Awaited, YoungestRight
  <2> QED
    BY <2>5, <2>6, <2>7 DEF DetailInv, YoungestSeen, ScreenRight
<1>2. DetailInv /\ [DetailNext]_detailVars => DetailInv'
  <2> SUFFICES ASSUME DetailInv, [DetailNext]_detailVars PROVE DetailInv'
    OBVIOUS
  <2>1. CASE UNCHANGED detailVars
    <3>1. DetailTyped' /\ DecidedKept' /\ AnswersNamed'
      BY <2>1 DEF detailVars, screenVars, loadVars, orderVars, boundVars, DetailInv,
                  DetailTyped, DetailTypeOK, DecidedKept, AnswersNamed
    <3>2. (\A d : Behind(d)' = Behind(d)) /\ (\A x : Deciding(x)' = Deciding(x))
      BY <2>1 DEF Behind, Deciding, detailVars, loadVars
    <3> QED
      BY <2>1, <3>1, <3>2, LoadsKept DEF detailVars, screenVars, loadVars, DetailInv
  <2>2. CASE \E a \in Alert : Navigate(a) \/ OtherOperator(a)
    BY <2>2, NavigateStep, OtherOperatorStep
  <2>3. CASE RetryLoad \/ Submit
    BY <2>3, RetryLoadStep, SubmitStep
  <2>4. CASE Requests
    BY <2>4, ServeLoadStep, OnDetailStep, OnLoadErrorStep, OnChartStep, ServeAckStep,
       OnAcknowledgedStep, OnConflictStep, OnAckErrorStep DEF Requests
  <2> QED
    BY <2>1, <2>2, <2>3, <2>4 DEF DetailNext
<1> QED
  BY <1>1, <1>2, PTL DEF DetailSpec

\* Every variable of the detail page keeps its type; the form is busy exactly
\* as long as an acknowledgement is in flight.
THEOREM DetailTypeCorrect == DetailSpec => []DetailTypeOK
<1>1. DetailInv => DetailTypeOK
  BY DEF DetailInv, DetailTyped
<1> QED
  BY <1>1, DetailInvariance, PTL

\* At rest no load is awaited, and no decision is on its way.
LEMMA AtRestSettled ==
    ASSUME DetailInv, AtRest, ~error, ~outrun
    PROVE  /\ alert \in Detail
           /\ alert.id = route \/ strayed
           /\ Behind(alert) => stale
<1>1. ~Awaited /\ \A a : ~Deciding(a)
  BY DEF AtRest, Awaited, Deciding
<1> QED
  BY <1>1 DEF DetailInv, ScreenRight

\* The page at rest shows the alert of the route, however its requests came,
\* unless it was outrun or an acknowledgement of another alert came back.
THEOREM RouteIsShown == DetailSpec => []RouteShownUnlessOutrun
<1>1. DetailInv => RouteShownUnlessOutrun
  BY AtRestSettled DEF RouteShownUnlessOutrun
<1> QED
  BY <1>1, DetailInvariance, PTL

\* An operator whose acknowledgement was decided is not left in front of the
\* alert as if it were NEW, unless an answer read before the decision came
\* after it.
THEOREM AttemptIsResolved == DetailSpec => []ResolvedUnlessStale
<1>1. DetailInv => ResolvedUnlessStale
  <2> SUFFICES ASSUME DetailInv, AtRest, ~error, ~outrun, ~stale, alert.id \in decided
               PROVE  alert.status = "ACKNOWLEDGED"
    BY DEF ResolvedUnlessStale
  <2>1. alert \in Detail /\ ~Behind(alert)
    BY AtRestSettled
  <2> QED
    BY <2>1 DEF Behind, Detail, Status
<1> QED
  BY <1>1, DetailInvariance, PTL

=============================================================================
