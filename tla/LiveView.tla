------------------------------ MODULE LiveView ------------------------------
(***************************************************************************)
(* The live page of the dashboard: the store that keeps what is on screen, *)
(* the service that owns the event stream, and what they live with, the    *)
(* alert service that commits rows and announces some of them, a list      *)
(* endpoint that answers in any order and a stream that breaks.            *)
(*                                                                         *)
(* The browser runs one callback at a time: every action is one callback.  *)
(* An EventSource that was closed delivers nothing more, and a new one has *)
(* no Last-Event-ID: the server replays nothing to it.  An alert is the    *)
(* number of its detection instant.  The threads of the service read the   *)
(* rows they announce, and send them, in any order.  A row is what the     *)
(* feed shows of it: its status, and the commit that wrote it.             *)
(***************************************************************************)
EXTENDS AlertModel, RequestState, Integers, Sequences, FiniteSets, Bags

CONSTANTS
    FeedLimit,    \* liveFeedLimit: rows of the feed, and of the page loaded
    MaxCommits,   \* bound: insertions, revisions and acknowledgements
    MaxVisits     \* bound: times the page is entered

ASSUME LiveAssumption ==
    /\ Alert \subseteq Nat
    /\ {FeedLimit, MaxCommits, MaxVisits} \subseteq Nat \ {0}

VARIABLES
    database,     \* [Alert -> row]: what is committed
    version,      \* commits so far
    announcing,   \* commits whose listener has still to read the row again
    sending,      \* rows read that are still to be sent
    unannounced,  \* alerts whose row no announcement tells, and no page since
    visible,      \* the live page is on screen
    subscriptions,\* start()'s subscriptions to the stream service
    source,       \* the EventSource: none, connecting, registered, open, or cut
                  \* from the service without having been told so yet
    leaked,       \* sources the service has lost hold of without closing
    channel,      \* events on their way to the source
    timer,        \* a reconnection is scheduled
    asked,        \* list requests the server has still to read
    answers,      \* pages on their way back: a bag, they come in any order
    alerts,       \* [subset of Alert -> row]: the store's map
    told,         \* [Alert -> commit of the newest row the map has had]
    visits

serverVars == <<database, version, announcing, sending, unannounced>>
streamVars == <<source, leaked, channel, timer>>
storeVars == <<alerts, told>>
requestVars == <<asked, answers, loading, error>>
pageVars == <<visible, subscriptions, visits>>
vars == <<serverVars, streamVars, storeVars, requestVars, pageVars, faults>>

Row == [status : Status, commit : 1..MaxCommits]
NoRow == [status |-> "absent", commit |-> 0]
Event == [alert : Alert, row : Row]
Rows == UNION {[held -> Row] : held \in SUBSET Alert}
EmptyMap == [a \in {} |-> NoRow]
Stored == {a \in Alert : database[a] # NoRow}
In(rows, a) == IF a \in DOMAIN rows THEN rows[a] ELSE NoRow

\* The newest of some alerts, as many as the feed has rows.
Newest(rows) ==
    LET first == {a \in DOMAIN rows : Cardinality({b \in DOMAIN rows : b > a}) < FeedLimit}
    IN  [a \in first |-> rows[a]]

Later(m, n) == IF m > n THEN m ELSE n

\* One page of the list endpoint, newest first.
Page == Newest([a \in Stored |-> database[a]])

\* The rows on screen.
Feed == Newest(alerts)

\* The map has had newer rows of these alerts than it holds.
Overtaken == {a \in Alert : In(alerts, a).commit < told[a]}

TypeOK ==
    /\ database \in [Alert -> Row \cup {NoRow}]
    /\ version \in 0..MaxCommits /\ told \in [Alert -> 0..version]
    /\ \A c \in announcing : c.alert \in Alert /\ c.commit \in 1..version
    /\ \A s \in sending : s.alert \in Alert /\ s.commit \in 1..version /\ s.row \in Row
    /\ unannounced \subseteq Alert
    /\ channel \in Seq(Event)
    /\ visible \in BOOLEAN /\ timer \in BOOLEAN /\ loading \in BOOLEAN
    /\ error \in BOOLEAN
    /\ visits \in 0..MaxVisits /\ subscriptions = visits
    /\ source \in {"none", "connecting", "registered", "open", "cut"}
    /\ source \notin {"registered", "open"} => channel = <<>>
    /\ leaked \in Nat /\ asked \in Nat
    /\ IsABag(answers)
    /\ loading => asked > 0 \/ answers # EmptyBag
    /\ \A p \in DOMAIN answers : p.version \in 0..version /\ p.rows \in Rows
    /\ alerts \in Rows
    /\ faults \in 0..MaxFaults

Init ==
    /\ database = [a \in Alert |-> NoRow]
    /\ version = 0
    /\ announcing = {}
    /\ sending = {}
    /\ unannounced = {}
    /\ visible = FALSE
    /\ subscriptions = 0
    /\ source = "none"
    /\ leaked = 0
    /\ channel = <<>>
    /\ timer = FALSE
    /\ asked = 0
    /\ answers = EmptyBag
    /\ alerts = EmptyMap
    /\ told = [a \in Alert |-> 0]
    /\ loading = FALSE
    /\ error = FALSE
    /\ visits = 0
    /\ faults = 0

-----------------------------------------------------------------------------
(* The alert service: rows *)

Write(a, status) ==
    /\ version < MaxCommits
    /\ version' = version + 1
    /\ database' = [database EXCEPT ![a] = [status |-> status, commit |-> version + 1]]
    /\ UNCHANGED <<sending, streamVars, storeVars, requestVars, pageVars, faults>>

Announced(a) == announcing' = announcing \cup {[alert |-> a, commit |-> version + 1]}

Insert(a) ==
    /\ database[a] = NoRow
    /\ Write(a, "NEW")
    /\ Announced(a)
    /\ UNCHANGED unannounced

\* A replay: the upsert rewrites a NEW row, and nothing is published.
Revise(a) ==
    /\ database[a].status = "NEW"
    /\ Write(a, "NEW")
    /\ unannounced' = unannounced \cup {a}
    /\ UNCHANGED announcing

Acknowledge(a) ==
    /\ database[a].status = "NEW"
    /\ Write(a, "ACKNOWLEDGED")
    /\ Announced(a)
    /\ UNCHANGED unannounced

-----------------------------------------------------------------------------
(* The alert service: the stream and the list *)

\* The listener runs after the commit and reads the row as it is by then.
ReadRow(c) ==
    /\ announcing' = announcing \ {c}
    /\ sending' = sending \cup {[alert |-> c.alert, commit |-> c.commit,
                                  row |-> database[c.alert]]}
    /\ unannounced' = unannounced \ {c.alert}
    /\ UNCHANGED <<database, version, streamVars, storeVars, requestVars, pageVars, faults>>

\* The read throws: what was committed stays, and the event is lost.
ReadFails(c) ==
    /\ Faulty
    /\ announcing' = announcing \ {c}
    /\ unannounced' = unannounced \cup {c.alert}
    /\ UNCHANGED <<database, version, sending, streamVars, storeVars, requestVars, pageVars>>

\* The broadcast reaches the connections that are registered.
Broadcast(s) ==
    /\ sending' = sending \ {s}
    /\ channel' = IF source \in {"registered", "open"}
                  THEN Append(channel, [alert |-> s.alert, row |-> s.row]) ELSE channel
    /\ UNCHANGED <<database, version, announcing, unannounced, source, leaked, timer, storeVars,
                   requestVars, pageVars, faults>>

Register ==
    /\ source = "connecting"
    /\ source' = "registered"
    /\ UNCHANGED <<serverVars, leaked, channel, timer, storeVars, requestVars,
                   pageVars, faults>>

\* The list endpoint reads the database.
Answer ==
    /\ asked > 0
    /\ asked' = asked - 1
    /\ answers' = answers (+) SetToBag({[version |-> version, rows |-> Page]})
    /\ unannounced' = {}
    /\ UNCHANGED <<database, version, announcing, sending, streamVars, storeVars, loading, error,
                   pageVars, faults>>

-----------------------------------------------------------------------------
(* The store and the stream service *)

\* n calls of refresh(): the error is cleared and nothing in flight cancelled.
Refresh(n) ==
    /\ asked' = asked + n
    /\ loading' = (loading \/ n > 0)
    /\ error' = (error /\ n = 0)
    /\ UNCHANGED answers

\* open(): a source it held already is lost without being closed.
Open ==
    /\ source' = "connecting"
    /\ leaked' = leaked + (IF source = "none" THEN 0 ELSE 1)
    /\ channel' = <<>>

\* start(): load, subscribe for the life of the store, connect.
Start ==
    /\ ~visible
    /\ visits < MaxVisits
    /\ visits' = visits + 1
    /\ visible' = TRUE
    /\ Refresh(1)
    /\ subscriptions' = subscriptions + 1
    /\ IF source = "none" THEN Open ELSE UNCHANGED <<source, leaked, channel>>
    /\ UNCHANGED <<serverVars, timer, storeVars, faults>>

\* Mutant of TimerAfterStop: disconnect() leaves the timer.
TimerKept == timer

TimerAfterStop == FALSE

\* stop(): disconnect.
Stop ==
    /\ visible
    /\ visible' = FALSE
    /\ timer' = TimerAfterStop
    /\ source' = "none"
    /\ channel' = <<>>
    /\ UNCHANGED <<serverVars, leaked, storeVars, requestVars, subscriptions, visits,
                   faults>>

\* Mutant of Reloads: a connection does not reload the list.
ReloadsNever == 0

\* Every subscription reloads the list.
Reloads == subscriptions

OnOpen ==
    /\ source = "registered"
    /\ source' = "open"
    /\ Refresh(Reloads)
    /\ UNCHANGED <<serverVars, leaked, channel, timer, storeVars, pageVars, faults>>

\* The link breaks, and the browser does not know yet.
Cut ==
    /\ source \in {"registered", "open"}
    /\ Faulty
    /\ source' = "cut"
    /\ channel' = <<>>
    /\ UNCHANGED <<serverVars, leaked, timer, storeVars, requestVars, pageVars>>

\* The service dies with what it had to announce, and its connections with it.
Crash ==
    /\ Faulty
    /\ announcing' = {}
    /\ sending' = {}
    /\ source' = IF source \in {"registered", "open"} THEN "cut" ELSE source
    /\ channel' = <<>>
    /\ UNCHANGED <<database, version, unannounced, leaked, timer, storeVars, requestVars, pageVars>>

\* Mutant of Reschedules: an attempt that fails is the last.
ReschedulesCut == source = "cut"

Reschedules == TRUE

\* onerror: the source is closed and a new one scheduled.
OnError ==
    /\ \/ source = "cut" /\ UNCHANGED faults
       \/ source = "connecting" /\ Faulty
    /\ source' = "none"
    /\ timer' = Reschedules
    /\ UNCHANGED <<serverVars, leaked, channel, storeVars, requestVars, pageVars>>

\* disconnect() sets explicitlyClosed, connect() clears it.
TimerFires ==
    /\ timer
    /\ timer' = FALSE
    /\ IF visible THEN Open ELSE UNCHANGED <<source, leaked, channel>>
    /\ UNCHANGED <<serverVars, storeVars, requestVars, pageVars, faults>>

\* upsert: one row per alert, whichever event comes.
OnEvent ==
    /\ source = "open"
    /\ channel # <<>>
    /\ LET e == Head(channel)
       IN  /\ alerts' = [a \in DOMAIN alerts \cup {e.alert} |->
                            IF a = e.alert THEN e.row ELSE alerts[a]]
           /\ told' = [told EXCEPT ![e.alert] = Later(@, e.row.commit)]
    /\ channel' = Tail(channel)
    /\ UNCHANGED <<serverVars, source, leaked, timer, requestVars, pageVars, faults>>

\* The page replaces whatever is held.
OnPage(p) ==
    /\ answers' = answers (-) SetToBag({p})
    /\ alerts' = p.rows
    /\ told' = [a \in Alert |-> Later(told[a], In(p.rows, a).commit)]
    /\ loading' = FALSE
    /\ UNCHANGED <<serverVars, streamVars, asked, error, pageVars, faults>>

OnRequestError ==
    /\ asked > 0
    /\ Faulty
    /\ asked' = asked - 1
    /\ loading' = FALSE
    /\ error' = TRUE
    /\ UNCHANGED <<serverVars, streamVars, storeVars, answers, pageVars>>

\* The button of the error message.
Retry ==
    /\ visible /\ error
    /\ Refresh(1)
    /\ UNCHANGED <<serverVars, streamVars, storeVars, pageVars, faults>>

Service ==
    \/ \E a \in Alert : Insert(a) \/ Revise(a) \/ Acknowledge(a)
    \/ \E c \in announcing : ReadRow(c) \/ ReadFails(c)
    \/ \E s \in sending : Broadcast(s)
    \/ Cut
    \/ Crash

Network ==
    \/ Register
    \/ OnOpen
    \/ OnEvent
    \/ Answer
    \/ \E p \in DOMAIN answers : OnPage(p)

Next ==
    \/ Service
    \/ Network
    \/ Start
    \/ Stop
    \/ OnError
    \/ TimerFires
    \/ OnRequestError
    \/ Retry

Spec == Init /\ [][Next]_vars

\* A scheduled timer fires, an attempt that does not fail succeeds, and a
\* browser learns in the end that its link is cut.
FairSpec ==
    /\ Spec
    /\ WF_vars(Register) /\ WF_vars(OnOpen) /\ WF_vars(TimerFires)
    /\ WF_vars(source = "cut" /\ OnError)

-----------------------------------------------------------------------------
(* Properties *)

\* Nothing is on its way to the store any more.
Quiet ==
    /\ visible /\ source = "open" /\ channel = <<>>
    /\ announcing = {} /\ sending = {}
    /\ asked = 0 /\ answers = EmptyBag

\* A connected page at rest that tells of no failed load shows the newest rows
\* of the database as they are, in whatever order threads announced them and
\* pages came, and whatever was committed while no stream was open.  Two things
\* can spoil a row, and they spoil no other: the service rewrote it and told
\* no stream (a replay, a read that failed), or something older that came
\* late was put over it.  A page with no such row among the newest is exact.
AgreesWhereTold ==
    Quiet /\ ~error =>
        LET spoilt == (unannounced \cup Overtaken) \cap DOMAIN Page
        IN  /\ \A a \in DOMAIN Page \ spoilt : a \in DOMAIN Feed /\ Feed[a] = Page[a]
            /\ spoilt = {} => Feed = Page

\* However a user comes and goes while streams break and timers run, the
\* service holds every stream it has opened.
NoStreamLeaked == leaked = 0

\* A page that stays on screen is connected again once streams stop
\* breaking: the reconnection never stalls between a timer and a source.
Reconnects == []<>(source = "open" \/ ~visible)

-----------------------------------------------------------------------------
(* What the store's comments say, and the code does not do: TLC refutes   *)
(* each of these on the instance of MCLiveView.                            *)

\* What the store says of itself: a projection of the database that is
\* rebuilt on every connection and cannot disagree with it.
AgreesWithDatabase == Quiet /\ ~error => Feed = Page

\* A reconnection reloads the list, once.
OneReloadPerConnection == source = "open" => Reloads <= 1
=============================================================================
