---------------------------- MODULE AlertStream ----------------------------
(***************************************************************************)
(* The live stream of alert-service: threads that commit a new alert or an *)
(* acknowledgement broadcast it to the connected dashboards; a dashboard   *)
(* whose connection broke comes back with the last event id it saw and the *)
(* server replays what has a higher one, while broadcasts go on.           *)
(*                                                                         *)
(* Abstracted: an event is its alert, its id and the status it shows.  A   *)
(* browser is an EventSource (external).  What a transaction writes and    *)
(* who may acknowledge belong to AlertIngestion.                           *)
(***************************************************************************)
EXTENDS Integers, Sequences, Functions

CONSTANTS
    Alert,        \* alert identifiers
    Thread,       \* threads that commit: Kafka listeners and web requests
    Client,       \* browsers
    Interest,     \* [Client -> SUBSET Alert], what its filters accept
    MaxReplay,    \* sse.max-replay-events
    MaxConn,      \* bound: connections ever opened
    MaxFaults     \* bound: rollbacks, failed reads, broken links, crashes

ASSUME InterestAssumption == Interest \in [Client -> SUBSET Alert]
ASSUME SizeAssumption ==
    /\ Alert # {} /\ Client # {}
    /\ MaxReplay \in Nat \ {0} /\ MaxConn \in Nat /\ MaxFaults \in Nat

VARIABLES
    nextSeq,     \* the sequence behind alert.event_seq
    seq,         \* [Alert -> Nat], event_seq of an inserted row, 0 without a row
    visible,     \* alerts whose insertion is committed
    status,      \* [Alert -> Status], committed status
    thread,      \* [Thread -> what it is committing or broadcasting]
    registered,  \* the broadcaster's subscribers map
    conn,        \* [Conn -> connection]
    client,      \* [Client -> what the browser holds]
    ticking,     \* the heartbeat is still scheduled
    unread,      \* alerts whose row could not be read for the broadcast
    faults

tableVars == <<nextSeq, seq, visible, status>>
vars == <<tableVars, thread, registered, conn, client, ticking, unread, faults>>

Conn == 1 .. MaxConn
Status == {"NEW", "ACKNOWLEDGED"}
Event == [alert : Alert, id : Nat, status : Status]
ThreadState == [step : {"idle", "open", "committed", "sending"}, alert : Alert,
                status : Status, must : SUBSET Conn, done : SUBSET Conn]
Connection == [link : {"unused", "open", "broken"}, of : Client, after : Nat,
               phase : {"query", "replay", "live"}, todo : Seq(Event),
               pipe : Seq(Event), joined : SUBSET Alert, sent : SUBSET Alert]
Browser == [cursor : Nat, shown : [Alert -> Status \cup {"none"}]]

TypeOK ==
    /\ nextSeq \in Nat
    /\ seq \in [Alert -> Nat]
    /\ visible \subseteq Alert
    /\ status \in [Alert -> Status]
    /\ thread \in [Thread -> ThreadState]
    /\ registered \subseteq Conn
    /\ conn \in [Conn -> Connection]
    /\ client \in [Client -> Browser]
    /\ ticking \in BOOLEAN
    /\ unread \subseteq Alert
    /\ faults \in Nat

Idle == [step |-> "idle", alert |-> CHOOSE a \in Alert : TRUE, status |-> "NEW",
         must |-> {}, done |-> {}]
Unused == [link |-> "unused", of |-> CHOOSE k \in Client : TRUE, after |-> 0,
           phase |-> "live", todo |-> <<>>, pipe |-> <<>>, joined |-> {}, sent |-> {}]

Init ==
    /\ nextSeq = 1
    /\ seq = [a \in Alert |-> 0]
    /\ visible = {}
    /\ status = [a \in Alert |-> "NEW"]
    /\ thread = [t \in Thread |-> Idle]
    /\ registered = {}
    /\ conn = [c \in Conn |-> Unused]
    /\ client = [k \in Client |-> [cursor |-> 0, shown |-> [a \in Alert |-> "none"]]]
    /\ ticking = TRUE
    /\ unread = {}
    /\ faults = 0

Faulty == faults < MaxFaults /\ faults' = faults + 1

-----------------------------------------------------------------------------
(* The committing threads *)

\* Mutant of Insert: the event is delivered inside the transaction.
InsertAnnouncing(t, a) ==
    /\ thread[t].step = "idle"
    /\ seq[a] = 0
    /\ seq' = [seq EXCEPT ![a] = nextSeq]
    /\ nextSeq' = nextSeq + 1
    /\ thread' = [thread EXCEPT ![t].step = "committed", ![t].alert = a]
    /\ UNCHANGED <<visible, status, registered, conn, client, ticking, unread, faults>>

\* The insertion draws its event_seq when the statement runs, not when the
\* transaction commits.
Insert(t, a) ==
    /\ thread[t].step = "idle"
    /\ seq[a] = 0
    /\ seq' = [seq EXCEPT ![a] = nextSeq]
    /\ nextSeq' = nextSeq + 1
    /\ thread' = [thread EXCEPT ![t].step = "open", ![t].alert = a]
    /\ UNCHANGED <<visible, status, registered, conn, client, ticking, unread, faults>>

\* A rolled-back insertion never gives its number back.
Rollback(t) ==
    /\ thread[t].step = "open"
    /\ Faulty
    /\ seq' = [seq EXCEPT ![thread[t].alert] = 0]
    /\ thread' = [thread EXCEPT ![t] = Idle]
    /\ UNCHANGED <<nextSeq, visible, status, registered, conn, client, ticking, unread>>

Commit(t) ==
    /\ thread[t].step = "open"
    /\ visible' = visible \cup {thread[t].alert}
    /\ thread' = [thread EXCEPT ![t].step = "committed"]
    /\ UNCHANGED <<nextSeq, seq, status, registered, conn, client, ticking, unread, faults>>

\* An operator's transaction; the row keeps its event_seq.
CommitAck(t, a) ==
    /\ thread[t].step = "idle"
    /\ a \in visible
    /\ status[a] = "NEW"
    /\ status' = [status EXCEPT ![a] = "ACKNOWLEDGED"]
    /\ thread' = [thread EXCEPT ![t].step = "committed", ![t].alert = a]
    /\ UNCHANGED <<nextSeq, seq, visible, registered, conn, client, ticking, unread, faults>>

\* Mutant of Targets: clients still catching up are left to their replay.
TargetsLive == {c \in registered : conn[c].phase = "live"}

\* Whom a broadcast cannot miss: the subscribers it finds when it starts.
Targets == registered

\* onAlertCreated and onAlertUpdated, after the commit: the row is read again,
\* then the broadcast walks the subscribers.
ReadRow(t) ==
    /\ thread[t].step = "committed"
    /\ thread' = [thread EXCEPT ![t].step = "sending", ![t].done = {}, ![t].must = Targets,
                                ![t].status = status[thread[t].alert]]
    /\ UNCHANGED <<tableVars, registered, conn, client, ticking, unread, faults>>

ReadFails(t) ==
    /\ thread[t].step = "committed"
    /\ Faulty
    /\ thread' = [thread EXCEPT ![t] = Idle]
    /\ unread' = unread \cup {thread[t].alert}
    /\ UNCHANGED <<tableVars, registered, conn, client, ticking>>

-----------------------------------------------------------------------------
(* Sending *)

Accepts(c, a) == a \in Interest[conn[c].of]

\* Until the controller returns, the emitter only buffers.
Writable(c) == conn[c].phase # "live" \/ conn[c].link = "open"

\* The connection once event e is written to it; a broken link loses it.
Carrying(k, e) ==
    [k EXCEPT !.sent = @ \cup {e.alert},
              !.pipe = IF k.link = "open" THEN Append(@, e) ELSE @]

\* A peer removed from the map is garbage, its link closed.
Dropped(k) == [Unused EXCEPT !.link = "broken", !.of = k.of]

EventOf(t) == [alert |-> thread[t].alert, id |-> seq[thread[t].alert],
               status |-> thread[t].status]

\* One step of the broadcast.  The concurrent map may or may not show it a
\* subscriber that registers meanwhile, never one already removed.
Visit(t, c) ==
    /\ thread[t].step = "sending"
    /\ c \in registered \ thread[t].done
    /\ thread' = [thread EXCEPT ![t].done = @ \cup {c}]

SkipFiltered(t, c) ==
    /\ Visit(t, c)
    /\ ~Accepts(c, thread[t].alert)
    /\ UNCHANGED <<tableVars, registered, conn, client, ticking, unread, faults>>

SendTo(t, c) ==
    /\ Visit(t, c)
    /\ Accepts(c, thread[t].alert)
    /\ Writable(c)
    /\ conn' = [conn EXCEPT ![c] = Carrying(@, EventOf(t))]
    /\ UNCHANGED <<tableVars, registered, client, ticking, unread, faults>>

\* A peer that cannot be written to is dropped.
SendEvicts(t, c) ==
    /\ Visit(t, c)
    /\ Accepts(c, thread[t].alert)
    /\ ~Writable(c)
    /\ registered' = registered \ {c}
    /\ conn' = [conn EXCEPT ![c] = Dropped(@)]
    /\ UNCHANGED <<tableVars, client, ticking, unread, faults>>

\* A peer too slow to be written to: the server closes its connection.
SendTimesOut(t, c) ==
    /\ Visit(t, c)
    /\ Accepts(c, thread[t].alert)
    /\ conn[c].phase = "live" /\ conn[c].link = "open"
    /\ Faulty
    /\ registered' = registered \ {c}
    /\ conn' = [conn EXCEPT ![c] = Dropped(@)]
    /\ UNCHANGED <<tableVars, client, ticking, unread>>

EndBroadcast(t) ==
    /\ thread[t].step = "sending"
    /\ thread[t].must \cap registered \subseteq thread[t].done
    /\ thread' = [thread EXCEPT ![t] = Idle]
    /\ UNCHANGED <<tableVars, registered, conn, client, ticking, unread, faults>>

\* Mutant of HeartbeatEvicts: the peer is completed before it leaves the map;
\* completing one the container has already failed throws out of the tick, and
\* the schedule is cancelled.
HeartbeatThrows(c) ==
    /\ ticking
    /\ c \in registered
    /\ ~Writable(c)
    /\ ticking' = FALSE
    /\ UNCHANGED <<tableVars, thread, registered, conn, client, unread, faults>>

\* The tick finds a dead peer; whatever completing it throws is caught.
HeartbeatEvicts(c) ==
    /\ ticking
    /\ c \in registered
    /\ ~Writable(c)
    /\ registered' = registered \ {c}
    /\ conn' = [conn EXCEPT ![c] = Dropped(@)]
    /\ UNCHANGED <<tableVars, thread, client, ticking, unread, faults>>

-----------------------------------------------------------------------------
(* Subscription and replay, on the request's thread *)

Linked(k) == \E c \in Conn : conn[c].of = k /\ conn[c].link = "open"
Known(k) == \E c \in Conn : conn[c].of = k /\ conn[c].link # "unused"

LastEventId(k) == client[k].cursor

\* The client is registered before anything is replayed to it.  A browser
\* that has seen an event sends its id, any other starts from now; the first
\* time it has loaded the list over REST.
Subscribe(k, c) ==
    /\ ~Linked(k)
    /\ conn[c].link = "unused"
    /\ \A d \in 1 .. c - 1 : conn[d].link # "unused"
    /\ registered' = registered \cup {c}
    /\ conn' = [conn EXCEPT ![c] =
                    [Unused EXCEPT !.link = "open", !.of = k, !.after = LastEventId(k),
                                   !.phase = IF client[k].cursor = 0 THEN "live" ELSE "query",
                                   !.joined = visible]]
    /\ client' = IF Known(k) THEN client
                 ELSE [client EXCEPT ![k].shown =
                          [a \in Alert |-> IF a \in visible THEN status[a] ELSE "none"]]
    /\ UNCHANGED <<tableVars, thread, ticking, unread, faults>>

\* The rows a page leaves out come after those it holds, and only a full one
\* leaves any out.
Page(order, rows) ==
    /\ \A i, j \in DOMAIN order : i < j => seq[order[i]] < seq[order[j]]
    /\ \A a \in rows \ Range(order) :
           /\ Len(order) = MaxReplay
           /\ \A i \in DOMAIN order : seq[order[i]] < seq[a]

StoredEvent(a) == [alert |-> a, id |-> seq[a], status |-> status[a]]

\* findAfterEventSeq: the committed rows beyond the cursor, lowest first.
QueryMissed(c) ==
    LET missed == {a \in visible : seq[a] > conn[c].after} IN
    /\ conn[c].phase = "query"
    /\ \E n \in 0 .. MaxReplay : \E order \in [1 .. n -> missed] :
           /\ Page(order, missed)
           /\ conn' = [conn EXCEPT ![c].phase = "replay", ![c].after = 0,
                                     ![c].todo = [i \in 1 .. n |-> StoredEvent(order[i])]]
    /\ UNCHANGED <<tableVars, thread, registered, client, ticking, unread, faults>>

\* The replay does not look at the client's filters.
ReplayOne(c) ==
    /\ conn[c].phase = "replay"
    /\ conn[c].todo # <<>>
    /\ conn' = [conn EXCEPT ![c] =
                    [Carrying(conn[c], Head(conn[c].todo)) EXCEPT !.todo = Tail(@)]]
    /\ UNCHANGED <<tableVars, thread, registered, client, ticking, unread, faults>>

\* The controller returns the emitter: buffered events go out.
EndReplay(c) ==
    /\ conn[c].phase = "replay"
    /\ conn[c].todo = <<>>
    /\ conn' = [conn EXCEPT ![c].phase = "live"]
    /\ UNCHANGED <<tableVars, thread, registered, client, ticking, unread, faults>>

-----------------------------------------------------------------------------
(* Browsers, links and the process *)

Receive(c) ==
    LET e == Head(conn[c].pipe) IN
    /\ conn[c].link = "open" /\ conn[c].phase = "live"
    /\ conn[c].pipe # <<>>
    /\ client' = [client EXCEPT ![conn[c].of].cursor = e.id,
                                ![conn[c].of].shown[e.alert] = e.status]
    /\ conn' = [conn EXCEPT ![c].pipe = Tail(@)]
    /\ UNCHANGED <<tableVars, thread, registered, ticking, unread, faults>>

BreakLink(c) ==
    /\ conn[c].link = "open"
    /\ Faulty
    /\ conn' = [conn EXCEPT ![c].link = "broken", ![c].pipe = <<>>]
    /\ UNCHANGED <<tableVars, thread, registered, client, ticking, unread>>

\* The process restarts: open transactions roll back, broadcasts under way
\* and every connection are lost.
Crash ==
    LET open == {thread[t].alert : t \in {u \in Thread : thread[u].step = "open"}} IN
    /\ Faulty
    /\ seq' = [a \in Alert |-> IF a \in open THEN 0 ELSE seq[a]]
    /\ thread' = [t \in Thread |-> Idle]
    /\ registered' = {}
    /\ conn' = [c \in Conn |->
                   IF conn[c].link = "unused" THEN conn[c] ELSE Dropped(conn[c])]
    /\ ticking' = TRUE
    /\ UNCHANGED <<nextSeq, visible, status, client, unread>>

Committer(t) ==
    \/ Commit(t)
    \/ ReadRow(t)
    \/ \E c \in Conn : SkipFiltered(t, c) \/ SendTo(t, c) \/ SendEvicts(t, c)
    \/ EndBroadcast(t)

Replayer(c) == QueryMissed(c) \/ ReplayOne(c) \/ EndReplay(c)

Next ==
    \/ \E t \in Thread, a \in Alert : Insert(t, a) \/ CommitAck(t, a)
    \/ \E t \in Thread : Committer(t) \/ Rollback(t) \/ ReadFails(t)
    \/ \E t \in Thread, c \in Conn : SendTimesOut(t, c)
    \/ \E k \in Client, c \in Conn : Subscribe(k, c)
    \/ \E c \in Conn : Replayer(c) \/ HeartbeatEvicts(c) \/ Receive(c) \/ BreakLink(c)
    \/ Crash

Spec == Init /\ [][Next]_vars

\* The heartbeat's timer keeps firing while it is scheduled, and a request's
\* thread runs its subscription to the end.
Fairness ==
    \A c \in Conn : WF_vars(Replayer(c)) /\ WF_vars(HeartbeatEvicts(c))

FairSpec == Spec /\ Fairness

-----------------------------------------------------------------------------
(* Properties *)

\* No browser is ever told of an alert whose insertion can still be rolled
\* back, on its way or shown (class comment of AlertBroadcaster).
NoPhantomAlert ==
    /\ \A c \in Conn : \A i \in 1 .. Len(conn[c].pipe) : conn[c].pipe[i].alert \in visible
    /\ \A k \in Client, a \in Alert : client[k].shown[a] # "none" => a \in visible

\* A subscriber misses no alert it asked for that was committed after it
\* registered, replaying or not: it was sent, or a thread is still at it, or
\* the read of the row failed.
DeliveredWhileConnected ==
    \A c \in registered : \A a \in (visible \ conn[c].joined) \cap Interest[conn[c].of] :
        \/ a \in conn[c].sent \cup unread
        \/ \E t \in Thread : thread[t].alert = a /\ thread[t].step \in {"committed", "sending"}

\* A dead peer is dropped by a later tick at the latest, however many peers
\* died (heartbeat, evict).
DeadPeersEvicted ==
    \A c \in Conn :
        (c \in registered /\ conn[c].link = "broken") ~> (c \notin registered)

-----------------------------------------------------------------------------
(* What comments of the code say, and the code does not do. *)

\* The event id is a resumption cursor: a browser that comes back with it has
\* already seen, or loaded over REST, every stored alert that it would not be
\* replayed and nobody is still broadcasting (comment of send, V1__initial_schema.sql).
CursorCoversPast ==
    \A k \in Client : ~Linked(k) /\ (\A t \in Thread : thread[t].step = "idle") =>
        \A a \in visible \cap Interest[k] :
            seq[a] <= client[k].cursor => client[k].shown[a] # "none"

\* Once nothing is under way, a connected browser shows the stored status of
\* an alert it was sent (comment of onAlertUpdated: what the dashboards
\* receive is what the database holds).
ShownMatchesStored ==
    (\A t \in Thread : thread[t].step = "idle") =>
        \A c \in Conn : conn[c].link = "open" /\ conn[c].phase = "live" /\ conn[c].pipe = <<>> =>
            \A a \in conn[c].sent : client[conn[c].of].shown[a] = status[a]
=============================================================================
