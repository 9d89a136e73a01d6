-------------------------- MODULE AlertStreamProofs --------------------------
(***************************************************************************)
(* Safety of AlertStream for every number of committing threads, browsers, *)
(* alerts and connections, every filter, every size of a replay and every  *)
(* number of faults.                                                       *)
(***************************************************************************)
EXTENDS AlertStream, TLAPS

-----------------------------------------------------------------------------
(* The inductive invariant *)

\* Only a connection that was opened is registered.
SubscriberUsed == \A c \in registered : conn[c].link # "unused"

\* A broadcast is about a committed alert.
CommittedVisible ==
    \A t \in Thread : thread[t].step \in {"committed", "sending"} => thread[t].alert \in visible

\* So is everything that waits to be sent or received.
Shows(events) == \A i \in 1 .. Len(events) : events[i].alert \in visible
QueuesVisible == \A c \in Conn : Shows(conn[c].pipe) /\ Shows(conn[c].todo)

\* A broadcast under way: it must reach every subscriber that had not the alert
\* from its own start, it has sent it to those it has visited, and a connection
\* opened later is none of these.
Walk(t) ==
    thread[t].step = "sending" =>
        /\ \A c \in thread[t].done : conn[c].link # "unused"
        /\ \A c \in registered : c \in thread[t].must \/ thread[t].alert \in conn[c].joined
        /\ \A c \in registered \cap thread[t].done :
               Accepts(c, thread[t].alert) => thread[t].alert \in conn[c].sent

Walks == \A t \in Thread : Walk(t)

Covered == SubscriberUsed /\ CommittedVisible /\ Walks /\ DeliveredWhileConnected

IInv == TypeOK /\ Covered /\ QueuesVisible /\ NoPhantomAlert

-----------------------------------------------------------------------------
(* Types *)

LEMMA Defaults == Idle \in ThreadState /\ Unused \in Connection
  <1>1. (CHOOSE a \in Alert : TRUE) \in Alert /\ (CHOOSE k \in Client : TRUE) \in Client
    BY SizeAssumption
  <1> QED
    BY <1>1 DEF Idle, Unused, ThreadState, Connection, Status

LEMMA DroppedType ==
    ASSUME NEW k \in Connection
    PROVE  /\ Dropped(k) \in Connection
           /\ Dropped(k).link = "broken" /\ Dropped(k).pipe = <<>> /\ Dropped(k).todo = <<>>
  BY Defaults DEF Dropped, Unused, Connection

LEMMA CarryingType ==
    ASSUME NEW k \in Connection, NEW e \in Event
    PROVE  /\ Carrying(k, e) \in Connection
           /\ Carrying(k, e).pipe = IF k.link = "open" THEN Append(k.pipe, e) ELSE k.pipe
           /\ Carrying(k, e).sent = k.sent \cup {e.alert}
           /\ Carrying(k, e).link = k.link /\ Carrying(k, e).of = k.of
           /\ Carrying(k, e).joined = k.joined /\ Carrying(k, e).todo = k.todo
  <1>1. e.alert \in Alert
    BY DEF Event
  <1> DEFINE pipe == IF k.link = "open" THEN Append(k.pipe, e) ELSE k.pipe
  <1>2. k.pipe \in Seq(Event) /\ k.sent \cup {e.alert} \in SUBSET Alert
    BY <1>1 DEF Connection
  <1>3. pipe \in Seq(Event)
    BY <1>2
  <1>4. Carrying(k, e) = [k EXCEPT !.sent = k.sent \cup {e.alert}, !.pipe = pipe]
    BY DEF Carrying, Connection
  <1> HIDE DEF pipe
  <1>5. /\ Carrying(k, e) \in Connection
        /\ Carrying(k, e).pipe = pipe
        /\ Carrying(k, e).sent = k.sent \cup {e.alert}
        /\ Carrying(k, e).link = k.link /\ Carrying(k, e).of = k.of
        /\ Carrying(k, e).joined = k.joined /\ Carrying(k, e).todo = k.todo
    BY <1>2, <1>3, <1>4 DEF Connection
  <1> QED
    BY <1>5 DEF pipe

LEMMA EventType ==
    ASSUME TypeOK, NEW t \in Thread
    PROVE  EventOf(t) \in Event /\ EventOf(t).alert = thread[t].alert
  BY DEF TypeOK, EventOf, Event, ThreadState

LEMMA TypeInit == Init => TypeOK
  BY Defaults DEF Init, TypeOK, Status, Browser

\* A thread that commits.
LEMMA TypeThread ==
    ASSUME TypeOK, NEW t \in Thread,
           \/ \E a \in Alert : Insert(t, a) \/ CommitAck(t, a)
           \/ Rollback(t) \/ Commit(t) \/ ReadRow(t) \/ ReadFails(t) \/ EndBroadcast(t)
    PROVE  TypeOK'
  <1>1. thread[t] \in ThreadState /\ Idle \in ThreadState
    BY Defaults DEF TypeOK
  <1>2. CASE \E a \in Alert : Insert(t, a)
    <2>1. PICK a \in Alert : Insert(t, a)
      BY <1>2
    <2>2. thread' \in [Thread -> ThreadState]
      BY <1>1, <2>1 DEF Insert, TypeOK, ThreadState
    <2>3. nextSeq \in Nat /\ seq \in [Alert -> Nat]
      BY DEF TypeOK
    <2>4. nextSeq' \in Nat /\ seq' \in [Alert -> Nat]
      BY <2>1, <2>3 DEF Insert
    <2> QED
      BY <2>1, <2>2, <2>4 DEF Insert, TypeOK
  <1>3. CASE \E a \in Alert : CommitAck(t, a)
    <2>1. PICK a \in Alert : CommitAck(t, a)
      BY <1>3
    <2>2. thread' \in [Thread -> ThreadState]
      BY <1>1, <2>1 DEF CommitAck, TypeOK, ThreadState
    <2> QED
      BY <2>1, <2>2 DEF CommitAck, TypeOK, Status
  <1>4. CASE Rollback(t)
    BY <1>1, <1>4 DEF Rollback, Faulty, TypeOK, ThreadState
  <1>5. CASE Commit(t)
    BY <1>1, <1>5 DEF Commit, TypeOK, ThreadState
  <1>6. CASE ReadRow(t)
    <2>1. Targets \subseteq Conn /\ status[thread[t].alert] \in Status
      BY <1>1 DEF Targets, TypeOK, ThreadState
    <2>2. thread' \in [Thread -> ThreadState]
      BY <1>1, <1>6, <2>1 DEF ReadRow, TypeOK, ThreadState
    <2> QED
      BY <1>6, <2>2 DEF ReadRow, tableVars, TypeOK
  <1>7. CASE ReadFails(t)
    BY <1>1, <1>7 DEF ReadFails, Faulty, tableVars, TypeOK, ThreadState
  <1>8. CASE EndBroadcast(t)
    BY <1>1, <1>8 DEF EndBroadcast, tableVars, TypeOK
  <1> QED
    BY <1>2, <1>3, <1>4, <1>5, <1>6, <1>7, <1>8

LEMMA VisitType ==
    ASSUME TypeOK, NEW t \in Thread, NEW c \in Conn, Visit(t, c)
    PROVE  thread' \in [Thread -> ThreadState]
  <1>1. thread[t] \in ThreadState
    BY DEF TypeOK
  <1> QED
    BY <1>1 DEF Visit, TypeOK, ThreadState

LEMMA TypeSend ==
    ASSUME TypeOK, NEW t \in Thread, NEW c \in Conn,
           SkipFiltered(t, c) \/ SendTo(t, c) \/ SendEvicts(t, c) \/ SendTimesOut(t, c)
    PROVE  TypeOK'
  <1>1. thread' \in [Thread -> ThreadState]
    BY VisitType DEF SkipFiltered, SendTo, SendEvicts, SendTimesOut
  <1>2. Dropped(conn[c]) \in Connection /\ Carrying(conn[c], EventOf(t)) \in Connection
    BY DroppedType, EventType, CarryingType DEF TypeOK
  <1>3. CASE SkipFiltered(t, c)
    BY <1>1, <1>3 DEF SkipFiltered, tableVars, TypeOK
  <1>4. CASE SendTo(t, c)
    BY <1>1, <1>2, <1>4 DEF SendTo, tableVars, TypeOK
  <1>5. CASE SendEvicts(t, c)
    BY <1>1, <1>2, <1>5 DEF SendEvicts, tableVars, TypeOK
  <1>6. CASE SendTimesOut(t, c)
    BY <1>1, <1>2, <1>6 DEF SendTimesOut, Faulty, tableVars, TypeOK
  <1> QED
    BY <1>3, <1>4, <1>5, <1>6

LEMMA TypeSubscribe ==
    ASSUME TypeOK, NEW k \in Client, NEW c \in Conn, Subscribe(k, c)
    PROVE  TypeOK'
  <1>1. client[k] \in Browser
    BY DEF TypeOK
  <1>2. LastEventId(k) \in Nat
    BY <1>1 DEF LastEventId, Browser
  <1>3. conn' \in [Conn -> Connection]
    BY <1>2, Defaults DEF Subscribe, TypeOK, Connection
  <1>4. client' \in [Client -> Browser]
    <2>1. [a \in Alert |-> IF a \in visible THEN status[a] ELSE "none"]
              \in [Alert -> Status \cup {"none"}]
      BY DEF TypeOK
    <2> QED
      BY <1>1, <2>1 DEF Subscribe, TypeOK, Browser
  <1> QED
    BY <1>3, <1>4 DEF Subscribe, tableVars, TypeOK

\* What a page of the replay holds.
LEMMA QueryType ==
    ASSUME TypeOK, NEW c \in Conn, QueryMissed(c)
    PROVE  \E todo \in Seq(Event) :
               /\ \A i \in 1 .. Len(todo) : todo[i].alert \in visible
               /\ conn' = [conn EXCEPT ![c].phase = "replay", ![c].after = 0, ![c].todo = todo]
  <1> DEFINE missed == {a \in visible : seq[a] > conn[c].after}
  <1>0. PICK n \in 0 .. MaxReplay : \E order \in [1 .. n -> missed] :
            conn' = [conn EXCEPT ![c].phase = "replay", ![c].after = 0,
                                   ![c].todo = [i \in 1 .. n |-> StoredEvent(order[i])]]
    BY DEF QueryMissed
  <1>1. PICK order \in [1 .. n -> missed] :
            conn' = [conn EXCEPT ![c].phase = "replay", ![c].after = 0,
                                   ![c].todo = [i \in 1 .. n |-> StoredEvent(order[i])]]
    BY <1>0
  <1>2. \A i \in 1 .. n : order[i] \in visible /\ order[i] \in Alert
    BY DEF TypeOK
  <1>3. \A i \in 1 .. n : StoredEvent(order[i]) \in Event /\ StoredEvent(order[i]).alert \in visible
    BY <1>2 DEF StoredEvent, Event, TypeOK
  <1>4. n \in Nat
    BY SizeAssumption
  <1> DEFINE todo == [i \in 1 .. n |-> StoredEvent(order[i])]
  <1>5. todo \in Seq(Event) /\ Len(todo) = n
    BY <1>3, <1>4
  <1> QED
    BY <1>1, <1>3, <1>5

LEMMA TypeReplay ==
    ASSUME TypeOK, NEW c \in Conn, Replayer(c)
    PROVE  TypeOK'
  <1>1. conn[c] \in Connection
    BY DEF TypeOK
  <1>2. CASE QueryMissed(c)
    <2>1. PICK todo \in Seq(Event) :
              conn' = [conn EXCEPT ![c].phase = "replay", ![c].after = 0, ![c].todo = todo]
      BY <1>2, QueryType
    <2>2. conn' \in [Conn -> Connection]
      BY <1>1, <2>1 DEF TypeOK, Connection
    <2> QED
      BY <1>2, <2>2 DEF QueryMissed, tableVars, TypeOK
  <1>3. CASE ReplayOne(c)
    <2>1. conn[c].todo \in Seq(Event) /\ conn[c].todo # <<>>
      BY <1>1, <1>3 DEF ReplayOne, Connection
    <2>2. Head(conn[c].todo) \in Event /\ Tail(conn[c].todo) \in Seq(Event)
      BY <2>1
    <2>3. /\ Carrying(conn[c], Head(conn[c].todo)) \in Connection
          /\ Carrying(conn[c], Head(conn[c].todo)).todo = conn[c].todo
      BY <1>1, <2>2, CarryingType
    <2>4. [Carrying(conn[c], Head(conn[c].todo)) EXCEPT !.todo = Tail(conn[c].todo)] \in Connection
      BY <2>2, <2>3 DEF Connection
    <2>5. conn' = [conn EXCEPT ![c] =
                [Carrying(conn[c], Head(conn[c].todo)) EXCEPT !.todo = Tail(conn[c].todo)]]
      BY <1>3, <2>3 DEF ReplayOne, TypeOK
    <2>6. conn' \in [Conn -> Connection]
      BY <2>4, <2>5 DEF TypeOK
    <2> QED
      BY <1>3, <2>6 DEF ReplayOne, tableVars, TypeOK
  <1>4. CASE EndReplay(c)
    <2>1. conn' \in [Conn -> Connection]
      BY <1>1, <1>4 DEF EndReplay, TypeOK, Connection
    <2> QED
      BY <1>4, <2>1 DEF EndReplay, tableVars, TypeOK
  <1> QED
    BY <1>2, <1>3, <1>4 DEF Replayer

LEMMA TypeReceive ==
    ASSUME TypeOK, NEW c \in Conn, Receive(c)
    PROVE  TypeOK'
  <1>1. conn[c] \in Connection /\ conn[c].of \in Client
    BY DEF TypeOK, Connection
  <1>2. Head(conn[c].pipe) \in Event /\ Tail(conn[c].pipe) \in Seq(Event)
    BY <1>1 DEF Receive, Connection
  <1>3. conn' \in [Conn -> Connection]
    BY <1>1, <1>2 DEF Receive, TypeOK, Connection
  <1>4. client' \in [Client -> Browser]
    <2> DEFINE k == conn[c].of
               e == Head(conn[c].pipe)
    <2>1. /\ client[k] \in Browser
          /\ e.id \in Nat /\ e.alert \in Alert /\ e.status \in Status
      BY <1>1, <1>2 DEF TypeOK, Event
    <2>2. [client[k].shown EXCEPT ![e.alert] = e.status] \in [Alert -> Status \cup {"none"}]
      BY <2>1 DEF Browser
    <2>3. [client[k] EXCEPT !.cursor = e.id, !.shown[e.alert] = e.status] \in Browser
      BY <2>1, <2>2 DEF Browser
    <2>4. client' = [client EXCEPT ![k] =
                        [client[k] EXCEPT !.cursor = e.id, !.shown[e.alert] = e.status]]
      BY <1>1 DEF Receive, TypeOK
    <2> QED
      BY <1>1, <2>3, <2>4 DEF TypeOK
  <1> QED
    BY <1>3, <1>4 DEF Receive, tableVars, TypeOK

LEMMA TypePeer ==
    ASSUME TypeOK, NEW c \in Conn, HeartbeatEvicts(c) \/ BreakLink(c)
    PROVE  TypeOK'
  <1>1. conn[c] \in Connection /\ Dropped(conn[c]) \in Connection
    BY DroppedType DEF TypeOK
  <1>2. CASE HeartbeatEvicts(c)
    BY <1>1, <1>2 DEF HeartbeatEvicts, tableVars, TypeOK
  <1>3. CASE BreakLink(c)
    <2>1. [conn[c] EXCEPT !.link = "broken", !.pipe = <<>>] \in Connection
      <3>1. <<>> \in Seq(Event)
        OBVIOUS
      <3> QED
        BY <1>1, <3>1 DEF Connection
    <2>2. conn' = [conn EXCEPT ![c] = [conn[c] EXCEPT !.link = "broken", !.pipe = <<>>]]
      BY <1>3 DEF BreakLink
    <2>3. conn' \in [Conn -> Connection]
      BY <2>1, <2>2 DEF TypeOK
    <2> QED
      BY <1>3, <2>3 DEF BreakLink, Faulty, tableVars, TypeOK
  <1> QED
    BY <1>2, <1>3

LEMMA TypeCrash == TypeOK /\ Crash => TypeOK'
  <1> SUFFICES ASSUME TypeOK, Crash PROVE TypeOK'
    OBVIOUS
  <1>1. seq' \in [Alert -> Nat]
    BY DEF Crash, TypeOK
  <1>2. conn' \in [Conn -> Connection]
    <2>1. \A c \in Conn : conn[c] \in Connection /\ Dropped(conn[c]) \in Connection
      BY DroppedType DEF TypeOK
    <2> QED
      BY <2>1 DEF Crash
  <1>3. thread' \in [Thread -> ThreadState]
    BY Defaults DEF Crash
  <1> QED
    BY <1>1, <1>2, <1>3 DEF Crash, Faulty, TypeOK

LEMMA TypeStep == TypeOK /\ [Next]_vars => TypeOK'
  <1> SUFFICES ASSUME TypeOK, [Next]_vars PROVE TypeOK'
    OBVIOUS
  <1>1. CASE \E t \in Thread, a \in Alert : Insert(t, a) \/ CommitAck(t, a)
    BY <1>1, TypeThread
  <1>2. CASE \E t \in Thread : Committer(t) \/ Rollback(t) \/ ReadFails(t)
    <2>1. PICK t \in Thread : Committer(t) \/ Rollback(t) \/ ReadFails(t)
      BY <1>2
    <2>2. CASE \E c \in Conn : SkipFiltered(t, c) \/ SendTo(t, c) \/ SendEvicts(t, c)
      BY <2>2, TypeSend
    <2>3. CASE Commit(t) \/ ReadRow(t) \/ EndBroadcast(t) \/ Rollback(t) \/ ReadFails(t)
      BY <2>3, TypeThread
    <2> QED
      BY <2>1, <2>2, <2>3 DEF Committer
  <1>3. CASE \E t \in Thread, c \in Conn : SendTimesOut(t, c)
    BY <1>3, TypeSend
  <1>4. CASE \E k \in Client, c \in Conn : Subscribe(k, c)
    BY <1>4, TypeSubscribe
  <1>5. CASE \E c \in Conn : Replayer(c) \/ HeartbeatEvicts(c) \/ Receive(c) \/ BreakLink(c)
    BY <1>5, TypeReplay, TypeReceive, TypePeer
  <1>6. CASE Crash
    BY <1>6, TypeCrash
  <1>7. CASE UNCHANGED vars
    BY <1>7 DEF vars, tableVars, TypeOK
  <1> QED
    BY <1>1, <1>2, <1>3, <1>4, <1>5, <1>6, <1>7 DEF Next

\* Every variable keeps its type: the cursor a browser sends back, the
\* subscribers map, the queues of events.
THEOREM TypeCorrect == Spec => []TypeOK
  <1> QED
    BY TypeInit, TypeStep, PTL DEF Spec

-----------------------------------------------------------------------------
(* What reaches a subscriber *)

\* A step that opens nothing and takes back nothing that was sent.
ConnKept ==
    /\ registered' \subseteq registered
    /\ \A c \in Conn : conn[c].link # "unused" => conn'[c].link # "unused"
    /\ \A c \in registered' :
           /\ conn'[c].of = conn[c].of /\ conn'[c].joined = conn[c].joined
           /\ conn[c].sent \subseteq conn'[c].sent

LEMMA FrameCovered ==
    ASSUME TypeOK, Covered, ConnKept, UNCHANGED <<thread, visible, unread>>
    PROVE  Covered'
  <1>1. SubscriberUsed' /\ CommittedVisible'
    BY DEF Covered, ConnKept, SubscriberUsed, CommittedVisible, TypeOK
  <1>2. ASSUME NEW t \in Thread PROVE Walk(t)'
    <2>1. Walk(t) /\ thread[t] \in ThreadState
      BY DEF Covered, Walks, TypeOK
    <2>2. thread[t].done \subseteq Conn
      BY <2>1 DEF ThreadState
    <2> QED
      BY <2>1, <2>2 DEF Walk, Accepts, ConnKept
  <1>3. DeliveredWhileConnected'
    BY DEF Covered, DeliveredWhileConnected, ConnKept
  <1> QED
    BY <1>1, <1>2, <1>3 DEF Covered, Walks

\* A broadcast visits subscriber c and, where it has to, sends.
LEMMA VisitCovered ==
    ASSUME TypeOK, Covered, NEW t \in Thread, NEW c \in Conn, Visit(t, c), ConnKept,
           c \in registered' /\ Accepts(c, thread[t].alert) => thread[t].alert \in conn'[c].sent,
           UNCHANGED <<visible, unread>>
    PROVE  Covered'
  <1>1. /\ thread'[t] = [thread[t] EXCEPT !.done = @ \cup {c}]
        /\ \A u \in Thread : u # t => thread'[u] = thread[u]
        /\ thread[t] \in ThreadState
    BY DEF Visit, TypeOK
  <1>2. /\ thread'[t].step = thread[t].step /\ thread'[t].alert = thread[t].alert
        /\ thread'[t].must = thread[t].must /\ thread'[t].done = thread[t].done \cup {c}
    BY <1>1 DEF ThreadState
  <1>3. \A u \in Thread : thread'[u].step = thread[u].step /\ thread'[u].alert = thread[u].alert
    BY <1>1, <1>2
  <1>4. SubscriberUsed' /\ CommittedVisible'
    BY <1>3 DEF Covered, ConnKept, SubscriberUsed, CommittedVisible, TypeOK
  <1>5. ASSUME NEW u \in Thread PROVE Walk(u)'
    <2>1. Walk(u) /\ thread[u] \in ThreadState
      BY DEF Covered, Walks, TypeOK
    <2>2. thread[u].done \subseteq Conn
      BY <2>1 DEF ThreadState
    <2>3. CASE u = t
      <3>1. conn[c].link # "unused" /\ c \in registered
        BY DEF Visit, Covered, SubscriberUsed
      <3> QED
        BY <1>2, <2>1, <2>2, <2>3, <3>1 DEF Walk, Accepts, ConnKept
    <2>4. CASE u # t
      BY <1>1, <2>1, <2>2, <2>4 DEF Walk, Accepts, ConnKept
    <2> QED
      BY <2>3, <2>4
  <1>6. DeliveredWhileConnected'
    BY <1>3 DEF Covered, DeliveredWhileConnected, ConnKept
  <1> QED
    BY <1>4, <1>5, <1>6 DEF Covered, Walks

\* Once the broadcast ends, all it had to reach have it.
LEMMA EndCovered ==
    ASSUME TypeOK, Covered, NEW t \in Thread, EndBroadcast(t)
    PROVE  Covered'
  <1>1. /\ thread'[t].step = "idle"
        /\ \A u \in Thread : u # t => thread'[u] = thread[u]
    BY DEF EndBroadcast, Idle, TypeOK
  <1>2. SubscriberUsed' /\ CommittedVisible' /\ Walks'
    BY <1>1 DEF Covered, SubscriberUsed, CommittedVisible, Walks, Walk, Accepts, EndBroadcast, tableVars
  <1>3. ASSUME NEW c \in registered, NEW a \in (visible \ conn[c].joined) \cap Interest[conn[c].of]
        PROVE  \/ a \in conn[c].sent \cup unread
               \/ \E u \in Thread : thread'[u].alert = a /\ thread'[u].step \in {"committed", "sending"}
    <2>1. CASE a \in conn[c].sent \cup unread
      BY <2>1
    <2>2. CASE \E u \in Thread : thread[u].alert = a /\ thread[u].step \in {"committed", "sending"}
      <3>1. PICK u \in Thread : thread[u].alert = a /\ thread[u].step \in {"committed", "sending"}
        BY <2>2
      <3>2. CASE u # t
        BY <1>1, <3>1, <3>2
      <3>3. CASE u = t
        <4>1. c \in thread[t].must /\ c \in thread[t].done
          BY <1>3, <3>1, <3>3 DEF Covered, Walks, Walk, EndBroadcast
        <4>2. Accepts(c, a)
          BY <1>3 DEF Accepts
        <4> QED
          BY <3>1, <3>3, <4>1, <4>2 DEF Covered, Walks, Walk, EndBroadcast
      <3> QED
        BY <3>2, <3>3
    <2> QED
      BY <1>3, <2>1, <2>2 DEF Covered, DeliveredWhileConnected
  <1>4. DeliveredWhileConnected'
    BY <1>3 DEF DeliveredWhileConnected, EndBroadcast, tableVars
  <1> QED
    BY <1>2, <1>4 DEF Covered

\* Before the broadcast: a transaction begins, ends or its row is read.
LEMMA CommitCovered ==
    ASSUME TypeOK, Covered, NEW t \in Thread,
           \/ \E a \in Alert : Insert(t, a) \/ CommitAck(t, a)
           \/ Rollback(t) \/ Commit(t) \/ ReadRow(t) \/ ReadFails(t)
    PROVE  Covered'
  <1>1. /\ thread[t] \in ThreadState
        /\ \A u \in Thread : u # t => thread'[u] = thread[u]
        /\ conn' = conn /\ registered' = registered /\ visible \subseteq visible'
    BY DEF TypeOK, Insert, CommitAck, Rollback, Commit, ReadRow, ReadFails, tableVars
  <1>2. CASE (\E a \in Alert : Insert(t, a)) \/ Rollback(t)
    <2>1. /\ thread[t].step \in {"idle", "open"} /\ thread'[t].step \in {"idle", "open"}
          /\ visible' = visible /\ unread' = unread
      BY <1>1, <1>2 DEF Insert, Rollback, Idle, TypeOK, ThreadState
    <2> QED
      BY <1>1, <2>1 DEF Covered, SubscriberUsed, CommittedVisible, Walks, Walk, Accepts,
                        DeliveredWhileConnected
  <1>3. CASE (\E a \in Alert : CommitAck(t, a)) \/ Commit(t)
    <2>1. /\ thread[t].step \in {"idle", "open"} /\ thread'[t].step = "committed"
          /\ thread'[t].alert \in visible' /\ unread' = unread
          /\ visible' \subseteq visible \cup {thread'[t].alert}
      BY <1>1, <1>3 DEF CommitAck, Commit, TypeOK, ThreadState
    <2> QED
      BY <1>1, <2>1 DEF Covered, SubscriberUsed, CommittedVisible, Walks, Walk, Accepts,
                        DeliveredWhileConnected
  <1>4. CASE ReadRow(t)
    <2>1. /\ thread[t].step = "committed" /\ thread'[t].step = "sending"
          /\ thread'[t].alert = thread[t].alert
          /\ thread'[t].must = registered /\ thread'[t].done = {}
          /\ visible' = visible /\ unread' = unread
      BY <1>1, <1>4 DEF ReadRow, Targets, tableVars, TypeOK, ThreadState
    <2> QED
      BY <1>1, <2>1 DEF Covered, SubscriberUsed, CommittedVisible, Walks, Walk, Accepts,
                        DeliveredWhileConnected
  <1>5. CASE ReadFails(t)
    <2>1. /\ thread[t].step = "committed" /\ thread'[t].step = "idle"
          /\ visible' = visible /\ unread' = unread \cup {thread[t].alert}
      BY <1>1, <1>5 DEF ReadFails, Idle, tableVars, TypeOK
    <2> QED
      BY <1>1, <2>1 DEF Covered, SubscriberUsed, CommittedVisible, Walks, Walk, Accepts,
                        DeliveredWhileConnected
  <1> QED
    BY <1>2, <1>3, <1>4, <1>5

\* A new subscriber has nothing to be told of yet, and no broadcast under way
\* is about an alert it does not know.
LEMMA SubscribeCovered ==
    ASSUME TypeOK, Covered, NEW k \in Client, NEW c \in Conn, Subscribe(k, c)
    PROVE  Covered'
  <1>1. /\ conn[c].link = "unused" /\ c \notin registered
        /\ registered' = registered \cup {c}
        /\ UNCHANGED <<thread, visible, unread>>
    BY DEF Subscribe, Covered, SubscriberUsed, tableVars
  <1>2. /\ conn'[c].link = "open" /\ conn'[c].joined = visible
        /\ \A d \in Conn : d # c => conn'[d] = conn[d]
    BY DEF Subscribe, Unused, TypeOK
  <1>3. SubscriberUsed' /\ CommittedVisible'
    BY <1>1, <1>2 DEF Covered, SubscriberUsed, CommittedVisible, TypeOK
  <1>4. ASSUME NEW t \in Thread PROVE Walk(t)'
    <2>1. /\ Walk(t) /\ thread[t].done \subseteq Conn
          /\ thread[t].step = "sending" => thread[t].alert \in visible
      BY DEF Covered, Walks, CommittedVisible, TypeOK, ThreadState
    <2>2. thread[t].step = "sending" => c \notin thread[t].done
      BY <1>1, <2>1 DEF Walk
    <2> QED
      BY <1>1, <1>2, <2>1, <2>2 DEF Walk, Accepts, TypeOK
  <1>5. DeliveredWhileConnected'
    BY <1>1, <1>2 DEF Covered, DeliveredWhileConnected, TypeOK
  <1> QED
    BY <1>3, <1>4, <1>5 DEF Covered, Walks

LEMMA CoveredStep == TypeOK /\ Covered /\ [Next]_vars => Covered'
  <1> SUFFICES ASSUME TypeOK, Covered, [Next]_vars PROVE Covered'
    OBVIOUS
  <1>0. \A c \in Conn : conn[c] \in Connection
    BY DEF TypeOK
  <1>1. CASE \E t \in Thread, a \in Alert : Insert(t, a) \/ CommitAck(t, a)
    BY <1>1, CommitCovered
  <1>2. CASE \E t \in Thread : Rollback(t) \/ Commit(t) \/ ReadRow(t) \/ ReadFails(t) \/ EndBroadcast(t)
    BY <1>2, CommitCovered, EndCovered
  <1>3. ASSUME NEW t \in Thread, NEW c \in Conn, SkipFiltered(t, c) PROVE Covered'
    BY <1>3, VisitCovered DEF SkipFiltered, tableVars, ConnKept
  <1>4. ASSUME NEW t \in Thread, NEW c \in Conn, SendTo(t, c) PROVE Covered'
    <2>1. /\ conn'[c] = Carrying(conn[c], EventOf(t))
          /\ \A d \in Conn : d # c => conn'[d] = conn[d]
          /\ registered' = registered /\ registered \subseteq Conn
      BY <1>4 DEF SendTo, TypeOK
    <2>2. /\ conn'[c].sent = conn[c].sent \cup {thread[t].alert}
          /\ conn'[c].link = conn[c].link /\ conn'[c].of = conn[c].of
          /\ conn'[c].joined = conn[c].joined
      BY <1>0, <2>1, EventType, CarryingType
    <2>3. ConnKept
      BY <2>1, <2>2 DEF ConnKept
    <2> QED
      BY <1>4, <2>2, <2>3, VisitCovered DEF SendTo, tableVars
  <1>5. ASSUME NEW t \in Thread, NEW c \in Conn, SendEvicts(t, c) \/ SendTimesOut(t, c) PROVE Covered'
    <2>1. /\ conn'[c] = Dropped(conn[c]) /\ registered' = registered \ {c}
          /\ \A d \in Conn : d # c => conn'[d] = conn[d]
          /\ registered \subseteq Conn
      BY <1>5 DEF SendEvicts, SendTimesOut, TypeOK
    <2>2. ConnKept
      BY <1>0, <2>1, DroppedType DEF ConnKept
    <2> QED
      BY <1>5, <2>1, <2>2, VisitCovered DEF SendEvicts, SendTimesOut, tableVars
  <1>6. CASE \E k \in Client, c \in Conn : Subscribe(k, c)
    BY <1>6, SubscribeCovered
  <1>7. ASSUME NEW c \in Conn, Replayer(c) \/ Receive(c) \/ BreakLink(c) PROVE Covered'
    <2>1. conn[c] \in Connection
      BY <1>0
    <2>2. \A d \in Conn : d # c => conn'[d] = conn[d]
      BY <1>7 DEF Replayer, QueryMissed, ReplayOne, EndReplay, Receive, BreakLink, TypeOK
    <2>3. /\ conn'[c].of = conn[c].of /\ conn'[c].joined = conn[c].joined
          /\ conn[c].sent \subseteq conn'[c].sent
          /\ conn[c].link # "unused" => conn'[c].link # "unused"
      <3>1. CASE QueryMissed(c)
        <4>1. PICK todo \in Seq(Event) :
                  conn' = [conn EXCEPT ![c].phase = "replay", ![c].after = 0, ![c].todo = todo]
          BY <3>1, QueryType
        <4>2. conn'[c] = [conn[c] EXCEPT !.phase = "replay", !.after = 0, !.todo = todo]
          BY <4>1 DEF TypeOK
        <4> QED
          BY <2>1, <4>2 DEF Connection
      <3>2. CASE ReplayOne(c)
        <4>1. Head(conn[c].todo) \in Event
          BY <2>1, <3>2 DEF ReplayOne, Connection
        <4>2. conn'[c] = [Carrying(conn[c], Head(conn[c].todo)) EXCEPT
                             !.todo = Tail(Carrying(conn[c], Head(conn[c].todo)).todo)]
          BY <3>2 DEF ReplayOne, TypeOK
        <4> QED
          BY <2>1, <4>1, <4>2, CarryingType DEF Connection
      <3>3. CASE EndReplay(c) \/ Receive(c) \/ BreakLink(c)
        <4>1. \/ conn'[c] = [conn[c] EXCEPT !.phase = "live"]
              \/ conn'[c] = [conn[c] EXCEPT !.pipe = Tail(@)]
              \/ conn'[c] = [conn[c] EXCEPT !.link = "broken", !.pipe = <<>>]
          BY <3>3 DEF EndReplay, Receive, BreakLink, TypeOK
        <4> QED
          BY <2>1, <4>1 DEF Connection
      <3> QED
        BY <1>7, <3>1, <3>2, <3>3 DEF Replayer
    <2>4. registered' = registered /\ registered \subseteq Conn /\ UNCHANGED <<thread, visible, unread>>
      BY <1>7 DEF Replayer, QueryMissed, ReplayOne, EndReplay, Receive, BreakLink, tableVars, TypeOK
    <2>5. ConnKept
      BY <2>2, <2>3, <2>4 DEF ConnKept
    <2> QED
      BY <2>4, <2>5, FrameCovered
  <1>8. ASSUME NEW c \in Conn, HeartbeatEvicts(c) PROVE Covered'
    <2>1. /\ conn'[c] = Dropped(conn[c]) /\ registered' = registered \ {c}
          /\ \A d \in Conn : d # c => conn'[d] = conn[d]
          /\ registered \subseteq Conn
      BY <1>8 DEF HeartbeatEvicts, TypeOK
    <2>2. ConnKept
      BY <1>0, <2>1, DroppedType DEF ConnKept
    <2> QED
      BY <1>8, <2>2, FrameCovered DEF HeartbeatEvicts, tableVars
  <1>9. CASE Crash
    <2>1. registered' = {} /\ \A t \in Thread : thread'[t].step = "idle"
      BY <1>9 DEF Crash, Idle
    <2> QED
      BY <2>1 DEF Covered, SubscriberUsed, CommittedVisible, Walks, Walk, DeliveredWhileConnected
  <1>10. CASE UNCHANGED vars
    BY <1>10, FrameCovered DEF vars, tableVars, ConnKept
  <1> QED
    BY <1>1, <1>2, <1>3, <1>4, <1>5, <1>6, <1>7, <1>8, <1>9, <1>10 DEF Next, Committer

-----------------------------------------------------------------------------
(* What is on its way and shown *)

LEMMA VisibleGrows == TypeOK /\ [Next]_vars => visible \subseteq visible'
  BY DEF Next, Committer, Replayer, Insert, CommitAck, Commit, Rollback, ReadRow, ReadFails,
         SkipFiltered, SendTo, SendEvicts, SendTimesOut, EndBroadcast, Subscribe, QueryMissed,
         ReplayOne, EndReplay, HeartbeatEvicts, Receive, BreakLink, Crash, vars, tableVars

\* The pages shown and the queues of one connection at a time change.
LEMMA ShownStep ==
    ASSUME TypeOK, visible \subseteq visible', QueuesVisible, NoPhantomAlert, NEW c \in Conn,
           \A d \in Conn : d # c => conn'[d] = conn[d],
           \A i \in 1 .. Len(conn'[c].pipe) : conn'[c].pipe[i].alert \in visible',
           \A i \in 1 .. Len(conn'[c].todo) : conn'[c].todo[i].alert \in visible',
           \A k \in Client, a \in Alert : client'[k].shown[a] # "none" => a \in visible'
    PROVE  QueuesVisible' /\ NoPhantomAlert'
  BY DEF QueuesVisible, Shows, NoPhantomAlert

LEMMA ShownKept ==
    ASSUME TypeOK, visible \subseteq visible', QueuesVisible, NoPhantomAlert,
           UNCHANGED <<conn, client>>
    PROVE  QueuesVisible' /\ NoPhantomAlert'
  BY DEF QueuesVisible, Shows, NoPhantomAlert

LEMMA AppendShows ==
    ASSUME TypeOK, NEW s \in Seq(Event), Shows(s), NEW e \in Event, e.alert \in visible
    PROVE  Shows(Append(s, e))
  <1>1. ASSUME NEW i \in 1 .. Len(Append(s, e))
        PROVE  Append(s, e)[i] = e \/ (i \in 1 .. Len(s) /\ Append(s, e)[i] = s[i])
    <2>1. Len(Append(s, e)) = Len(s) + 1 /\ Len(s) \in Nat
      OBVIOUS
    <2>2. i \in 1 .. Len(s) \/ i = Len(s) + 1
      BY <2>1
    <2> QED
      BY <2>2
  <1> QED
    BY <1>1 DEF Shows

LEMMA TailShows ==
    ASSUME NEW s \in Seq(Event), Shows(s), s # <<>>
    PROVE  Shows(Tail(s)) /\ Head(s) \in Event /\ Head(s).alert \in visible
  <1>1. \A i \in 1 .. Len(Tail(s)) : i + 1 \in 1 .. Len(s) /\ Tail(s)[i] = s[i + 1]
    OBVIOUS
  <1>2. 1 \in 1 .. Len(s) /\ Head(s) = s[1] /\ Head(s) \in Event
    OBVIOUS
  <1> QED
    BY <1>1, <1>2 DEF Shows

LEMMA SendShows ==
    ASSUME IInv, NEW t \in Thread, NEW c \in Conn,
           SendTo(t, c) \/ SendEvicts(t, c) \/ SendTimesOut(t, c)
    PROVE  QueuesVisible' /\ NoPhantomAlert'
  <1>1. /\ visible' = visible /\ client' = client
        /\ \A d \in Conn : d # c => conn'[d] = conn[d]
        /\ conn[c] \in Connection
    BY DEF SendTo, SendEvicts, SendTimesOut, tableVars, IInv, TypeOK
  <1>2. Shows(conn[c].pipe) /\ Shows(conn[c].todo)
    BY DEF IInv, QueuesVisible
  <1>3. CASE SendTo(t, c)
    <2>1. conn'[c] = Carrying(conn[c], EventOf(t))
      BY <1>3 DEF SendTo, IInv, TypeOK
    <2>2. EventOf(t) \in Event /\ EventOf(t).alert \in visible
      BY <1>3, EventType DEF SendTo, Visit, IInv, Covered, CommittedVisible
    <2>3. conn[c].pipe \in Seq(Event)
      BY <1>1 DEF Connection
    <2>4. Shows(Append(conn[c].pipe, EventOf(t)))
      BY <1>2, <2>2, <2>3, AppendShows DEF IInv
    <2>5. Shows(conn'[c].pipe) /\ Shows(conn'[c].todo)
      BY <1>1, <1>2, <2>1, <2>2, <2>4, CarryingType
    <2> QED
      BY <1>1, <2>5, ShownStep DEF Shows, IInv, NoPhantomAlert
  <1>4. CASE SendEvicts(t, c) \/ SendTimesOut(t, c)
    <2>1. conn'[c] = Dropped(conn[c])
      BY <1>4 DEF SendEvicts, SendTimesOut, IInv, TypeOK
    <2>2. conn'[c].pipe = <<>> /\ conn'[c].todo = <<>>
      BY <1>1, <2>1, DroppedType
    <2> QED
      BY <1>1, <2>2, ShownStep DEF IInv, NoPhantomAlert
  <1> QED
    BY <1>3, <1>4

LEMMA SubscribeShows ==
    ASSUME IInv, NEW k \in Client, NEW c \in Conn, Subscribe(k, c)
    PROVE  QueuesVisible' /\ NoPhantomAlert'
  <1>1. /\ visible' = visible
        /\ \A d \in Conn : d # c => conn'[d] = conn[d]
        /\ conn'[c].pipe = <<>> /\ conn'[c].todo = <<>>
    BY DEF Subscribe, Unused, tableVars, IInv, TypeOK
  <1>2. \A j \in Client, a \in Alert : client'[j].shown[a] # "none" => a \in visible
    <2>1. CASE client' = client
      BY <2>1 DEF IInv, NoPhantomAlert
    <2>2. CASE client' = [client EXCEPT ![k].shown =
                             [a \in Alert |-> IF a \in visible THEN status[a] ELSE "none"]]
      <3>1. client[k] \in Browser /\ client \in [Client -> Browser]
        BY DEF IInv, TypeOK
      <3>2. client'[k].shown = [a \in Alert |-> IF a \in visible THEN status[a] ELSE "none"]
        BY <2>2, <3>1 DEF Browser
      <3> QED
        BY <2>2, <3>1, <3>2 DEF IInv, NoPhantomAlert
    <2> QED
      BY <2>1, <2>2 DEF Subscribe
  <1> QED
    BY <1>1, <1>2, ShownStep DEF IInv

LEMMA ReplayShows ==
    ASSUME IInv, NEW c \in Conn, Replayer(c)
    PROVE  QueuesVisible' /\ NoPhantomAlert'
  <1>1. /\ visible' = visible /\ client' = client
        /\ \A d \in Conn : d # c => conn'[d] = conn[d]
        /\ conn[c] \in Connection
    BY DEF Replayer, QueryMissed, ReplayOne, EndReplay, tableVars, IInv, TypeOK
  <1>2. /\ Shows(conn[c].pipe) /\ Shows(conn[c].todo)
        /\ conn[c].pipe \in Seq(Event) /\ conn[c].todo \in Seq(Event)
    BY <1>1 DEF IInv, QueuesVisible, Connection
  <1>3. Shows(conn'[c].pipe) /\ Shows(conn'[c].todo)
    <2>1. CASE QueryMissed(c)
      <3>1. PICK todo \in Seq(Event) :
                /\ Shows(todo)
                /\ conn' = [conn EXCEPT ![c].phase = "replay", ![c].after = 0, ![c].todo = todo]
        BY <2>1, QueryType DEF IInv, Shows
      <3>2. conn'[c] = [conn[c] EXCEPT !.phase = "replay", !.after = 0, !.todo = todo]
        BY <3>1 DEF IInv, TypeOK
      <3>3. conn'[c].pipe = conn[c].pipe /\ conn'[c].todo = todo
        BY <1>1, <3>2 DEF Connection
      <3> QED
        BY <1>2, <3>1, <3>3
    <2>2. CASE ReplayOne(c)
      <3> DEFINE e == Head(conn[c].todo)
      <3>1. conn'[c] = [Carrying(conn[c], e) EXCEPT !.todo = Tail(Carrying(conn[c], e).todo)]
        BY <2>2 DEF ReplayOne, IInv, TypeOK
      <3>2. Shows(Tail(conn[c].todo)) /\ e \in Event /\ e.alert \in visible
        BY <1>2, <2>2, TailShows DEF ReplayOne
      <3>3. Shows(Append(conn[c].pipe, e))
        BY <1>2, <3>2, AppendShows DEF IInv
      <3>4. /\ conn'[c].todo = Tail(conn[c].todo)
            /\ conn'[c].pipe = IF conn[c].link = "open" THEN Append(conn[c].pipe, e) ELSE conn[c].pipe
        BY <1>1, <3>1, <3>2, CarryingType DEF Connection
      <3> QED
        BY <1>2, <3>2, <3>3, <3>4
    <2>3. CASE EndReplay(c)
      <3>1. conn'[c] = [conn[c] EXCEPT !.phase = "live"]
        BY <2>3 DEF EndReplay, IInv, TypeOK
      <3> QED
        BY <1>1, <1>2, <3>1 DEF Connection
    <2> QED
      BY <2>1, <2>2, <2>3 DEF Replayer
  <1> QED
    BY <1>1, <1>3, ShownStep DEF Shows, IInv, NoPhantomAlert

LEMMA ReceiveShows ==
    ASSUME IInv, NEW c \in Conn, Receive(c)
    PROVE  QueuesVisible' /\ NoPhantomAlert'
  <1> DEFINE k == conn[c].of
             e == Head(conn[c].pipe)
  <1>1. /\ visible' = visible
        /\ \A d \in Conn : d # c => conn'[d] = conn[d]
        /\ conn[c] \in Connection /\ k \in Client
        /\ conn'[c] = [conn[c] EXCEPT !.pipe = Tail(@)]
    BY DEF Receive, tableVars, IInv, TypeOK, Connection
  <1>2. Shows(Tail(conn[c].pipe)) /\ e \in Event /\ e.alert \in visible
    BY <1>1, TailShows DEF Receive, IInv, QueuesVisible, Connection
  <1>3. conn'[c].pipe = Tail(conn[c].pipe) /\ conn'[c].todo = conn[c].todo
    BY <1>1 DEF Connection
  <1>4. \A j \in Client, a \in Alert : client'[j].shown[a] # "none" => a \in visible
    <2>1. client \in [Client -> Browser] /\ client[k] \in Browser
      BY <1>1 DEF IInv, TypeOK
    <2>2. \A j \in Client : j # k => client'[j] = client[j]
      BY <2>1 DEF Receive
    <2>3. client'[k].shown = [client[k].shown EXCEPT ![e.alert] = e.status]
      BY <2>1, <1>1 DEF Receive, Browser
    <2> QED
      BY <1>2, <2>1, <2>2, <2>3 DEF IInv, NoPhantomAlert, Browser
  <1> QED
    BY <1>1, <1>2, <1>3, <1>4, ShownStep DEF Shows, IInv, QueuesVisible

LEMMA PeerShows ==
    ASSUME IInv, NEW c \in Conn, HeartbeatEvicts(c) \/ BreakLink(c)
    PROVE  QueuesVisible' /\ NoPhantomAlert'
  <1>1. /\ visible' = visible /\ client' = client
        /\ \A d \in Conn : d # c => conn'[d] = conn[d]
        /\ conn[c] \in Connection
    BY DEF HeartbeatEvicts, BreakLink, tableVars, IInv, TypeOK
  <1>2. conn'[c].pipe = <<>> /\ (conn'[c].todo = <<>> \/ conn'[c].todo = conn[c].todo)
    <2>1. CASE HeartbeatEvicts(c)
      BY <1>1, <2>1, DroppedType DEF HeartbeatEvicts, IInv, TypeOK
    <2>2. CASE BreakLink(c)
      <3>1. conn'[c] = [conn[c] EXCEPT !.link = "broken", !.pipe = <<>>]
        BY <2>2 DEF BreakLink, IInv, TypeOK
      <3> QED
        BY <1>1, <3>1 DEF Connection
    <2> QED
      BY <2>1, <2>2
  <1>3. /\ \A i \in 1 .. Len(conn'[c].pipe) : conn'[c].pipe[i].alert \in visible'
        /\ \A i \in 1 .. Len(conn'[c].todo) : conn'[c].todo[i].alert \in visible'
    <2>1. Len(<<>>) = 0
      OBVIOUS
    <2>2. \A i \in 1 .. Len(conn[c].todo) : conn[c].todo[i].alert \in visible
      BY DEF IInv, QueuesVisible, Shows
    <2> QED
      BY <1>1, <1>2, <2>1, <2>2
  <1>4. \A k \in Client, a \in Alert : client'[k].shown[a] # "none" => a \in visible'
    BY <1>1 DEF IInv, NoPhantomAlert
  <1>5. TypeOK /\ QueuesVisible /\ NoPhantomAlert
    BY DEF IInv
  <1> QED
    BY <1>1, <1>3, <1>4, <1>5, ShownStep

LEMMA CrashShows ==
    ASSUME IInv, Crash
    PROVE  QueuesVisible' /\ NoPhantomAlert'
  <1>1. \A c \in Conn : conn[c] \in Connection
    BY DEF IInv, TypeOK
  <1>2. \A c \in Conn : conn'[c] = conn[c] \/ (conn'[c].pipe = <<>> /\ conn'[c].todo = <<>>)
    <2> TAKE c \in Conn
    <2>1. conn'[c] = conn[c] \/ conn'[c] = Dropped(conn[c])
      BY DEF Crash
    <2>2. Dropped(conn[c]).pipe = <<>> /\ Dropped(conn[c]).todo = <<>>
      BY <1>1, DroppedType
    <2> QED
      BY <2>1, <2>2
  <1>3. visible' = visible /\ client' = client
    BY DEF Crash
  <1> QED
    BY <1>2, <1>3 DEF IInv, QueuesVisible, Shows, NoPhantomAlert

LEMMA ShownInv == IInv /\ [Next]_vars => QueuesVisible' /\ NoPhantomAlert'
  <1> SUFFICES ASSUME IInv, [Next]_vars PROVE QueuesVisible' /\ NoPhantomAlert'
    OBVIOUS
  <1>0. visible \subseteq visible'
    BY VisibleGrows DEF IInv
  <1>1. CASE UNCHANGED <<conn, client>>
    BY <1>0, <1>1, ShownKept DEF IInv
  <1>2. CASE \E t \in Thread, c \in Conn : SendTo(t, c) \/ SendEvicts(t, c) \/ SendTimesOut(t, c)
    BY <1>2, SendShows
  <1>3. CASE \E k \in Client, c \in Conn : Subscribe(k, c)
    BY <1>3, SubscribeShows
  <1>4. CASE \E c \in Conn : Replayer(c) \/ HeartbeatEvicts(c) \/ Receive(c) \/ BreakLink(c)
    BY <1>4, ReplayShows, ReceiveShows, PeerShows
  <1>5. CASE Crash
    BY <1>5, CrashShows
  <1>6. CASE \E t \in Thread :
                \/ \E a \in Alert : Insert(t, a) \/ CommitAck(t, a)
                \/ Commit(t) \/ ReadRow(t) \/ EndBroadcast(t) \/ Rollback(t) \/ ReadFails(t)
                \/ \E c \in Conn : SkipFiltered(t, c)
    <2>1. UNCHANGED <<conn, client>>
      BY <1>6 DEF Insert, CommitAck, Commit, ReadRow, EndBroadcast, Rollback, ReadFails, SkipFiltered
    <2> QED
      BY <1>1, <2>1
  <1>7. CASE UNCHANGED vars
    BY <1>1, <1>7 DEF vars
  <1> QED
    BY <1>2, <1>3, <1>4, <1>5, <1>6, <1>7 DEF Next, Committer

-----------------------------------------------------------------------------
(* Theorems *)

LEMMA InvInit == Init => IInv
  <1> SUFFICES ASSUME Init PROVE IInv
    OBVIOUS
  <1>1. \A t \in Thread : thread[t].step = "idle"
    BY DEF Init, Idle
  <1>2. \A c \in Conn : conn[c].pipe = <<>> /\ conn[c].todo = <<>>
    BY DEF Init, Unused
  <1>3. Covered
    BY <1>1 DEF Init, Covered, SubscriberUsed, CommittedVisible, Walks, Walk, DeliveredWhileConnected
  <1>4. QueuesVisible /\ NoPhantomAlert
    BY <1>2 DEF Init, QueuesVisible, Shows, NoPhantomAlert
  <1> QED
    BY <1>3, <1>4, TypeInit DEF IInv

LEMMA InvStep == IInv /\ [Next]_vars => IInv'
  BY TypeStep, CoveredStep, ShownInv DEF IInv

\* The inductive invariant: what a broadcast owes to whom it owes it, and that
\* all that is on its way is committed.
THEOREM Invariance == Spec => []IInv
  <1> QED
    BY InvInit, InvStep, PTL DEF Spec

\* No browser is ever told of an alert whose insertion can still be rolled
\* back, on its way or shown: the event is raised after the commit.
THEOREM NothingPhantom == Spec => []NoPhantomAlert
  <1>1. IInv => NoPhantomAlert
    BY DEF IInv
  <1> QED
    BY <1>1, Invariance, PTL

\* A subscriber was sent every alert it asked for that was committed after it
\* registered, but those a thread is still at or whose row could not be read,
\* whatever the number of threads that broadcast, filters, evictions and
\* replays: the registration comes before the replay, and a broadcast walks
\* every subscriber it found.
THEOREM Delivered == Spec => []DeliveredWhileConnected
  <1>1. IInv => DeliveredWhileConnected
    BY DEF IInv, Covered
  <1> QED
    BY <1>1, Invariance, PTL
=============================================================================
