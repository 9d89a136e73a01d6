------------------------ MODULE AlertIngestionProofs ------------------------
(***************************************************************************)
(* Safety of AlertIngestion for every number of partitions, threads,       *)
(* operators and alerts, every topic content and every number of faults.   *)
(***************************************************************************)
EXTENDS AlertIngestion, TLAPS

-----------------------------------------------------------------------------
(* The inductive invariant *)

OffsetsOrdered ==
    \A p \in Partition : committed[p] <= position[p] /\ position[p] <= Len(log[p])

HandledBelowPosition ==
    \A p \in Partition : \A o \in 0 .. position[p] - 1 : Handled(p, o)

\* What a busy thread holds: a record of the topic, at the position of its
\* partition while it owns it, and of a kind that fits its step.
HoldsRecord(t) ==
    pc[t] # "idle" =>
        /\ task[t].off < Len(log[task[t].part])
        /\ Owns(t) => task[t].off = position[task[t].part]
        /\ pc[t] = "reject" <=> Current(t).kind = "unreadable"
        /\ pc[t] \in {"commit", "announce", "ack"} => Current(t).kind = "good"
        /\ pc[t] \in {"announce", "ack"} => row[Current(t).alert].status # "ABSENT"

\* An open transaction still sees what its statement saw.
StatementCurrent(t) ==
    pc[t] = "commit" =>
        /\ task[t].effect = EffectOn(Current(t).alert)
        /\ ~Refused(Current(t))

\* Two open transactions never write the same window.
LocksExclusive ==
    \A t, u \in Thread :
        t # u /\ pc[t] = "commit" /\ pc[u] = "commit"
        => NaturalKey[Current(t).alert] # NaturalKey[Current(u).alert]

\* A thread about to announce is the only one, and the alert is not announced.
AnnouncesOnce ==
    \A t, u \in Thread :
        pc[t] = "announce" =>
            /\ announced[Current(t).alert] = 0
            /\ pc[u] = "announce" /\ t # u => Current(t).alert # Current(u).alert

\* The version counts the acknowledgements.
VersionCounts ==
    \A a \in Alert : row[a].version = IF row[a].status = "ACKNOWLEDGED" THEN 1 ELSE 0

LoadedFresh ==
    \A q \in Operator :
        request[q].phase = "loaded" =>
            request[q].version = 0 /\ row[request[q].alert].status # "ABSENT"

ThreadInv == \A t \in Thread : HoldsRecord(t) /\ StatementCurrent(t)

IInv ==
    /\ TypeOK
    /\ OffsetsOrdered
    /\ HandledBelowPosition
    /\ ThreadInv
    /\ LocksExclusive
    /\ AnnouncesOnce
    /\ AnnouncedAtMostOnce
    /\ VersionCounts
    /\ AuditMatchesStatus
    /\ LoadedFresh
    /\ OneAlertPerWindow

-----------------------------------------------------------------------------
(* Types *)

LEMMA Defaults ==
    NoTask \in Task /\ NoRow \in Row /\ NoRequest \in Request
  <1>1. (CHOOSE p \in Partition : TRUE) \in Partition
    BY PartitionAssumption
  <1>2. (CHOOSE r \in Rev : TRUE) \in Rev /\ (CHOOSE a \in Alert : TRUE) \in Alert
    BY AlertAssumption
  <1> QED
    BY <1>1, <1>2 DEF NoTask, Task, Effects, NoRow, Row, Status, NoRequest, Request

\* The record a busy thread holds is a message of the topic.
LEMMA CurrentIsMessage ==
    ASSUME TypeOK, NEW t \in Thread, task[t].off < Len(log[task[t].part])
    PROVE  /\ task[t].part \in Partition /\ task[t].off \in Nat
           /\ Current(t) \in Message
           /\ Current(t).alert \in Alert /\ Current(t).rev \in Rev
  <1>1. task[t].part \in Partition /\ task[t].off \in Nat
    BY DEF TypeOK, Task
  <1>2. log[task[t].part] \in Seq(Message)
    BY <1>1 DEF TypeOK
  <1>3. task[t].off + 1 \in 1 .. Len(log[task[t].part])
    BY <1>1, <1>2
  <1>4. Current(t) \in Message
    BY <1>2, <1>3 DEF Current, Record
  <1> QED
    BY <1>1, <1>4 DEF Message

LEMMA AdvanceType ==
    ASSUME TypeOK, NEW t \in Thread, Advance(t)
    PROVE  position' \in [Partition -> Nat]
  <1>1. task[t].off + 1 \in Nat
    BY DEF TypeOK, Task
  <1> QED
    BY <1>1 DEF TypeOK, Advance

LEMMA ReleaseType ==
    ASSUME TypeOK, NEW t \in Thread, Release(t)
    PROVE  /\ pc' \in [Thread -> {"idle", "reject", "ingest", "commit", "announce", "ack"}]
           /\ task' \in [Thread -> Task]
  BY Defaults DEF TypeOK, Release

LEMMA TypeInit == Init => TypeOK
  <1> SUFFICES ASSUME Init PROVE TypeOK
    OBVIOUS
  <1> QED
    BY Defaults DEF Init, TypeOK

LEMMA TypePublish ==
    ASSUME TypeOK, NEW p \in Partition, Publish(p) PROVE TypeOK'
  <1>1. PICK k \in Kinds, a \in Alert, r \in Rev :
            log' = [log EXCEPT ![p] = Append(@, [kind |-> k, alert |-> a, rev |-> r])]
    BY DEF Publish
  <1>2. [kind |-> k, alert |-> a, rev |-> r] \in Message
    BY KindAssumption DEF Message
  <1>3. log' \in [Partition -> Seq(Message)]
    BY <1>1, <1>2 DEF TypeOK
  <1> QED
    BY <1>3 DEF TypeOK, Publish, groupVars, threadVars, dbVars, dlqVars

LEMMA TypeListener ==
    ASSUME TypeOK, ThreadInv, NEW t \in Thread, Listener(t) PROVE TypeOK'
  <1>1. CASE \E p \in Partition : Receive(t, p)
    <2>1. PICK p \in Partition : Receive(t, p)
      BY <1>1
    <2>2. [part |-> p, off |-> position[p], effect |-> "keep"] \in Task
      BY DEF Task, Effects, TypeOK
    <2>3. task' \in [Thread -> Task]
      BY <2>1, <2>2 DEF Receive, TypeOK
    <2>4. pc' \in [Thread -> {"idle", "reject", "ingest", "commit", "announce", "ack"}]
      BY <2>1 DEF Receive, TypeOK
    <2> QED
      BY <2>1, <2>3, <2>4 DEF TypeOK, Receive, topicVars, groupVars, dbVars, dlqVars
  <1>2. CASE RejectRecord(t)
    <2>1. <<task[t].part, task[t].off>> \in DeadLetter
      BY DEF TypeOK, Task, DeadLetter
    <2> QED
      BY <1>2, <2>1, AdvanceType, ReleaseType DEF TypeOK, RejectRecord, topicVars, dbVars
  <1>3. CASE Upsert(t)
    <2>1. EffectOn(Current(t).alert) \in Effects
      BY DEF EffectOn, Effects
    <2>2. task' \in [Thread -> Task] /\ pc' = [pc EXCEPT ![t] = "commit"]
      BY <1>3, <2>1 DEF TypeOK, Upsert, Task
    <2> QED
      BY <1>3, <2>2 DEF TypeOK, Upsert, topicVars, groupVars, dbVars, dlqVars
  <1>4. CASE UpsertRefused(t)
    BY <1>4, ReleaseType DEF TypeOK, UpsertRefused, topicVars, groupVars, dbVars, dlqVars
  <1>5. CASE CommitTransaction(t)
    <2>1. Current(t).alert \in Alert /\ Current(t).rev \in Rev
      BY <1>5, CurrentIsMessage DEF ThreadInv, HoldsRecord, CommitTransaction
    <2>2. Written(row[Current(t).alert], task[t].effect, Current(t).rev) \in Row
      <3>1. row[Current(t).alert] \in Row
        BY <2>1 DEF TypeOK
      <3> QED
        BY <2>1, <3>1 DEF Written, Row, Status
    <2>3. machines' \subseteq Machine
      BY <1>5, <2>1, MachineAssumption DEF CommitTransaction, TypeOK
    <2> QED
      BY <1>5, <2>1, <2>2, <2>3 DEF TypeOK, CommitTransaction, topicVars, groupVars, dlqVars
  <1>6. CASE AnnounceCreated(t)
    <2>1. Current(t).alert \in Alert
      BY <1>6, CurrentIsMessage DEF ThreadInv, HoldsRecord, AnnounceCreated
    <2>2. announced' \in [Alert -> Nat]
      BY <1>6, <2>1 DEF TypeOK, AnnounceCreated
    <2>3. pc' \in [Thread -> {"idle", "reject", "ingest", "commit", "announce", "ack"}]
      BY <1>6 DEF TypeOK, AnnounceCreated
    <2> QED
      BY <1>6, <2>2, <2>3 DEF TypeOK, AnnounceCreated, topicVars, groupVars, dbVars, dlqVars
  <1>7. CASE Acknowledge(t)
    <2>0. task[t].off + 1 \in Nat
      BY DEF TypeOK, Task
    <2>1. committed' \in [Partition -> Nat]
      BY <1>7, <2>0 DEF TypeOK, Acknowledge
    <2> QED
      BY <1>7, <2>1, AdvanceType, ReleaseType DEF TypeOK, Acknowledge, topicVars, dbVars,
                                                  dlqVars
  <1> QED
    BY <1>1, <1>2, <1>3, <1>4, <1>5, <1>6, <1>7 DEF Listener

LEMMA TypeFault ==
    ASSUME TypeOK, NEW t \in Thread, ListenerFault(t) PROVE TypeOK'
  <1>1. faults' \in Nat
    BY DEF TypeOK, ListenerFault, RejectFails, AnnounceFails, ListenerFails, Faulty
  <1>2. CASE RejectFails(t)
    BY <1>1, <1>2, ReleaseType DEF TypeOK, RejectFails, topicVars, groupVars, dbVars, dlqVars
  <1>3. CASE AnnounceFails(t)
    BY <1>1, <1>3 DEF TypeOK, AnnounceFails, topicVars, groupVars, dbVars, dlqVars
  <1>4. CASE ListenerFails(t)
    BY <1>1, <1>4, ReleaseType DEF TypeOK, ListenerFails, topicVars, groupVars, dbVars,
                                   dlqVars
  <1> QED
    BY <1>2, <1>3, <1>4 DEF ListenerFault

LEMMA TypeProducer ==
    ASSUME TypeOK, Producer PROVE TypeOK'
  BY DEF TypeOK, Producer, DeadLetterDelivered, DeadLetterDropped, Faulty, topicVars,
         groupVars, threadVars, dbVars

LEMMA TypeWeb ==
    ASSUME TypeOK, NEW q \in Operator, Web(q) PROVE TypeOK'
  <1>1. CASE \E a \in Alert : LoadAlert(q, a)
    <2>1. PICK a \in Alert : LoadAlert(q, a)
      BY <1>1
    <2>2. [phase |-> "loaded", alert |-> a, rev |-> row[a].rev, version |-> row[a].version]
            \in Request
      BY DEF TypeOK, Row, Request
    <2> QED
      BY <2>1, <2>2 DEF TypeOK, LoadAlert, topicVars, groupVars, threadVars, dbVars, dlqVars
  <1>2. CASE CommitAck(q)
    <2>1. AckedRow(q) \in Row
      BY DEF AckedRow, TypeOK, Request, Row, Status
    <2> QED
      BY <1>2, <2>1, Defaults DEF TypeOK, CommitAck, Request, topicVars, groupVars,
                                  threadVars, dlqVars
  <1>3. CASE RejectAck(q)
    BY <1>3, Defaults DEF TypeOK, RejectAck, topicVars, groupVars, threadVars, dbVars,
                          dlqVars
  <1> QED
    BY <1>1, <1>2, <1>3 DEF Web

LEMMA TypeRebalance ==
    ASSUME TypeOK, NEW p \in Partition, NEW t \in Thread, Rebalance(p, t) PROVE TypeOK'
  BY DEF TypeOK, Rebalance, Faulty, topicVars, threadVars, dbVars, dlqVars

LEMMA TypeCrash ==
    ASSUME TypeOK, Crash PROVE TypeOK'
  <1>1. /\ pc' \in [Thread -> {"idle", "reject", "ingest", "commit", "announce", "ack"}]
        /\ task' \in [Thread -> Task]
        /\ request' \in [Operator -> Request]
    BY Defaults DEF Crash
  <1>2. position' \in [Partition -> Nat] /\ faults' \in Nat
    BY DEF TypeOK, Crash, Faulty
  <1>3. dlqPending' \subseteq DeadLetter /\ dlqLost' \subseteq DeadLetter
    BY DEF TypeOK, Crash
  <1> QED
    BY <1>1, <1>2, <1>3 DEF TypeOK, Crash, topicVars, dbVars

LEMMA TypeStep ==
    ASSUME TypeOK, ThreadInv, [Next]_vars PROVE TypeOK'
  <1>1. CASE UNCHANGED vars
    BY <1>1 DEF TypeOK, vars, topicVars, groupVars, threadVars, dbVars, dlqVars
  <1>2. CASE Next
    BY <1>2, TypePublish, TypeListener, TypeFault, TypeProducer, TypeWeb, TypeRebalance,
       TypeCrash DEF Next
  <1> QED
    BY <1>1, <1>2

-----------------------------------------------------------------------------
(* What every step keeps *)

\* The topic only grows, a row never disappears, and a rejected record stays
\* somewhere on its way to the dead letter topic.
Grows ==
    /\ \A p \in Partition :
        /\ Len(log[p]) <= Len(log'[p])
        /\ \A o \in 0 .. Len(log[p]) - 1 : log'[p][o + 1] = log[p][o + 1]
    /\ \A a \in Alert : row[a].status # "ABSENT" => row'[a].status # "ABSENT"
    /\ dlqPending \cup dlq \cup dlqLost \subseteq dlqPending' \cup dlq' \cup dlqLost'

LEMMA RecordIsMessage ==
    ASSUME TypeOK, NEW p \in Partition, NEW o \in Nat, o < Len(log[p])
    PROVE  Record(p, o) \in Message
  <1>1. log[p] \in Seq(Message) /\ o + 1 \in 1 .. Len(log[p])
    BY DEF TypeOK
  <1> QED
    BY <1>1 DEF Record

LEMMA HandledStable ==
    ASSUME TypeOK, Grows, NEW p \in Partition, NEW o \in Nat, o < Len(log[p]),
           Handled(p, o)
    PROVE  Handled(p, o)'
  <1>1. o \in 0 .. Len(log[p]) - 1
    BY DEF TypeOK
  <1>2. Record(p, o)' = Record(p, o)
    BY <1>1 DEF Grows, Record
  <1>3. Record(p, o) \in Message
    BY RecordIsMessage
  <1> QED
    BY <1>2, <1>3 DEF Handled, Grows, Message

\* Moving positions back, or not at all, keeps what is below them handled.
LEMMA QueueKept ==
    ASSUME IInv, TypeOK', Grows,
           \A p \in Partition : committed'[p] <= position'[p] /\ position'[p] <= position[p]
    PROVE  OffsetsOrdered' /\ HandledBelowPosition'
  <1>1. OffsetsOrdered'
    BY DEF IInv, TypeOK, OffsetsOrdered, Grows
  <1>2. ASSUME NEW p \in Partition, NEW o \in 0 .. position'[p] - 1
        PROVE  Handled(p, o)'
    <2>1. o \in Nat /\ o \in 0 .. position[p] - 1 /\ o < Len(log[p])
      BY <1>2 DEF IInv, TypeOK, OffsetsOrdered
    <2>2. Handled(p, o)
      BY <2>1 DEF IInv, HandledBelowPosition
    <2> QED
      BY <2>1, <2>2, HandledStable DEF IInv
  <1> QED
    BY <1>1, <1>2 DEF HandledBelowPosition

LEMMA TableKept ==
    ASSUME IInv, UNCHANGED <<row, audit, announced>>,
           \A q \in Operator : request'[q] = request[q] \/ request'[q].phase # "loaded"
    PROVE  /\ AnnouncedAtMostOnce' /\ VersionCounts' /\ AuditMatchesStatus'
           /\ LoadedFresh' /\ OneAlertPerWindow'
  BY DEF IInv, AnnouncedAtMostOnce, VersionCounts, AuditMatchesStatus, LoadedFresh,
         OneAlertPerWindow

\* The threads keep their invariants when topic, group and table stand still.
LEMMA ThreadsKept ==
    ASSUME IInv, UNCHANGED <<log, owner, position, pc, task, row, announced>>
    PROVE  ThreadInv' /\ LocksExclusive' /\ AnnouncesOnce'
  <1>1. ASSUME NEW t \in Thread PROVE HoldsRecord(t)'
    <2>1. HoldsRecord(t)
      BY DEF IInv, ThreadInv
    <2> QED
      BY <2>1 DEF HoldsRecord, Owns, Current, Record
  <1>2. ASSUME NEW t \in Thread PROVE StatementCurrent(t)'
    <2>1. StatementCurrent(t)
      BY DEF IInv, ThreadInv
    <2> QED
      BY <2>1 DEF StatementCurrent, Owns, Current, Record, EffectOn, Refused
  <1>3. LocksExclusive'
    BY DEF IInv, LocksExclusive, Current, Record
  <1>4. AnnouncesOnce'
    BY DEF IInv, AnnouncesOnce, Current, Record
  <1> QED
    BY <1>1, <1>2, <1>3, <1>4 DEF ThreadInv

\* A thread that lets go of its record, and perhaps moves past it, disturbs no
\* other: a partition has one owner.
LEMMA ReleaseKept ==
    ASSUME IInv, NEW t \in Thread, Release(t), Advance(t) \/ UNCHANGED position,
           UNCHANGED <<log, owner, row, announced>>
    PROVE  ThreadInv' /\ LocksExclusive' /\ AnnouncesOnce'
  <1>1. pc'[t] = "idle"
    BY DEF Release, IInv, TypeOK
  <1>2. \A u \in Thread : u # t => /\ pc'[u] = pc[u] /\ task'[u] = task[u]
                                   /\ Current(u)' = Current(u)
                                   /\ Owns(u)' = Owns(u)
    BY DEF Release, IInv, TypeOK, Current, Record, Owns
  <1>3. ASSUME NEW u \in Thread, u # t, Owns(u) PROVE position'[task[u].part] = position[task[u].part]
    <2>1. task[u].part \in Partition /\ task[t].part \in Partition
      BY DEF IInv, TypeOK, Task
    <2>2. Owns(t) => task[u].part # task[t].part
      BY <1>3 DEF Owns
    <2> QED
      BY <2>1, <2>2 DEF Advance, IInv, TypeOK
  <1>4. ASSUME NEW u \in Thread PROVE HoldsRecord(u)' /\ StatementCurrent(u)'
    <2>1. CASE u = t
      BY <1>1, <2>1 DEF HoldsRecord, StatementCurrent
    <2>2. CASE u # t
      <3>1. HoldsRecord(u) /\ StatementCurrent(u)
        BY DEF IInv, ThreadInv
      <3>2. HoldsRecord(u)'
        BY <1>2, <1>3, <2>2, <3>1 DEF HoldsRecord
      <3>3. StatementCurrent(u)'
        BY <1>2, <2>2, <3>1 DEF StatementCurrent, EffectOn, Refused
      <3> QED
        BY <3>2, <3>3
    <2> QED
      BY <2>1, <2>2
  <1>5. LocksExclusive'
    BY <1>1, <1>2 DEF IInv, LocksExclusive
  <1>6. AnnouncesOnce'
    BY <1>1, <1>2 DEF IInv, AnnouncesOnce
  <1> QED
    BY <1>4, <1>5, <1>6 DEF ThreadInv

-----------------------------------------------------------------------------
(* One lemma per action: the rest of the inductive invariant *)

\* IInv without the types.
Untyped ==
    /\ OffsetsOrdered /\ HandledBelowPosition
    /\ ThreadInv /\ LocksExclusive /\ AnnouncesOnce
    /\ AnnouncedAtMostOnce /\ VersionCounts /\ AuditMatchesStatus
    /\ LoadedFresh /\ OneAlertPerWindow

LEMMA StepPublish ==
    ASSUME IInv, TypeOK', NEW p \in Partition, Publish(p) PROVE Untyped'
  <1>1. PICK m : m \in Message /\ log' = [log EXCEPT ![p] = Append(@, m)]
    BY KindAssumption DEF Publish, Message
  <1>2. \A s \in Partition :
            /\ Len(log[s]) <= Len(log'[s])
            /\ \A o \in 0 .. Len(log[s]) - 1 : log'[s][o + 1] = log[s][o + 1]
    BY <1>1 DEF IInv, TypeOK
  <1>3. Grows
    BY <1>2 DEF Grows, Publish, dbVars, dlqVars
  <1>4. OffsetsOrdered' /\ HandledBelowPosition'
    <2>1. committed' = committed /\ position' = position
      BY DEF Publish, groupVars
    <2>2. \A s \in Partition : /\ committed'[s] <= position'[s]
                               /\ position[s] \in Nat
      BY <2>1 DEF IInv, OffsetsOrdered, TypeOK
    <2>3. \A s \in Partition : committed'[s] <= position'[s] /\ position'[s] <= position[s]
      BY <2>1, <2>2
    <2> QED
      BY <1>3, <2>3, QueueKept
  <1>5. \A t \in Thread : pc[t] # "idle" => Current(t)' = Current(t)
    <2> SUFFICES ASSUME NEW t \in Thread, pc[t] # "idle" PROVE Current(t)' = Current(t)
      OBVIOUS
    <2>1. task[t].part \in Partition /\ task[t].off \in Nat
      BY DEF IInv, TypeOK, Task
    <2>2. task[t].off < Len(log[task[t].part])
      BY DEF IInv, ThreadInv, HoldsRecord
    <2>3. task[t].off \in 0 .. Len(log[task[t].part]) - 1
      BY SMTT(30), <2>1, <2>2 DEF IInv, TypeOK
    <2>4. task'[t] = task[t]
      BY DEF Publish, threadVars
    <2> QED
      BY <1>2, <2>1, <2>3, <2>4 DEF Current, Record
  <1>6. ASSUME NEW t \in Thread PROVE HoldsRecord(t)' /\ StatementCurrent(t)'
    <2>1. task[t].part \in Partition /\ task[t].off \in Nat
      BY DEF IInv, TypeOK, Task
    <2>2. HoldsRecord(t) /\ StatementCurrent(t)
      BY DEF IInv, ThreadInv
    <2>3. /\ pc'[t] = pc[t] /\ task'[t] = task[t] /\ row' = row
          /\ owner' = owner /\ position' = position
      BY DEF Publish, threadVars, groupVars, dbVars
    <2>4. /\ Len(log[task[t].part]) \in Nat /\ Len(log'[task[t].part]) \in Nat
          /\ Len(log[task[t].part]) <= Len(log'[task[t].part])
      BY SMTT(30), <1>2, <2>1 DEF IInv, TypeOK
    <2>5. Owns(t)' = Owns(t)
      BY <2>3 DEF Owns
    <2>6. HoldsRecord(t)'
      BY <1>5, <2>1, <2>2, <2>3, <2>4, <2>5 DEF HoldsRecord
    <2>7. StatementCurrent(t)'
      BY <1>5, <2>2, <2>3 DEF StatementCurrent, EffectOn, Refused
    <2> QED
      BY <2>6, <2>7
  <1>7. LocksExclusive' /\ AnnouncesOnce'
    BY <1>5 DEF IInv, LocksExclusive, AnnouncesOnce, Publish, threadVars
  <1>8. /\ AnnouncedAtMostOnce' /\ VersionCounts' /\ AuditMatchesStatus'
        /\ LoadedFresh' /\ OneAlertPerWindow'
    BY TableKept DEF Publish, dbVars
  <1> QED
    BY <1>4, <1>6, <1>7, <1>8 DEF Untyped, ThreadInv

LEMMA StepReceive ==
    ASSUME IInv, TypeOK', NEW t \in Thread, NEW p \in Partition, Receive(t, p)
    PROVE  Untyped'
  <1>1. /\ UNCHANGED <<log, committed, owner, position, row, audit, announced, request>>
        /\ UNCHANGED <<dlqPending, dlq, dlqLost>>
    BY DEF Receive, topicVars, groupVars, dbVars, dlqVars
  <1>2. /\ task'[t].part = p /\ task'[t].off = position[p]
        /\ pc'[t] = IF Record(p, position[p]).kind = "unreadable" THEN "reject" ELSE "ingest"
        /\ position[p] < Len(log[p])
    BY DEF Receive, IInv, TypeOK
  <1>3. \A u \in Thread : u # t => /\ pc'[u] = pc[u] /\ task'[u] = task[u]
                                   /\ Current(u)' = Current(u)
                                   /\ Owns(u)' = Owns(u)
    BY <1>1 DEF Receive, IInv, TypeOK, Current, Record, Owns
  <1>4. Current(t)' = Record(p, position[p])
    BY <1>1, <1>2 DEF Current, Record
  <1>5. HoldsRecord(t)' /\ StatementCurrent(t)'
    BY <1>1, <1>2, <1>4 DEF HoldsRecord, StatementCurrent
  <1>6. ASSUME NEW u \in Thread, u # t PROVE HoldsRecord(u)' /\ StatementCurrent(u)'
    <2>1. HoldsRecord(u) /\ StatementCurrent(u)
      BY DEF IInv, ThreadInv
    <2>2. HoldsRecord(u)'
      BY <1>1, <1>3, <1>6, <2>1 DEF HoldsRecord
    <2>3. StatementCurrent(u)'
      BY <1>1, <1>3, <1>6, <2>1 DEF StatementCurrent, EffectOn, Refused
    <2> QED
      BY <2>2, <2>3
  <1>7. LocksExclusive' /\ AnnouncesOnce'
    BY <1>1, <1>2, <1>3 DEF IInv, LocksExclusive, AnnouncesOnce
  <1>8. OffsetsOrdered' /\ HandledBelowPosition'
    BY <1>1, QueueKept DEF Grows, IInv, OffsetsOrdered, TypeOK
  <1>9. /\ AnnouncedAtMostOnce' /\ VersionCounts' /\ AuditMatchesStatus'
        /\ LoadedFresh' /\ OneAlertPerWindow'
    BY <1>1, TableKept
  <1> QED
    BY <1>5, <1>6, <1>7, <1>8, <1>9 DEF Untyped, ThreadInv

\* Moving past a record is sound when the record is handled.
LEMMA PositionAdvances ==
    ASSUME IInv, TypeOK', NEW t \in Thread, pc[t] # "idle", Advance(t), Grows,
           UNCHANGED <<log, row>>,
           NEW p \in Partition, NEW n \in Nat, p = task[t].part, n = task[t].off,
           Handled(p, n)',
           \/ committed' = committed
           \/ Owns(t) /\ committed' = [committed EXCEPT ![task[t].part] = task[t].off + 1]
    PROVE  OffsetsOrdered' /\ HandledBelowPosition'
  <1>1. /\ task[t].part \in Partition /\ task[t].off \in Nat
        /\ task[t].off < Len(log[task[t].part])
        /\ Owns(t) => task[t].off = position[task[t].part]
    BY DEF IInv, TypeOK, Task, ThreadInv, HoldsRecord
  <1>2. CASE ~Owns(t)
    <2>1. position' = position /\ committed' = committed
      BY <1>2 DEF Advance
    <2>2. \A s \in Partition : committed[s] <= position[s] /\ position[s] \in Nat
      BY DEF IInv, OffsetsOrdered, TypeOK
    <2>3. \A s \in Partition : committed'[s] <= position'[s] /\ position'[s] <= position[s]
      BY <2>1, <2>2
    <2> QED
      BY <2>3, QueueKept
  <1>3. CASE Owns(t)
    <2>1. /\ position' = [position EXCEPT ![p] = task[t].off + 1]
          /\ position[p] = task[t].off
      BY <1>1, <1>3 DEF Advance
    <2>2. ASSUME NEW s \in Partition
          PROVE  committed'[s] <= position'[s] /\ position'[s] <= Len(log'[s])
      <3>1. committed[s] <= position[s] /\ position[s] <= Len(log[s])
        BY DEF IInv, OffsetsOrdered
      <3>2. committed[s] \in Nat /\ position[s] \in Nat /\ Len(log[s]) \in Nat
        BY DEF IInv, TypeOK
      <3>3. CASE s = p
        <4>1. position'[s] = task[t].off + 1
          BY <2>1, <3>3 DEF IInv, TypeOK
        <4>2. committed'[s] = committed[s] \/ committed'[s] = task[t].off + 1
          BY <3>3 DEF IInv, TypeOK
        <4> QED
          BY <1>1, <2>1, <3>1, <3>2, <3>3, <4>1, <4>2
      <3>4. CASE s # p
        BY <2>1, <3>1, <3>4 DEF IInv, TypeOK
      <3> QED
        BY <3>3, <3>4
    <2>3. ASSUME NEW s \in Partition, NEW o \in 0 .. position'[s] - 1
          PROVE  Handled(s, o)'
      <3>1. CASE s = p /\ o = n
        BY <3>1
      <3>2. CASE ~(s = p /\ o = n)
        <4>1. o \in 0 .. position[s] - 1 /\ o \in Nat /\ o < Len(log[s])
          BY SMTT(30), <1>1, <2>1, <2>3, <3>2 DEF IInv, TypeOK, OffsetsOrdered
        <4>2. Handled(s, o)
          BY <4>1 DEF IInv, HandledBelowPosition
        <4> QED
          BY <4>1, <4>2, HandledStable DEF IInv
      <3> QED
        BY <3>1, <3>2
    <2> QED
      BY <2>2, <2>3 DEF OffsetsOrdered, HandledBelowPosition
  <1> QED
    BY <1>2, <1>3

\* A data error dead-letters the record, which handles it.
LEMMA StepRejectRecord ==
    ASSUME IInv, TypeOK', NEW t \in Thread, RejectRecord(t) PROVE Untyped'
  <1>1. /\ UNCHANGED <<log, committed, owner, row, audit, announced, request>>
        /\ Advance(t) /\ Release(t) /\ pc[t] = "reject"
        /\ UNCHANGED <<dlq, dlqLost>>
        /\ dlqPending' = dlqPending \cup {<<task[t].part, task[t].off>>}
    BY DEF RejectRecord, topicVars, dbVars
  <1>2. Grows
    BY <1>1 DEF Grows, IInv, TypeOK
  <1>3. PICK p \in Partition, n \in Nat : p = task[t].part /\ n = task[t].off
    BY DEF IInv, TypeOK, Task
  <1>4. Record(p, n)' = Current(t)
    BY <1>1, <1>3 DEF Record, Current
  <1>5. Current(t).kind = "unreadable"
    BY <1>1 DEF IInv, ThreadInv, HoldsRecord
  <1>6. Handled(p, n)'
    BY <1>1, <1>3, <1>4, <1>5 DEF Handled
  <1>7. OffsetsOrdered' /\ HandledBelowPosition'
    BY <1>1, <1>2, <1>3, <1>6, PositionAdvances
  <1> QED
    BY <1>1, <1>7, ReleaseKept, TableKept DEF Untyped

LEMMA StepAcknowledge ==
    ASSUME IInv, TypeOK', NEW t \in Thread, Acknowledge(t) PROVE Untyped'
  <1>1. /\ UNCHANGED <<log, owner, row, audit, announced, request>>
        /\ Advance(t) /\ Release(t) /\ pc[t] = "ack"
        /\ UNCHANGED <<dlqPending, dlq, dlqLost>>
    BY DEF Acknowledge, topicVars, dbVars, dlqVars
  <1>2. Grows
    BY <1>1 DEF Grows, IInv, TypeOK
  <1>3. PICK p \in Partition, n \in Nat : p = task[t].part /\ n = task[t].off
    BY DEF IInv, TypeOK, Task
  <1>4. Record(p, n)' = Current(t)
    BY <1>1, <1>3 DEF Record, Current
  <1>5. Current(t).kind = "good" /\ row[Current(t).alert].status # "ABSENT"
    BY <1>1 DEF IInv, ThreadInv, HoldsRecord
  <1>6. Handled(p, n)'
    BY <1>1, <1>4, <1>5 DEF Handled
  <1>7. \/ committed' = committed
        \/ Owns(t) /\ committed' = [committed EXCEPT ![task[t].part] = task[t].off + 1]
    BY DEF Acknowledge
  <1>8. OffsetsOrdered' /\ HandledBelowPosition'
    BY <1>1, <1>2, <1>3, <1>6, <1>7, PositionAdvances
  <1> QED
    BY <1>1, <1>8, ReleaseKept, TableKept DEF Untyped

\* The steps that only let go of a record.
LEMMA StepGivesBack ==
    ASSUME IInv, TypeOK', NEW t \in Thread,
           UpsertRefused(t) \/ RejectFails(t) \/ ListenerFails(t)
    PROVE  Untyped'
  <1>1. /\ UNCHANGED <<log, committed, position, owner, row, audit, announced, request>>
        /\ UNCHANGED <<dlqPending, dlq, dlqLost>> /\ Release(t)
    BY DEF UpsertRefused, RejectFails, ListenerFails, topicVars, groupVars, dbVars, dlqVars
  <1>2. OffsetsOrdered' /\ HandledBelowPosition'
    BY <1>1, QueueKept DEF Grows, IInv, OffsetsOrdered, TypeOK
  <1> QED
    BY <1>1, <1>2, ReleaseKept, TableKept DEF Untyped

\* The statement of one thread: the row lock and the unique index keep it
\* apart from every other open transaction.
LEMMA StepUpsert ==
    ASSUME IInv, TypeOK', NEW t \in Thread, Upsert(t) PROVE Untyped'
  <1>1. /\ UNCHANGED <<log, committed, position, owner, row, audit, announced, request>>
        /\ UNCHANGED <<dlqPending, dlq, dlqLost>>
    BY DEF Upsert, topicVars, groupVars, dbVars, dlqVars
  <1>2. /\ pc[t] = "ingest" /\ pc'[t] = "commit"
        /\ task'[t].part = task[t].part /\ task'[t].off = task[t].off
        /\ task'[t].effect = EffectOn(Current(t).alert)
    BY DEF Upsert, IInv, TypeOK, Task
  <1>3. \A u \in Thread : u # t => pc'[u] = pc[u] /\ task'[u] = task[u]
    BY DEF Upsert, IInv, TypeOK
  <1>4. \A u \in Thread : Current(u)' = Current(u) /\ Owns(u)' = Owns(u)
                          /\ task'[u].part = task[u].part /\ task'[u].off = task[u].off
    BY <1>1, <1>2, <1>3 DEF Current, Record, Owns
  <1>5. \A a \in Alert : EffectOn(a)' = EffectOn(a)
    BY <1>1 DEF EffectOn
  <1>6. Current(t).kind = "good" /\ Current(t).alert \in Alert
    <2>1. HoldsRecord(t)
      BY DEF IInv, ThreadInv
    <2>2. Current(t) \in Message /\ Current(t).alert \in Alert
      BY <1>2, <2>1, CurrentIsMessage DEF HoldsRecord, IInv
    <2> QED
      BY <1>2, <2>1, <2>2 DEF Upsert, Refused, HoldsRecord, Message
  <1>7. ASSUME NEW u \in Thread PROVE HoldsRecord(u)'
    BY <1>1, <1>2, <1>3, <1>4, <1>6 DEF IInv, ThreadInv, HoldsRecord
  <1>8. ASSUME NEW u \in Thread PROVE StatementCurrent(u)'
    <2>1. CASE u = t
      <3>1. ~Refused(Current(t))
        BY DEF Upsert
      <3>2. ~Refused(Current(t))'
        BY <1>1, <1>4, <3>1 DEF Refused
      <3> QED
        BY <1>2, <1>4, <1>5, <1>6, <2>1, <3>2 DEF StatementCurrent, EffectOn
    <2>2. CASE u # t
      BY <1>1, <1>3, <1>4, <2>2 DEF IInv, ThreadInv, StatementCurrent, EffectOn, Refused
    <2> QED
      BY <2>1, <2>2
  <1>9. \A u \in Thread \ {t} : pc[u] = "commit" =>
            NaturalKey[Current(u).alert] # NaturalKey[Current(t).alert]
    BY DEF Upsert, Locked, InFlight, Conflicts
  <1>10. LocksExclusive'
    BY <1>3, <1>4, <1>9 DEF IInv, LocksExclusive
  <1>11. AnnouncesOnce'
    BY <1>1, <1>2, <1>3, <1>4 DEF IInv, AnnouncesOnce
  <1>12. OffsetsOrdered' /\ HandledBelowPosition'
    BY <1>1, QueueKept DEF Grows, IInv, OffsetsOrdered, TypeOK
  <1> QED
    BY <1>1, <1>7, <1>8, <1>10, <1>11, <1>12, TableKept DEF Untyped, ThreadInv

\* What the commit of thread t does to the table: nothing, a first row for a
\* free window, or a new revision of a row still NEW.
LEMMA CommitEffect ==
    ASSUME IInv, TypeOK', NEW t \in Thread, CommitTransaction(t),
           NEW a \in Alert, a = Current(t).alert
    PROVE  /\ \A b \in Alert : b # a => row'[b] = row[b]
           /\ row'[a].status # "ABSENT"
           /\ row[a].status = "ACKNOWLEDGED" => row'[a] = row[a]
           /\ row[a].status = "NEW" => /\ row'[a].status = "NEW"
                                       /\ row'[a].version = row[a].version
                                       /\ pc'[t] = "ack"
           /\ row[a].status = "ABSENT" =>
                /\ row'[a].status = "NEW" /\ row'[a].version = 0
                /\ \A b \in Alert : NaturalKey[b] = NaturalKey[a] => row[b].status = "ABSENT"
           /\ pc'[t] \in {"announce", "ack"}
           /\ pc'[t] = "announce" => row[a].status = "ABSENT"
  <1>1. pc[t] = "commit" /\ task[t].effect = EffectOn(a) /\ ~Refused(Current(t))
    BY DEF IInv, ThreadInv, StatementCurrent, CommitTransaction
  <1>2. row' = [row EXCEPT ![a] = Written(row[a], EffectOn(a), Current(t).rev)]
    BY <1>1 DEF CommitTransaction
  <1>3. pc'[t] = IF Created(EffectOn(a)) THEN "announce" ELSE "ack"
    BY <1>1 DEF CommitTransaction, IInv, TypeOK
  <1>4. row \in [Alert -> Row] /\ row[a] \in Row
    BY DEF IInv, TypeOK
  <1>5. row'[a] = Written(row[a], EffectOn(a), Current(t).rev)
    BY <1>2, <1>4
  <1>6. CASE row[a].status = "ABSENT"
    <2>1. EffectOn(a) = "insert"
      BY <1>6 DEF EffectOn
    <2>2. row'[a] = [status |-> "NEW", rev |-> Current(t).rev, version |-> 0]
      BY <1>5, <2>1 DEF Written
    <2>3. \A b \in Alert : NaturalKey[b] = NaturalKey[a] => row[b].status = "ABSENT"
      BY <1>1, <1>6 DEF Refused
    <2> QED
      BY <1>2, <1>3, <1>4, <1>6, <2>2, <2>3
  <1>7. CASE row[a].status = "NEW"
    <2>1. EffectOn(a) = "revise"
      BY <1>7 DEF EffectOn
    <2>2. row'[a] = [row[a] EXCEPT !.rev = Current(t).rev]
      BY <1>5, <2>1 DEF Written
    <2>3. row'[a].status = "NEW" /\ row'[a].version = row[a].version
      BY <1>4, <1>7, <2>2 DEF Row
    <2> QED
      BY <1>2, <1>3, <1>4, <1>7, <2>1, <2>3 DEF Created
  <1>8. CASE row[a].status = "ACKNOWLEDGED"
    <2>1. EffectOn(a) = "keep"
      BY <1>8 DEF EffectOn
    <2>2. row'[a] = row[a]
      BY <1>5, <2>1 DEF Written
    <2> QED
      BY <1>2, <1>3, <1>4, <1>8, <2>1, <2>2 DEF Created
  <1> QED
    BY <1>4, <1>6, <1>7, <1>8 DEF Row, Status

LEMMA StepCommitTransaction ==
    ASSUME IInv, TypeOK', NEW t \in Thread, CommitTransaction(t) PROVE Untyped'
  <1>1. /\ UNCHANGED <<log, committed, position, owner, task, audit, announced, request>>
        /\ UNCHANGED <<dlqPending, dlq, dlqLost>> /\ pc[t] = "commit"
    BY DEF CommitTransaction, topicVars, groupVars, dlqVars
  <1>2. HoldsRecord(t) /\ StatementCurrent(t) /\ Current(t).kind = "good"
    BY <1>1 DEF IInv, ThreadInv, HoldsRecord
  <1>3. PICK a \in Alert : a = Current(t).alert
    BY <1>1, <1>2, CurrentIsMessage DEF HoldsRecord, IInv
  <1>4. /\ \A b \in Alert : b # a => row'[b] = row[b]
        /\ row'[a].status # "ABSENT"
        /\ row[a].status = "ACKNOWLEDGED" => row'[a] = row[a]
        /\ row[a].status = "NEW" => /\ row'[a].status = "NEW"
                                    /\ row'[a].version = row[a].version
                                    /\ pc'[t] = "ack"
        /\ row[a].status = "ABSENT" =>
            /\ row'[a].status = "NEW" /\ row'[a].version = 0
            /\ \A b \in Alert : NaturalKey[b] = NaturalKey[a] => row[b].status = "ABSENT"
        /\ pc'[t] \in {"announce", "ack"}
        /\ pc'[t] = "announce" => row[a].status = "ABSENT"
    BY <1>3, CommitEffect
  <1>5. \A u \in Thread : /\ Current(u)' = Current(u) /\ Owns(u)' = Owns(u)
                          /\ u # t => pc'[u] = pc[u]
    BY <1>1 DEF CommitTransaction, Current, Record, Owns, IInv, TypeOK
  <1>6. \A b \in Alert : row[b].status # "ABSENT" => row'[b].status # "ABSENT"
    BY <1>4
  <1>7. OffsetsOrdered' /\ HandledBelowPosition'
    BY <1>1, <1>6, QueueKept DEF Grows, IInv, OffsetsOrdered, TypeOK
  <1>8. \A u \in Thread : pc[u] # "idle" => Current(u).alert \in Alert
    BY CurrentIsMessage DEF IInv, ThreadInv, HoldsRecord
  <1>9. ASSUME NEW u \in Thread PROVE HoldsRecord(u)'
    <2>1. HoldsRecord(u)
      BY DEF IInv, ThreadInv
    <2>2. CASE u = t
      BY <1>1, <1>2, <1>3, <1>4, <1>5, <2>2 DEF HoldsRecord
    <2>3. CASE u # t
      BY <1>1, <1>5, <1>6, <1>8, <2>1, <2>3 DEF HoldsRecord
    <2> QED
      BY <2>2, <2>3
  <1>10. ASSUME NEW u \in Thread PROVE StatementCurrent(u)'
    <2>1. CASE u = t
      BY <1>4, <2>1 DEF StatementCurrent
    <2>2. CASE u # t /\ pc[u] # "commit"
      BY <1>5, <2>2 DEF StatementCurrent
    <2>3. CASE u # t /\ pc[u] = "commit"
      <3>1. NaturalKey[Current(u).alert] # NaturalKey[a] /\ Current(u).alert \in Alert
        BY <1>1, <1>3, <1>8, <2>3 DEF IInv, LocksExclusive
      <3>2. task[u].effect = EffectOn(Current(u).alert) /\ ~Refused(Current(u))
        BY <2>3 DEF IInv, ThreadInv, StatementCurrent
      <3>3. \A b \in Alert : NaturalKey[b] = NaturalKey[Current(u).alert] => row'[b] = row[b]
        BY <1>4, <3>1
      <3>4. row'[Current(u).alert] = row[Current(u).alert]
        BY <3>1, <3>3
      <3>5. task'[u].effect = EffectOn(Current(u).alert)'
        BY <1>1, <1>5, <3>2, <3>4 DEF EffectOn
      <3>6. ~Refused(Current(u))'
        BY <1>5, <3>2, <3>3, <3>4 DEF Refused
      <3> QED
        BY <3>5, <3>6 DEF StatementCurrent
    <2> QED
      BY <2>1, <2>2, <2>3
  <1>11. LocksExclusive'
    BY <1>4, <1>5 DEF IInv, LocksExclusive
  <1>12. AnnouncesOnce'
    <2>1. pc'[t] = "announce" => announced[a] = 0
      BY <1>4 DEF IInv, AnnouncedAtMostOnce, TypeOK
    <2>2. ASSUME NEW u \in Thread, u # t, pc[u] = "announce", pc'[t] = "announce"
          PROVE  Current(u).alert # a
      BY <1>4, <2>2 DEF IInv, ThreadInv, HoldsRecord
    <2> QED
      BY <1>1, <1>3, <1>5, <2>1, <2>2 DEF IInv, AnnouncesOnce
  <1>13. AnnouncedAtMostOnce'
    <2> SUFFICES ASSUME NEW b \in Alert
                 PROVE  announced'[b] <= IF row'[b].status = "ABSENT" THEN 0 ELSE 1
      BY DEF AnnouncedAtMostOnce
    <2>1. /\ announced'[b] = announced[b] /\ announced[b] \in Nat
          /\ announced[b] <= IF row[b].status = "ABSENT" THEN 0 ELSE 1
      BY <1>1 DEF IInv, AnnouncedAtMostOnce, TypeOK
    <2>2. row'[b].status = "ABSENT" => row[b].status = "ABSENT"
      BY <1>6
    <2> QED
      BY <2>1, <2>2
  <1>14. \A b \in Alert : /\ row'[b].version = IF row[b].status = "ABSENT" THEN 0 ELSE row[b].version
                          /\ row'[b].status = "ACKNOWLEDGED" <=> row[b].status = "ACKNOWLEDGED"
    <2>1. row \in [Alert -> Row] /\ VersionCounts
      BY DEF IInv, TypeOK
    <2> QED
      BY <1>4, <2>1 DEF Row, Status, VersionCounts
  <1>15. VersionCounts' /\ AuditMatchesStatus'
    BY <1>1, <1>14 DEF IInv, VersionCounts, AuditMatchesStatus
  <1>16. LoadedFresh'
    <2>1. ASSUME NEW q \in Operator, request[q].phase = "loaded"
          PROVE  request[q].version = 0 /\ row'[request[q].alert].status # "ABSENT"
      <3>1. request[q].version = 0 /\ row[request[q].alert].status # "ABSENT"
        BY <2>1 DEF IInv, LoadedFresh
      <3>2. request[q].alert \in Alert
        BY DEF IInv, TypeOK, Request
      <3> QED
        BY <1>6, <3>1, <3>2
    <2> QED
      BY <1>1, <2>1 DEF LoadedFresh
  <1>17. OneAlertPerWindow'
    <2> SUFFICES ASSUME NEW x \in Alert, NEW y \in Alert, NaturalKey[x] = NaturalKey[y],
                        row'[x].status # "ABSENT", row'[y].status # "ABSENT"
                 PROVE  x = y
      BY DEF OneAlertPerWindow
    <2>1. CASE row[a].status = "ABSENT" /\ (x = a \/ y = a)
      BY <1>4, <2>1
    <2>2. CASE x # a /\ y # a
      BY <1>4, <2>2 DEF IInv, OneAlertPerWindow
    <2>3. CASE row[a].status # "ABSENT"
      <3>1. row[x].status # "ABSENT" /\ row[y].status # "ABSENT"
        BY <1>4, <2>3
      <3> QED
        BY <3>1 DEF IInv, OneAlertPerWindow
    <2> QED
      BY <2>1, <2>2, <2>3
  <1> QED
    BY <1>7, <1>9, <1>10, <1>11, <1>12, <1>13, <1>15, <1>16, <1>17 DEF Untyped, ThreadInv

\* Announced or not, the thread goes on to acknowledge the record.
LEMMA StepAnnounce ==
    ASSUME IInv, TypeOK', NEW t \in Thread, AnnounceCreated(t) \/ AnnounceFails(t)
    PROVE  Untyped'
  <1>1. /\ UNCHANGED <<log, committed, position, owner, task, row, audit, request>>
        /\ UNCHANGED <<dlqPending, dlq, dlqLost>>
        /\ pc[t] = "announce" /\ pc' = [pc EXCEPT ![t] = "ack"]
        /\ \/ announced' = [announced EXCEPT ![Current(t).alert] = @ + 1]
           \/ announced' = announced
    BY DEF AnnounceCreated, AnnounceFails, topicVars, groupVars, dbVars, dlqVars
  <1>2. pc'[t] = "ack" /\ \A u \in Thread : u # t => pc'[u] = pc[u]
    BY <1>1 DEF IInv, TypeOK
  <1>3. \A u \in Thread : /\ Current(u)' = Current(u) /\ Owns(u)' = Owns(u)
    BY <1>1 DEF Current, Record, Owns
  <1>4. PICK a \in Alert : a = Current(t).alert
    BY <1>1, CurrentIsMessage DEF IInv, ThreadInv, HoldsRecord
  <1>5. announced[a] = 0 /\ row[a].status # "ABSENT"
    BY <1>1, <1>4 DEF IInv, AnnouncesOnce, ThreadInv, HoldsRecord
  <1>6. /\ announced'[a] \in {0, 1}
        /\ \A b \in Alert : b # a => announced'[b] = announced[b]
    BY <1>1, <1>4, <1>5 DEF IInv, TypeOK
  <1>7. ASSUME NEW u \in Thread PROVE HoldsRecord(u)' /\ StatementCurrent(u)'
    <2>1. HoldsRecord(u) /\ StatementCurrent(u)
      BY DEF IInv, ThreadInv
    <2>2. HoldsRecord(u)'
      BY <1>1, <1>2, <1>3, <2>1 DEF HoldsRecord
    <2>3. StatementCurrent(u)'
      BY <1>1, <1>2, <1>3, <2>1 DEF StatementCurrent, EffectOn, Refused
    <2> QED
      BY <2>2, <2>3
  <1>8. LocksExclusive'
    BY <1>2, <1>3 DEF IInv, LocksExclusive
  <1>9. AnnouncesOnce'
    <2>1. ASSUME NEW u \in Thread, pc'[u] = "announce"
          PROVE  Current(u).alert \in Alert /\ Current(u).alert # a
      BY <1>1, <1>2, <1>4, <2>1, CurrentIsMessage
      DEF IInv, AnnouncesOnce, ThreadInv, HoldsRecord
    <2> QED
      BY <1>2, <1>3, <1>6, <2>1 DEF IInv, AnnouncesOnce
  <1>10. AnnouncedAtMostOnce'
    BY <1>1, <1>5, <1>6 DEF IInv, AnnouncedAtMostOnce
  <1>11. OffsetsOrdered' /\ HandledBelowPosition'
    BY SMTT(30), <1>1, QueueKept DEF Grows, IInv, OffsetsOrdered, TypeOK
  <1>12. VersionCounts' /\ AuditMatchesStatus' /\ LoadedFresh' /\ OneAlertPerWindow'
    BY <1>1 DEF IInv, VersionCounts, AuditMatchesStatus, LoadedFresh, OneAlertPerWindow
  <1> QED
    BY <1>7, <1>8, <1>9, <1>10, <1>11, <1>12 DEF Untyped, ThreadInv

LEMMA StepLoadAlert ==
    ASSUME IInv, TypeOK', NEW q \in Operator, NEW a \in Alert, LoadAlert(q, a)
    PROVE  Untyped'
  <1>1. /\ UNCHANGED <<log, committed, position, owner, pc, task, row, audit, announced>>
        /\ UNCHANGED <<dlqPending, dlq, dlqLost>>
        /\ row[a].status = "NEW"
        /\ request' = [request EXCEPT ![q] = [phase |-> "loaded", alert |-> a,
                                         rev |-> row[a].rev, version |-> row[a].version]]
    BY DEF LoadAlert, CanAcknowledge, topicVars, groupVars, threadVars, dbVars, dlqVars
  <1>2. row[a].version = 0
    BY <1>1 DEF IInv, VersionCounts
  <1>3. LoadedFresh'
    BY <1>1, <1>2 DEF IInv, LoadedFresh, TypeOK
  <1>4. AnnouncedAtMostOnce' /\ VersionCounts' /\ AuditMatchesStatus' /\ OneAlertPerWindow'
    BY <1>1 DEF IInv, AnnouncedAtMostOnce, VersionCounts, AuditMatchesStatus,
                OneAlertPerWindow
  <1>5. OffsetsOrdered' /\ HandledBelowPosition'
    BY <1>1, QueueKept DEF Grows, IInv, OffsetsOrdered, TypeOK
  <1> QED
    BY <1>1, <1>3, <1>4, <1>5, ThreadsKept DEF Untyped

LEMMA StepRejectAck ==
    ASSUME IInv, TypeOK', NEW q \in Operator, RejectAck(q) PROVE Untyped'
  <1>1. /\ UNCHANGED <<log, committed, position, owner, pc, task, row, audit, announced>>
        /\ UNCHANGED <<dlqPending, dlq, dlqLost>>
        /\ request' = [request EXCEPT ![q] = NoRequest]
    BY DEF RejectAck, topicVars, groupVars, threadVars, dbVars, dlqVars
  <1>2. \A r \in Operator : request'[r] = request[r] \/ request'[r].phase # "loaded"
    BY <1>1 DEF NoRequest, IInv, TypeOK
  <1>3. OffsetsOrdered' /\ HandledBelowPosition'
    BY <1>1, QueueKept DEF Grows, IInv, OffsetsOrdered, TypeOK
  <1> QED
    BY <1>1, <1>2, <1>3, TableKept, ThreadsKept DEF Untyped

\* The version check admits one acknowledgement only, of a row still NEW.
LEMMA AckOfNew ==
    ASSUME IInv, NEW q \in Operator, CommitAck(q)
    PROVE  /\ request[q].alert \in Alert
           /\ row[request[q].alert].status = "NEW"
           /\ row' = [row EXCEPT ![request[q].alert] = AckedRow(q)]
           /\ AckedRow(q).status = "ACKNOWLEDGED"
           /\ AckedRow(q).version = 1
  <1>1. request[q].alert \in Alert /\ row[request[q].alert] \in Row
    BY DEF IInv, TypeOK, Request
  <1>2. request[q].version = 0 /\ row[request[q].alert].status # "ABSENT"
    BY DEF CommitAck, IInv, LoadedFresh
  <1>3. row[request[q].alert].version = 0
    BY <1>2 DEF CommitAck, SameVersion
  <1>4. row[request[q].alert].status # "ACKNOWLEDGED"
    BY <1>1, <1>3 DEF IInv, VersionCounts
  <1>5. row' = [row EXCEPT ![request[q].alert] = AckedRow(q)]
    BY DEF CommitAck
  <1> QED
    BY <1>1, <1>2, <1>4, <1>5 DEF AckedRow, Row, Status

LEMMA StepCommitAck ==
    ASSUME IInv, TypeOK', NEW q \in Operator, CommitAck(q) PROVE Untyped'
  <1>1. /\ UNCHANGED <<log, committed, position, owner, pc, task, announced>>
        /\ UNCHANGED <<dlqPending, dlq, dlqLost>>
    BY DEF CommitAck, topicVars, groupVars, threadVars, dlqVars
  <1>2. PICK a \in Alert : a = request[q].alert
    BY AckOfNew
  <1>3. /\ row[a].status = "NEW"
        /\ row'[a].status = "ACKNOWLEDGED" /\ row'[a].version = 1
        /\ \A b \in Alert : b # a => row'[b] = row[b]
    BY <1>2, AckOfNew DEF IInv, TypeOK
  <1>4. /\ audit'[a] = audit[a] + 1
        /\ \A b \in Alert : b # a => audit'[b] = audit[b]
    BY <1>2 DEF CommitAck, IInv, TypeOK
  <1>5. \A t \in Thread : pc[t] = "commit" => Current(t).alert # a
    BY <1>2 DEF CommitAck, RowFree, InFlight
  <1>6. \A b \in Alert : row'[b].status = "ABSENT" <=> row[b].status = "ABSENT"
    BY <1>3
  <1>7. \A t \in Thread : Current(t)' = Current(t) /\ Owns(t)' = Owns(t)
    BY <1>1 DEF Current, Record, Owns
  <1>8. ASSUME NEW t \in Thread PROVE HoldsRecord(t)' /\ StatementCurrent(t)'
    <2>1. HoldsRecord(t) /\ StatementCurrent(t)
      BY DEF IInv, ThreadInv
    <2>2. CASE pc[t] = "idle"
      BY <1>1, <2>2 DEF HoldsRecord, StatementCurrent
    <2>3. CASE pc[t] # "idle"
      <3>1. Current(t).alert \in Alert
        BY <2>1, <2>3, CurrentIsMessage DEF HoldsRecord, IInv
      <3>2. HoldsRecord(t)'
        BY <1>1, <1>6, <1>7, <2>1, <3>1 DEF HoldsRecord
      <3>3. pc[t] = "commit" => row'[Current(t).alert] = row[Current(t).alert]
        BY <1>3, <1>5, <3>1
      <3>4. pc[t] = "commit" => task'[t].effect = EffectOn(Current(t).alert)'
        BY <1>1, <1>7, <2>1, <3>3 DEF StatementCurrent, EffectOn
      <3>5. pc[t] = "commit" => ~Refused(Current(t))'
        BY <1>6, <1>7, <2>1, <3>1 DEF StatementCurrent, Refused
      <3> QED
        BY <1>1, <3>2, <3>4, <3>5 DEF StatementCurrent
    <2> QED
      BY <2>2, <2>3
  <1>9. LocksExclusive' /\ AnnouncesOnce'
    BY <1>1, <1>7 DEF IInv, LocksExclusive, AnnouncesOnce
  <1>10. AnnouncedAtMostOnce'
    BY <1>1, <1>6 DEF IInv, AnnouncedAtMostOnce
  <1>11. VersionCounts' /\ AuditMatchesStatus'
    <2>1. audit[a] = 0
      BY <1>3 DEF IInv, AuditMatchesStatus
    <2> QED
      BY <1>3, <1>4, <2>1 DEF IInv, VersionCounts, AuditMatchesStatus
  <1>12. LoadedFresh'
    <2>1. \A r \in Operator : request'[r].phase = "loaded" => request'[r] = request[r]
      BY DEF CommitAck, NoRequest, IInv, TypeOK
    <2>2. \A r \in Operator : request[r].alert \in Alert
      BY DEF IInv, TypeOK, Request
    <2> QED
      BY <1>6, <2>1, <2>2 DEF IInv, LoadedFresh
  <1>13. OneAlertPerWindow'
    BY <1>6 DEF IInv, OneAlertPerWindow
  <1>14. OffsetsOrdered' /\ HandledBelowPosition'
    BY SMTT(30), <1>1, <1>6, QueueKept DEF Grows, IInv, OffsetsOrdered, TypeOK
  <1> QED
    BY <1>8, <1>9, <1>10, <1>11, <1>12, <1>13, <1>14 DEF Untyped, ThreadInv

LEMMA StepProducer ==
    ASSUME IInv, TypeOK', Producer PROVE Untyped'
  <1>1. /\ UNCHANGED <<log, committed, position, owner, pc, task, row, audit, announced>>
        /\ request' = request
    BY DEF Producer, DeadLetterDelivered, DeadLetterDropped, topicVars, groupVars,
           threadVars, dbVars
  <1>2. dlqPending \cup dlq \cup dlqLost \subseteq dlqPending' \cup dlq' \cup dlqLost'
    BY DEF Producer, DeadLetterDelivered, DeadLetterDropped
  <1>3. OffsetsOrdered' /\ HandledBelowPosition'
    BY <1>1, <1>2, QueueKept DEF Grows, IInv, OffsetsOrdered, TypeOK
  <1> QED
    BY <1>1, <1>3, TableKept, ThreadsKept DEF Untyped

\* The new owner starts again from the committed offset; the thread that lost
\* the partition keeps the record it works on, but no position.
LEMMA StepRebalance ==
    ASSUME IInv, TypeOK', NEW p \in Partition, NEW t \in Thread, Rebalance(p, t)
    PROVE  Untyped'
  <1>1. /\ UNCHANGED <<log, committed, pc, task, row, audit, announced, request>>
        /\ UNCHANGED <<dlqPending, dlq, dlqLost>>
        /\ pc[t] = "idle"
        /\ owner' = [owner EXCEPT ![p] = t]
        /\ position' = [position EXCEPT ![p] = committed[p]]
    BY DEF Rebalance, topicVars, threadVars, dbVars, dlqVars
  <1>2. OffsetsOrdered' /\ HandledBelowPosition'
    BY SMTT(30), <1>1, QueueKept DEF Grows, IInv, OffsetsOrdered, TypeOK
  <1>3. ASSUME NEW u \in Thread, pc[u] # "idle", Owns(u)'
        PROVE  Owns(u) /\ position'[task[u].part] = position[task[u].part]
    <2>1. task[u].part \in Partition /\ u # t
      BY <1>1, <1>3 DEF IInv, TypeOK, Task
    <2>2. task[u].part # p
      BY <1>1, <1>3, <2>1 DEF Owns, IInv, TypeOK
    <2> QED
      BY <1>1, <1>3, <2>1, <2>2 DEF Owns, IInv, TypeOK
  <1>4. \A u \in Thread : Current(u)' = Current(u)
    BY <1>1 DEF Current, Record
  <1>5. ASSUME NEW u \in Thread PROVE HoldsRecord(u)' /\ StatementCurrent(u)'
    <2>1. HoldsRecord(u) /\ StatementCurrent(u)
      BY DEF IInv, ThreadInv
    <2>2. HoldsRecord(u)'
      BY <1>1, <1>3, <1>4, <2>1 DEF HoldsRecord
    <2>3. StatementCurrent(u)'
      BY <1>1, <1>4, <2>1 DEF StatementCurrent, EffectOn, Refused
    <2> QED
      BY <2>2, <2>3
  <1>6. LocksExclusive' /\ AnnouncesOnce'
    BY <1>1, <1>4 DEF IInv, LocksExclusive, AnnouncesOnce
  <1> QED
    BY <1>1, <1>2, <1>5, <1>6, TableKept DEF Untyped, ThreadInv

LEMMA StepCrash ==
    ASSUME IInv, TypeOK', Crash PROVE Untyped'
  <1>1. /\ UNCHANGED <<log, committed, owner, row, audit, announced>>
        /\ position' = committed
        /\ pc' = [t \in Thread |-> "idle"]
        /\ request' = [q \in Operator |-> NoRequest]
    BY DEF Crash, topicVars, dbVars
  <1>2. dlqPending \cup dlq \cup dlqLost \subseteq dlqPending' \cup dlq' \cup dlqLost'
    BY DEF Crash
  <1>3. OffsetsOrdered' /\ HandledBelowPosition'
    BY <1>1, <1>2, QueueKept DEF Grows, IInv, OffsetsOrdered, TypeOK
  <1>4. ThreadInv' /\ LocksExclusive' /\ AnnouncesOnce'
    BY <1>1 DEF ThreadInv, HoldsRecord, StatementCurrent, LocksExclusive, AnnouncesOnce
  <1>5. \A q \in Operator : request'[q].phase # "loaded"
    BY <1>1 DEF NoRequest
  <1> QED
    BY <1>1, <1>3, <1>4, <1>5, TableKept DEF Untyped

-----------------------------------------------------------------------------
(* The theorems *)

LEMMA InitIInv == Init => IInv
  <1> SUFFICES ASSUME Init PROVE IInv
    OBVIOUS
  <1>1. TypeOK
    BY TypeInit
  <1>2. OffsetsOrdered /\ HandledBelowPosition
    BY DEF Init, OffsetsOrdered, HandledBelowPosition
  <1>3. ThreadInv /\ LocksExclusive /\ AnnouncesOnce
    BY DEF Init, ThreadInv, HoldsRecord, StatementCurrent, LocksExclusive, AnnouncesOnce
  <1>4. /\ AnnouncedAtMostOnce /\ VersionCounts /\ AuditMatchesStatus
        /\ LoadedFresh /\ OneAlertPerWindow
    BY DEF Init, NoRow, NoRequest, AnnouncedAtMostOnce, VersionCounts, AuditMatchesStatus,
           LoadedFresh, OneAlertPerWindow
  <1> QED
    BY <1>1, <1>2, <1>3, <1>4 DEF IInv

LEMMA StepListener ==
    ASSUME IInv, TypeOK', NEW t \in Thread, Listener(t) \/ ListenerFault(t)
    PROVE  Untyped'
  BY StepReceive, StepRejectRecord, StepUpsert, StepGivesBack, StepCommitTransaction,
     StepAnnounce, StepAcknowledge DEF Listener, ListenerFault

LEMMA StepIInv == IInv /\ [Next]_vars => IInv'
  <1> SUFFICES ASSUME IInv, [Next]_vars PROVE IInv'
    OBVIOUS
  <1>1. TypeOK'
    BY TypeStep DEF IInv
  <1>2. Untyped'
    <2>1. CASE UNCHANGED vars
      <3>1. /\ UNCHANGED <<log, committed, position, owner, pc, task, row, audit, announced>>
            /\ UNCHANGED <<request, dlqPending, dlq, dlqLost>>
        BY <2>1 DEF vars, topicVars, groupVars, threadVars, dbVars, dlqVars
      <3>2. OffsetsOrdered' /\ HandledBelowPosition'
        BY <1>1, <3>1, QueueKept DEF Grows, IInv, OffsetsOrdered, TypeOK
      <3> QED
        BY <3>1, <3>2, TableKept, ThreadsKept DEF Untyped
    <2>2. CASE \E p \in Partition : Publish(p)
      BY <1>1, <2>2, StepPublish
    <2>3. CASE \E t \in Thread : Listener(t) \/ ListenerFault(t)
      BY <1>1, <2>3, StepListener
    <2>4. CASE Producer
      BY <1>1, <2>4, StepProducer
    <2>5. CASE \E q \in Operator : Web(q)
      BY <1>1, <2>5, StepLoadAlert, StepCommitAck, StepRejectAck DEF Web
    <2>6. CASE \E p \in Partition, t \in Thread : Rebalance(p, t)
      BY <1>1, <2>6, StepRebalance
    <2>7. CASE Crash
      BY <1>1, <2>7, StepCrash
    <2> QED
      BY <2>1, <2>2, <2>3, <2>4, <2>5, <2>6, <2>7 DEF Next
  <1> QED
    BY <1>1, <1>2 DEF IInv, Untyped

\* Every reachable state satisfies the inductive invariant.
THEOREM Invariance == Spec => []IInv
  <1> QED
    BY InitIInv, StepIInv, PTL DEF Spec

\* Types hold in every reachable state.
THEOREM TypeCorrect == Spec => []TypeOK
  <1>1. IInv => TypeOK
    BY DEF IInv
  <1> QED
    BY <1>1, Invariance, PTL

\* Nothing below a committed offset is missing from the table or from the
\* dead letter producer: the offset is acknowledged after the database.
THEOREM NothingLost == Spec => []CommittedMeansHandled
  <1>1. IInv => CommittedMeansHandled
    <2> SUFFICES ASSUME IInv, NEW p \in Partition, NEW o \in 0 .. committed[p] - 1
                 PROVE  Handled(p, o)
      BY DEF CommittedMeansHandled
    <2>1. o \in 0 .. position[p] - 1
      BY DEF IInv, TypeOK, OffsetsOrdered
    <2> QED
      BY <2>1 DEF IInv, HandledBelowPosition
  <1> QED
    BY <1>1, Invariance, PTL

\* An acknowledged alert has exactly one audit row and no other alert has one.
THEOREM AuditExact == Spec => []AuditMatchesStatus
  <1>1. IInv => AuditMatchesStatus
    BY DEF IInv
  <1> QED
    BY <1>1, Invariance, PTL

\* A new alert is announced to the dashboards once at most, after its commit.
THEOREM AnnouncedOnce == Spec => []AnnouncedAtMostOnce
  <1>1. IInv => AnnouncedAtMostOnce
    BY DEF IInv
  <1> QED
    BY <1>1, Invariance, PTL

\* Two threads never store two alerts for one window.
THEOREM WindowUnique == Spec => []OneAlertPerWindow
  <1>1. IInv => OneAlertPerWindow
    BY DEF IInv
  <1> QED
    BY <1>1, Invariance, PTL

-----------------------------------------------------------------------------
(* What a step does to a row *)

\* Three actions change the table, the audit trail or the announcements.
LEMMA TableSteps ==
    ASSUME [Next]_vars
    PROVE  \/ UNCHANGED <<row, audit, announced>>
           \/ \E t \in Thread : CommitTransaction(t) \/ AnnounceCreated(t)
           \/ \E q \in Operator : CommitAck(q)
  BY DEF Next, vars, dbVars, Publish, Listener, ListenerFault, Receive, RejectRecord,
         Upsert, UpsertRefused, Acknowledge, RejectFails, AnnounceFails, ListenerFails,
         Producer, DeadLetterDelivered, DeadLetterDropped, Web, LoadAlert, RejectAck,
         Rebalance, Crash

LEMMA FinalStep ==
    ASSUME IInv, [Next]_vars
    PROVE  \A a \in Alert : row[a].status = "ACKNOWLEDGED" => row'[a] = row[a]
  <1>1. ASSUME NEW t \in Thread, CommitTransaction(t)
        PROVE  \A a \in Alert : row[a].status = "ACKNOWLEDGED" => row'[a] = row[a]
    <2>1. PICK a \in Alert : a = Current(t).alert
      BY <1>1, CurrentIsMessage DEF IInv, ThreadInv, HoldsRecord, CommitTransaction
    <2>2. TypeOK'
      BY TypeStep DEF IInv
    <2> QED
      BY <1>1, <2>1, <2>2, CommitEffect
  <1>2. ASSUME NEW q \in Operator, CommitAck(q)
        PROVE  \A a \in Alert : row[a].status = "ACKNOWLEDGED" => row'[a] = row[a]
    BY <1>2, AckOfNew DEF IInv, TypeOK
  <1>3. \A t \in Thread : AnnounceCreated(t) => UNCHANGED row
    BY DEF AnnounceCreated, dbVars
  <1> QED
    BY <1>1, <1>2, <1>3, TableSteps

\* What an operator has handled is never rewritten or reopened.
THEOREM AcknowledgedStays == Spec => AcknowledgedIsFinal
  <1>1. IInv /\ [Next]_vars =>
            [\A a \in Alert : row[a].status = "ACKNOWLEDGED" => row'[a] = row[a]]_vars
    BY FinalStep
  <1> QED
    BY <1>1, Invariance, PTL DEF Spec, AcknowledgedIsFinal

-----------------------------------------------------------------------------
(* Refinement of the ledger *)

LEMMA LedgerInit == Init => Ledger!Init
  BY DEF Init, Ledger!Init, NoRow

\* A first insertion records the alert, any other commit stutters.
LEMMA CommitRefines ==
    ASSUME IInv, TypeOK', NEW t \in Thread, CommitTransaction(t)
    PROVE  Ledger!Next \/ UNCHANGED Ledger!ledgerVars
  <1>1. PICK a \in Alert : a = Current(t).alert
    BY CurrentIsMessage DEF IInv, ThreadInv, HoldsRecord, CommitTransaction
  <1>2. /\ \A b \in Alert : b # a => row'[b] = row[b]
        /\ row[a].status = "ACKNOWLEDGED" => row'[a] = row[a]
        /\ row[a].status = "NEW" => row'[a].status = "NEW"
        /\ row[a].status = "ABSENT" =>
            /\ row'[a].status = "NEW"
            /\ \A b \in Alert : NaturalKey[b] = NaturalKey[a] => row[b].status = "ABSENT"
    BY <1>1, CommitEffect
  <1>3. UNCHANGED <<audit, announced>>
    BY DEF CommitTransaction
  <1>4. row[a].status \in Status
    BY DEF IInv, TypeOK, Row
  <1>5. CASE row[a].status = "ABSENT"
    <2>1. [b \in Alert |-> row[b].status]' =
            [[b \in Alert |-> row[b].status] EXCEPT ![a] = "NEW"]
      BY <1>2, <1>5
    <2>2. Ledger!Record(a)
      BY <1>2, <1>3, <1>5, <2>1 DEF Ledger!Record
    <2> QED
      BY <2>2 DEF Ledger!Next
  <1>6. CASE row[a].status # "ABSENT"
    <2>1. \A b \in Alert : row'[b].status = row[b].status
      BY <1>2, <1>4, <1>6 DEF Status
    <2> QED
      BY <1>3, <2>1 DEF Ledger!ledgerVars
  <1> QED
    BY <1>5, <1>6

LEMMA AnnounceRefines ==
    ASSUME IInv, NEW t \in Thread, AnnounceCreated(t)
    PROVE  Ledger!Next
  <1>1. PICK a \in Alert : a = Current(t).alert
    BY CurrentIsMessage DEF IInv, ThreadInv, HoldsRecord, AnnounceCreated
  <1>2. announced[a] = 0 /\ row[a].status # "ABSENT"
    BY <1>1 DEF AnnounceCreated, IInv, AnnouncesOnce, ThreadInv, HoldsRecord
  <1>3. announced' = [announced EXCEPT ![a] = 1] /\ UNCHANGED <<row, audit>>
    BY <1>1, <1>2 DEF AnnounceCreated, IInv, TypeOK, dbVars
  <1>4. Ledger!Announce(a)
    BY <1>2, <1>3 DEF Ledger!Announce
  <1> QED
    BY <1>4 DEF Ledger!Next

LEMMA AckRefines ==
    ASSUME IInv, NEW q \in Operator, CommitAck(q)
    PROVE  Ledger!Next
  <1>1. PICK a \in Alert : a = request[q].alert
    BY AckOfNew
  <1>2. row[a].status = "NEW" /\ AckedRow(q).status = "ACKNOWLEDGED"
    BY <1>1, AckOfNew
  <1>3. row' = [row EXCEPT ![a] = AckedRow(q)]
    BY <1>1, AckOfNew
  <1>4. [b \in Alert |-> row[b].status]' =
            [[b \in Alert |-> row[b].status] EXCEPT ![a] = "ACKNOWLEDGED"]
    BY <1>2, <1>3 DEF IInv, TypeOK
  <1>5. audit' = [audit EXCEPT ![a] = @ + 1] /\ UNCHANGED announced
    BY <1>1 DEF CommitAck
  <1>6. Ledger!Acknowledge(a)
    BY <1>2, <1>4, <1>5 DEF Ledger!Acknowledge
  <1> QED
    BY <1>6 DEF Ledger!Next

LEMMA LedgerStep == IInv /\ [Next]_vars => [Ledger!Next]_(Ledger!ledgerVars)
  <1> SUFFICES ASSUME IInv, [Next]_vars
               PROVE  Ledger!Next \/ UNCHANGED Ledger!ledgerVars
    OBVIOUS
  <1>1. TypeOK'
    BY TypeStep DEF IInv
  <1>2. CASE UNCHANGED <<row, audit, announced>>
    BY <1>2 DEF Ledger!ledgerVars
  <1>3. CASE \E t \in Thread : CommitTransaction(t) \/ AnnounceCreated(t)
    BY <1>1, <1>3, CommitRefines, AnnounceRefines
  <1>4. CASE \E q \in Operator : CommitAck(q)
    BY <1>4, AckRefines
  <1> QED
    BY <1>2, <1>3, <1>4, TableSteps

\* Crashes, rebalances, redeliveries and racing operators included, the
\* service implements the ledger of AlertLedger.
THEOREM Refinement == Spec => ImplementsLedger
  <1> QED
    BY LedgerInit, LedgerStep, Invariance, PTL DEF Spec, ImplementsLedger, Ledger!Spec
=============================================================================
