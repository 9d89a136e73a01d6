--------------------------- MODULE AlertIngestion ---------------------------
(***************************************************************************)
(* Ingestion of the "alerts" topic by alert-service: consumer threads read *)
(* partitions, write PostgreSQL in one transaction per record, announce    *)
(* new alerts after the commit and acknowledge the offset last; malformed  *)
(* records go to the dead letter topic; operators acknowledge alerts       *)
(* concurrently through the REST API.                                      *)
(*                                                                         *)
(* Abstracted: the payload of an alert is its revision (score, severity,   *)
(* contributors, ...).  The event sequence and the SSE clients belong to   *)
(* AlertStream.  A batch returned by one poll is its records one by one.   *)
(***************************************************************************)
EXTENDS Integers, Sequences, FiniteSets

CONSTANTS
    Partition,      \* partitions of the alerts topic
    Thread,         \* listener threads of the container
    Operator,       \* concurrent acknowledge requests
    Alert,          \* alert identifiers
    Rev,            \* revisions of an alert's payload
    PartitionOf,    \* [Alert -> Partition]: the record key is the machine
    Machine,        \* machine codes
    MachineOf,      \* [Alert -> Machine]
    NaturalKey,     \* [Alert -> window and model the alert stands for]
    Kinds,          \* the kinds of record the topic may carry
    MaxLog,         \* bound: records per partition
    MaxFaults       \* bound: crashes, rebalances, failed steps and sends

ASSUME PartitionAssumption ==
    /\ Partition # {}
    /\ PartitionOf \in [Alert -> Partition]
ASSUME AlertAssumption == Alert # {} /\ Rev # {}
ASSUME MachineAssumption == MachineOf \in [Alert -> Machine]
ASSUME KindAssumption == Kinds \subseteq {"good", "unreadable", "unstorable"}
ASSUME BoundAssumption == MaxLog \in Nat /\ MaxFaults \in Nat

VARIABLES
    log,         \* [Partition -> Seq(Message)], the topic
    committed,   \* [Partition -> Nat], committed offset: records below are done
    owner,       \* [Partition -> Thread], the group's assignment
    position,    \* [Partition -> Nat], next offset the owner handles, minus one
    pc,          \* [Thread -> step of the listener]
    task,        \* [Thread -> the record and the statement's effect]
    row,         \* [Alert -> Row], table alert
    machines,    \* table machine
    audit,       \* [Alert -> Nat], rows of alert_acknowledgement
    request,     \* [Operator -> the alert loaded for acknowledgement]
    announced,   \* [Alert -> Nat], "alert.created" broadcasts
    dlqPending,  \* dead letters handed to the producer, not yet acknowledged
    dlq,         \* dead letters on the dead letter topic
    dlqLost,     \* dead letters the producer gave up
    faults       \* faults so far

topicVars == <<log>>
groupVars == <<committed, owner, position>>
threadVars == <<pc, task>>
dbVars == <<row, machines, audit>>
dlqVars == <<dlqPending, dlq, dlqLost>>
vars == <<topicVars, groupVars, threadVars, dbVars, request, announced,
          dlqVars, faults>>

-----------------------------------------------------------------------------
(* Types *)

Message == [kind : {"good", "unreadable", "unstorable"}, alert : Alert, rev : Rev]
Status == {"ABSENT", "NEW", "ACKNOWLEDGED"}
Row == [status : Status, rev : Rev, version : Nat]
Effects == {"insert", "revise", "keep"}
Task == [part : Partition, off : Nat, effect : Effects]
Request == [phase : {"idle", "loaded"}, alert : Alert, rev : Rev, version : Nat]
DeadLetter == Partition \X Nat

NoTask == [part |-> CHOOSE p \in Partition : TRUE, off |-> 0, effect |-> "keep"]
NoRow == [status |-> "ABSENT", rev |-> CHOOSE r \in Rev : TRUE, version |-> 0]
NoRequest == [phase |-> "idle", alert |-> CHOOSE a \in Alert : TRUE,
              rev |-> CHOOSE r \in Rev : TRUE, version |-> 0]

TypeOK ==
    /\ log \in [Partition -> Seq(Message)]
    /\ committed \in [Partition -> Nat]
    /\ owner \in [Partition -> Thread]
    /\ position \in [Partition -> Nat]
    /\ pc \in [Thread -> {"idle", "reject", "ingest", "commit", "announce", "ack"}]
    /\ task \in [Thread -> Task]
    /\ row \in [Alert -> Row]
    /\ machines \subseteq Machine
    /\ audit \in [Alert -> Nat]
    /\ request \in [Operator -> Request]
    /\ announced \in [Alert -> Nat]
    /\ dlqPending \subseteq DeadLetter
    /\ dlq \subseteq DeadLetter
    /\ dlqLost \subseteq DeadLetter
    /\ faults \in Nat

-----------------------------------------------------------------------------
(* The record a thread works on, offsets counted from 0 as Kafka does *)

Record(p, o) == log[p][o + 1]
Current(t) == Record(task[t].part, task[t].off)
Owns(t) == owner[task[t].part] = t

Init ==
    /\ log = [p \in Partition |-> <<>>]
    /\ committed = [p \in Partition |-> 0]
    /\ owner \in [Partition -> Thread]
    /\ position = [p \in Partition |-> 0]
    /\ pc = [t \in Thread |-> "idle"]
    /\ task = [t \in Thread |-> NoTask]
    /\ row = [a \in Alert |-> NoRow]
    /\ machines = {}
    /\ audit = [a \in Alert |-> 0]
    /\ request = [q \in Operator |-> NoRequest]
    /\ announced = [a \in Alert |-> 0]
    /\ dlqPending = {}
    /\ dlq = {}
    /\ dlqLost = {}
    /\ faults = 0

Faulty == faults < MaxFaults /\ faults' = faults + 1

\* The stream processor publishes at least once: the same alert may come
\* again, with the same payload or a revised one.
Publish(p) ==
    /\ Len(log[p]) < MaxLog
    /\ \E k \in Kinds, a \in Alert, r \in Rev :
        /\ PartitionOf[a] = p
        /\ log' = [log EXCEPT ![p] = Append(@, [kind |-> k, alert |-> a, rev |-> r])]
    /\ UNCHANGED <<groupVars, threadVars, dbVars, request, announced, dlqVars, faults>>

-----------------------------------------------------------------------------
(* The listener *)

\* The thread takes the next record of a partition it owns.  Parsing sends
\* what can never become valid to the error handler, anything else to the
\* database.
Receive(t, p) ==
    /\ pc[t] = "idle"
    /\ owner[p] = t
    /\ position[p] < Len(log[p])
    /\ task' = [task EXCEPT ![t] = [part |-> p, off |-> position[p], effect |-> "keep"]]
    /\ pc' = [pc EXCEPT ![t] = IF Record(p, position[p]).kind = "unreadable"
                               THEN "reject" ELSE "ingest"]
    /\ UNCHANGED <<topicVars, groupVars, dbVars, request, announced, dlqVars, faults>>

Release(t) ==
    /\ pc' = [pc EXCEPT ![t] = "idle"]
    /\ task' = [task EXCEPT ![t] = NoTask]

\* Mutant of Advance: a dead-lettered record is not skipped.
AdvanceAcknowledged(t) ==
    position' = IF Owns(t) /\ pc[t] = "ack"
                THEN [position EXCEPT ![task[t].part] = task[t].off + 1]
                ELSE position

\* The container moves past the record; a thread whose partition was taken
\* away has no position to move.
Advance(t) ==
    position' = IF Owns(t) THEN [position EXCEPT ![task[t].part] = task[t].off + 1]
                           ELSE position

\* A data error: the record is handed to the producer and the container
\* skips it.  Its offset is not committed here (commitRecovered is unset);
\* the next acknowledged record of the partition commits past it.
RejectRecord(t) ==
    /\ pc[t] = "reject"
    /\ dlqPending' = dlqPending \cup {<<task[t].part, task[t].off>>}
    /\ Advance(t)
    /\ Release(t)
    /\ UNCHANGED <<topicVars, committed, owner, dbVars, request, announced,
                   dlq, dlqLost, faults>>

\* The send throws: the recoverer fails and the record is delivered again.
RejectFails(t) ==
    /\ pc[t] = "reject"
    /\ Faulty
    /\ Release(t)
    /\ UNCHANGED <<topicVars, groupVars, dbVars, request, announced, dlqVars>>

\* The producer's asynchronous outcome, which nobody waits for.
DeadLetterDelivered(d) ==
    /\ d \in dlqPending
    /\ dlqPending' = dlqPending \ {d}
    /\ dlq' = dlq \cup {d}
    /\ UNCHANGED <<topicVars, groupVars, threadVars, dbVars, request, announced,
                   dlqLost, faults>>

DeadLetterDropped(d) ==
    /\ d \in dlqPending
    /\ Faulty
    /\ dlqPending' = dlqPending \ {d}
    /\ dlqLost' = dlqLost \cup {d}
    /\ UNCHANGED <<topicVars, groupVars, threadVars, dbVars, request, announced, dlq>>

-----------------------------------------------------------------------------
(* The ingestion transaction *)

\* Row locks: a transaction past its statement holds the alert's row, the
\* natural key and a machine it has just inserted until it ends.
InFlight(t) == pc[t] = "commit"
Conflicts(a, b) ==
    \/ a = b
    \/ NaturalKey[a] = NaturalKey[b]
    \/ MachineOf[a] = MachineOf[b] /\ MachineOf[a] \notin machines
Locked(t) ==
    \E u \in Thread \ {t} : InFlight(u) /\ Conflicts(Current(u).alert, Current(t).alert)

\* Mutant of Refused: no uq_alert_natural.
RefusedByColumn(m) == m.kind = "unstorable"

\* What the database refuses: a value outside a column's limits, or a new
\* identifier for a window that already has an alert.
Refused(m) ==
    \/ m.kind = "unstorable"
    \/ /\ row[m.alert].status = "ABSENT"
       /\ \E b \in Alert : /\ NaturalKey[b] = NaturalKey[m.alert]
                           /\ row[b].status # "ABSENT"

\* Mutant of EffectOn: no WHERE alert.status = 'NEW'.
EffectUnguarded(a) == IF row[a].status = "ABSENT" THEN "insert" ELSE "revise"

\* INSERT ... ON CONFLICT (id) DO UPDATE ... WHERE alert.status = 'NEW'
EffectOn(a) ==
    CASE row[a].status = "ABSENT" -> "insert"
      [] row[a].status = "NEW"    -> "revise"
      [] OTHER                    -> "keep"

Upsert(t) ==
    /\ pc[t] = "ingest"
    /\ ~Locked(t)
    /\ ~Refused(Current(t))
    /\ task' = [task EXCEPT ![t].effect = EffectOn(Current(t).alert)]
    /\ pc' = [pc EXCEPT ![t] = "commit"]
    /\ UNCHANGED <<topicVars, groupVars, dbVars, request, announced, dlqVars, faults>>

\* A constraint violation is not a NonRetryableMessageException: the
\* transaction rolls back and the record is delivered again.
UpsertRefused(t) ==
    /\ pc[t] = "ingest"
    /\ ~Locked(t)
    /\ Refused(Current(t))
    /\ Release(t)
    /\ UNCHANGED <<topicVars, groupVars, dbVars, request, announced, dlqVars, faults>>

Written(r, effect, rev) ==
    CASE effect = "insert" -> [status |-> "NEW", rev |-> rev, version |-> 0]
      [] effect = "revise" -> [r EXCEPT !.rev = rev]
      [] OTHER             -> r

\* Mutant of Created: every delivery that writes is announced.
CreatedOrRevised(effect) == effect # "keep"

\* RETURNING (xmax = 0), true of a real insertion only.
Created(effect) == effect = "insert"

\* The commit makes the row and its machine visible; only a real insertion
\* goes on to be announced.
CommitTransaction(t) ==
    LET m == Current(t) IN
    /\ pc[t] = "commit"
    /\ row' = [row EXCEPT ![m.alert] = Written(@, task[t].effect, m.rev)]
    /\ machines' = machines \cup {MachineOf[m.alert]}
    /\ pc' = [pc EXCEPT ![t] = IF Created(task[t].effect) THEN "announce" ELSE "ack"]
    /\ UNCHANGED <<topicVars, groupVars, task, audit, request, announced, dlqVars, faults>>

\* The AFTER_COMMIT listener, on the committing thread.
AnnounceCreated(t) ==
    /\ pc[t] = "announce"
    /\ announced' = [announced EXCEPT ![Current(t).alert] = @ + 1]
    /\ pc' = [pc EXCEPT ![t] = "ack"]
    /\ UNCHANGED <<topicVars, groupVars, task, dbVars, request, dlqVars, faults>>

\* Its query fails: the framework logs the exception and ingestion goes on.
AnnounceFails(t) ==
    /\ pc[t] = "announce"
    /\ Faulty
    /\ pc' = [pc EXCEPT ![t] = "ack"]
    /\ UNCHANGED <<topicVars, groupVars, task, dbVars, request, announced, dlqVars>>

\* Manual immediate acknowledgement.  The broker refuses the commit of a
\* thread that no longer owns the partition.
Acknowledge(t) ==
    /\ pc[t] = "ack"
    /\ committed' = IF Owns(t) THEN [committed EXCEPT ![task[t].part] = task[t].off + 1]
                               ELSE committed
    /\ Advance(t)
    /\ Release(t)
    /\ UNCHANGED <<topicVars, owner, dbVars, request, announced, dlqVars, faults>>

\* Mutant of ListenerFails: the retries are exhausted and the record skipped.
ListenerGivesUp(t) ==
    /\ pc[t] \in {"ingest", "commit", "ack"}
    /\ Faulty
    /\ Advance(t)
    /\ Release(t)
    /\ UNCHANGED <<topicVars, committed, owner, dbVars, request, announced, dlqVars>>

\* A transient failure before or at the commit, or of the acknowledgement
\* itself: rolled back, sought back, delivered again.
ListenerFails(t) ==
    /\ pc[t] \in {"ingest", "commit", "ack"}
    /\ Faulty
    /\ Release(t)
    /\ UNCHANGED <<topicVars, groupVars, dbVars, request, announced, dlqVars>>

-----------------------------------------------------------------------------
(* Acknowledgement by an operator *)

\* Mutant of CanAcknowledge: any stored alert.
CanAcknowledgeStored(a) == row[a].status # "ABSENT"

\* The status check.  The optional version check adds nothing to it: only an
\* acknowledgement moves the version, so a NEW row still has its first one.
CanAcknowledge(a) == row[a].status = "NEW"

\* Load and check: 404 without a row, 409 unless NEW, 409 unless the version
\* the operator saw, if one is sent, is the current one.  The refusals change
\* nothing.
LoadAlert(q, a) ==
    /\ request[q].phase = "idle"
    /\ CanAcknowledge(a)
    /\ request' = [request EXCEPT ![q] = [phase |-> "loaded", alert |-> a,
                                         rev |-> row[a].rev, version |-> row[a].version]]
    /\ UNCHANGED <<topicVars, groupVars, threadVars, dbVars, announced, dlqVars, faults>>

\* The flush updates WHERE optlock_version = the loaded one, once no
\* ingestion holds the row.
RowFree(a) == \A t \in Thread : InFlight(t) => Current(t).alert # a

\* Mutant of SameVersion: no @Version column.
AnyVersion(q) == TRUE
SameVersion(q) == row[request[q].alert].version = request[q].version

\* The UPDATE writes every column from the loaded entity.
AckedRow(q) == [status |-> "ACKNOWLEDGED", rev |-> request[q].rev,
                version |-> request[q].version + 1]

CommitAck(q) ==
    LET a == request[q].alert IN
    /\ request[q].phase = "loaded"
    /\ RowFree(a)
    /\ SameVersion(q)
    /\ row' = [row EXCEPT ![a] = AckedRow(q)]
    /\ audit' = [audit EXCEPT ![a] = @ + 1]
    /\ request' = [request EXCEPT ![q] = NoRequest]
    /\ UNCHANGED <<topicVars, groupVars, threadVars, machines, announced, dlqVars, faults>>

\* Optimistic locking failure, 409: the audit row is rolled back with it.
RejectAck(q) ==
    /\ request[q].phase = "loaded"
    /\ RowFree(request[q].alert)
    /\ ~SameVersion(q)
    /\ request' = [request EXCEPT ![q] = NoRequest]
    /\ UNCHANGED <<topicVars, groupVars, threadVars, dbVars, announced, dlqVars, faults>>

-----------------------------------------------------------------------------
(* The environment *)

\* A thread that stalls past max.poll.interval loses its partition while it
\* still works on a record; the new owner starts from the committed offset.
Rebalance(p, t) ==
    /\ owner[p] # t
    /\ pc[t] = "idle"
    /\ Faulty
    /\ owner' = [owner EXCEPT ![p] = t]
    /\ position' = [position EXCEPT ![p] = committed[p]]
    /\ UNCHANGED <<topicVars, committed, threadVars, dbVars, request, announced, dlqVars>>

\* The process dies and restarts: open transactions roll back, the
\* producer's buffer and the fetch positions are gone.
Crash ==
    /\ Faulty
    /\ pc' = [t \in Thread |-> "idle"]
    /\ task' = [t \in Thread |-> NoTask]
    /\ request' = [q \in Operator |-> NoRequest]
    /\ position' = committed
    /\ dlqPending' = {}
    /\ dlqLost' = dlqLost \cup dlqPending
    /\ UNCHANGED <<topicVars, committed, owner, dbVars, announced, dlq>>

Listener(t) ==
    \/ \E p \in Partition : Receive(t, p)
    \/ RejectRecord(t)
    \/ Upsert(t)
    \/ UpsertRefused(t)
    \/ CommitTransaction(t)
    \/ AnnounceCreated(t)
    \/ Acknowledge(t)

ListenerFault(t) == RejectFails(t) \/ AnnounceFails(t) \/ ListenerFails(t)

Producer == \E d \in dlqPending : DeadLetterDelivered(d) \/ DeadLetterDropped(d)

Web(q) ==
    \/ \E a \in Alert : LoadAlert(q, a)
    \/ CommitAck(q)
    \/ RejectAck(q)

Next ==
    \/ \E p \in Partition : Publish(p)
    \/ \E t \in Thread : Listener(t) \/ ListenerFault(t)
    \/ Producer
    \/ \E q \in Operator : Web(q)
    \/ \E p \in Partition, t \in Thread : Rebalance(p, t)
    \/ Crash

Spec == Init /\ [][Next]_vars

\* A live thread keeps polling and finishes the record it holds, and a web
\* request ends; nothing is assumed of publications, operators or faults.
Fairness ==
    /\ \A t \in Thread : WF_vars(Listener(t))
    /\ \A q \in Operator : WF_vars(CommitAck(q) \/ RejectAck(q))

FairSpec == Spec /\ Fairness

-----------------------------------------------------------------------------
(* Properties *)

\* Below a committed offset nothing is missing: a valid alert is in the
\* table, an invalid record was handed to the dead letter producer (offset
\* after database, application.yml and ADR-005).
Handled(p, o) ==
    IF Record(p, o).kind = "unreadable"
    THEN <<p, o>> \in dlqPending \cup dlq \cup dlqLost
    ELSE Record(p, o).kind = "good" /\ row[Record(p, o).alert].status # "ABSENT"

CommittedMeansHandled ==
    \A p \in Partition : \A o \in 0 .. committed[p] - 1 : Handled(p, o)

\* One audit row exactly for an acknowledged alert, none for any other, even
\* with operators racing each other and replays (AlertLifecycleService).
AuditMatchesStatus ==
    \A a \in Alert : audit[a] = IF row[a].status = "ACKNOWLEDGED" THEN 1 ELSE 0

\* A dashboard is told once of a new alert, not once per delivery, and only
\* of a committed one (AFTER_COMMIT and RETURNING xmax = 0).
AnnouncedAtMostOnce ==
    \A a \in Alert : announced[a] <= IF row[a].status = "ABSENT" THEN 0 ELSE 1

\* No window has two alerts, whatever identifiers the producer derives
\* (uq_alert_natural).
OneAlertPerWindow ==
    \A a, b \in Alert :
        /\ row[a].status # "ABSENT"
        /\ row[b].status # "ABSENT"
        /\ NaturalKey[a] = NaturalKey[b]
        => a = b

\* What an operator has handled is never rewritten or reopened, by a replay
\* or by another operator (WHERE alert.status = 'NEW').
AcknowledgedIsFinal ==
    [][\A a \in Alert : row[a].status = "ACKNOWLEDGED" => row'[a] = row[a]]_vars

\* The table, the audit trail and the announcements implement the ledger.
Ledger == INSTANCE AlertLedger
    WITH ledger <- [a \in Alert |-> row[a].status]
ImplementsLedger == Ledger!Spec

\* The table refuses the record at the position each time it is delivered.
StandsAtRefused(p) ==
    /\ position[p] < Len(log[p])
    /\ Record(p, position[p]).kind # "unreadable"
    /\ Refused(Record(p, position[p]))

\* Every record is passed, whatever is invalid, fails for a while, moves or
\* crashes before it, unless the consumer stands at a refused one: nothing
\* else blocks the partition (KafkaErrorHandlingConfig, ADR-006).
SettledUnlessRefused ==
    \A p \in Partition : \A n \in 1 .. MaxLog :
        (Len(log[p]) >= n) ~> (position[p] >= n \/ StandsAtRefused(p))

-----------------------------------------------------------------------------
(* What comments of the code say, and the code does not do. *)

\* A committed offset never leaves a rejected record behind that reaches no
\* dead letter topic (comment of publishDeadLetter, ADR-006).
DeadLetterKept ==
    \A p \in Partition : \A o \in 0 .. committed[p] - 1 :
        Record(p, o).kind = "unreadable" => <<p, o>> \in dlqPending \cup dlq

\* An acknowledgement changes the status and keeps the latest version of the
\* fact that replays have written (ADR-005, AlertIdempotencyTest).
AckKeepsLatestFact ==
    [][\A a \in Alert :
          row[a].status = "NEW" /\ row'[a].status = "ACKNOWLEDGED"
          => row'[a].rev = row[a].rev]_vars

\* Every record published is eventually passed by its consumer: a data error
\* never blocks the partition behind it (KafkaErrorHandlingConfig, ADR-006).
EveryRecordSettled ==
    \A p \in Partition : \A n \in 1 .. MaxLog :
        (Len(log[p]) >= n) ~> (position[p] >= n)
=============================================================================
