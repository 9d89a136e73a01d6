# Verification of the anomaly detection platform

TLA+ specifications of the parts of this repository whose correctness depends on
interleavings, redelivery, crashes, event time or one callback overtaking another, the TLC
runs that check them on small instances, and TLAPS proofs for every value of the constants.
Source paths are relative to the repository root; `alert-service/…` stands for
`src/alert-service/src/main/java/com/anomaly/alertservice/…`.

1. The system — 2. The modules — 3. The runs — 4. The proofs — 5. What the code does not do —
6. Not modelled

## 1. The system

```
event-simulator --telemetry.raw----> stream-processor --telemetry.scored--> alert-service (telemetry)
        |                             |   |  scoring and validation queries        |
        '--telemetry.labels--.        |   '--alerting query (reads telemetry.scored)
                             |        |            |                               v
   topics --> export --> ml-training --> artefact  '--alerts--> alert-service --> PostgreSQL
                                                                    |  ^ acknowledge (REST)
                                                                    '--SSE--> dashboard --REST--> alert-service
```

Every Kafka hop is at least once. The platform's answer is identifiers that are a
function of the data (`derive_alert_id`) and idempotent writes; what it promises is
that a replay is harmless, that nothing is lost and that operators see one alert per
fault.

| Component | State | Operations | Hard behaviour | What makes it correct |
|---|---|---|---|---|
| Event simulator (`event-simulator`) | machines, episodes, outages, late buffer, producer queue, counters | tick, inject, delay, release, produce, retry, flush, stop | a full queue, bursts after an outage, exit in the middle | each sample in one place, counters add up, labels tell the episodes, the run ends |
| Shared contracts (`telemetry-core`) | none | validate, classify, window, compute features | the same formula in three engines | the three agree |
| Scoring and validation queries (`source.py`, `features_spark.py`, `policy.py`, `scoring.py`, `pipeline.py`, `main.py`) | offsets and plan of two queries, window aggregates, watermark | parse, split, aggregate, admit, publish, evict, fail, restart, exit | lateness on one clock and watermark on another, windows re-emitted while they fill, batches run twice, a query that dies beside another | nothing vanishes between the queries, windows only grow, replays repeat themselves, failure is visible |
| Alerting query (`alerting.py`, `pipeline.py`) | state store per machine, watermark, checkpoint | plan a batch, handle rows or a timeout, commit, restart | repeated and late windows, batch boundaries, replay after a crash, event-time timeout | one alert per run, none from one window, replay adds nothing, query survives |
| Alert ingestion (`AlertConsumer`, `AlertIngestionService`, `AlertUpsertRepositoryImpl`, `KafkaErrorHandlingConfig`) | offsets and assignment of `alerts`, tables `machine` and `alert`, dead letters in the producer's buffer | receive, reject, upsert, commit, announce, acknowledge the offset, retry | redelivery, rebalance with a thread still at work, crash between two commits, unawaited sends | offset after database; one creation per alert; no window twice; a partition moves on |
| Acknowledgement (`AlertLifecycleService`) | `alert.status`, `optlock_version`, `alert_acknowledgement` | load and check, flush, conflict | operators racing each other and replays | one audit row per acknowledged alert; never reopened |
| Live stream (`AlertBroadcaster`, `AlertStreamController`) | subscribers, the sequence `event_seq`, heartbeat schedule | subscribe, replay, broadcast, evict, heartbeat | broadcasts from several threads during a replay, broken links | nothing uncommitted shown; nothing missed while connected; dead peers dropped |
| Telemetry persistence (`TelemetryConsumer`, `TelemetryIngestionService`, `TelemetryUpsertRepositoryImpl`, `TelemetryRetentionJob`) | offsets, `telemetry_window`, `machine` | ingest a batch, retry, purge | a batch failing in the middle, regress on redelivery, purge against redelivery | no committed window without a row; the row converges to the last emission |
| Model artefact (`artifact.py`, `model.py`) | the files of the directory, a worker's lock and cache | save file by file, double-checked load | a save under a load, a crash in a save, threads racing | one model per process, the one its metadata describe |
| Model training (`ml-training`) | dataset and manifest, splits, candidates | export, deduplicate, split, label, choose a threshold, select, save | topics that grow under the drain, cuts inside windows, choices in sequence | complete snapshot, no leak, true labels, best affordable candidate |
| Dashboard live view (`alert-store.service.ts`, `alert-stream.service.ts`) | map of alerts, source, timer, pending page loads | start, refresh, upsert, reconnect, stop, retry | page loads racing events, reconnection timers | the view converges to the database; one stream; it reconnects |
| Dashboard history (`history-page.component.ts`) | filters, query, debounce, request | filter, reset, sort, page, reload | slow and old answers, failures | the table answers the controls |
| Dashboard detail (`alert-detail-page.component.ts`) | route, alert, form, conflict | navigate, load, acknowledge | answers after a navigation, a second operator | the alert of the route, in the state the service decided |
| REST queries, monitoring, infrastructure | none that is shared | read, report, deploy | none for a model checker | not modelled (section 6) |

Components interact through Kafka records, rows of PostgreSQL, Spring events raised in a
transaction and delivered after its commit, SSE frames and the files of the artefact.
PROJECT.json lists the hazards of this code at their lines, with the property that covers
each or the reason why none holds.

## 2. The modules

| Module | Models | Proofs in |
|---|---|---|
| `AlertLedger` | abstract: an alert is recorded once, announced at most once, acknowledged at most once with one audit row | |
| `AlertIngestion` | ingestion and acknowledgement together, since they share rows and locks; implements `AlertLedger` | `AlertIngestionProofs` |
| `AlertStream` | subscription, replay, broadcast, filters, heartbeat | `AlertStreamProofs` |
| `AlertEpisodes` | the alerting query: handler, micro-batch, watermark, crash | `AlertEpisodesProofs` |
| `TelemetryContract` | validity, lateness, windows, features in three translations, admission | `TelemetryScoringProofs` |
| `TelemetryScoring` | the validation and scoring queries and the driver | `TelemetryScoringProofs` |
| `TelemetryPersistence` | the curve's consumer and the retention job | `TelemetryPersistenceProofs` |
| `FleetModel` | one machine in one tick: scheduler, physics, injectors, delay | `EventSimulatorProofs` |
| `EventSimulator` | the run around it: loop, buffer, producer, flush, exit code | `EventSimulatorProofs` |
| `ModelArtifact` | saving and loading the artefact | `DetectorTrainingProofs` |
| `DetectorTraining` | export, splits, labels, selection, around `ModelArtifact` | `DetectorTrainingProofs` |
| `AlertModel`, `RequestState` | an alert as the pages know it; loading, error and failing requests, which each page has | |
| `LiveView`, `HistoryPage`, `AlertDetailPage` | the three pages of the dashboard with the service as environment | `DashboardProofs` |
| `MC…` | values of the constants for TLC | |

`TelemetryScoring` and `DetectorTraining` extend the same `TelemetryContract`, as the stream
processor and the training import the same `telemetry_core`; `EventSimulator` extends
`FleetModel` and `DetectorTraining` extends `ModelArtifact`, whose files its runs write. The
three pages are three specifications (`Spec`, `HistorySpec`, `DetailSpec`), since only one is on
screen at a time; they share `AlertModel` and `RequestState` and no other name, so that
`DashboardProofs` can extend all three.

### AlertIngestion

`log`, `committed`, `owner` and `position` are the topic and the consumer group as the
code relies on them. A thread's `pc` follows `onMessage`: `Receive` is the poll with
the outcome of `parse`, `Upsert` the statement, `CommitTransaction` the end of
`ingest`, `AnnounceCreated` the AFTER_COMMIT listener (on the same thread, before the
offset), `Acknowledge` the manual commit. A record is `good`, `unreadable` (any of the
reasons of `parse`) or `unstorable` (passes validation, refused by a column: a model
name is only `@NotBlank` where the column holds 64 characters).

* A transaction past its statement holds the locks that make a second writer of the
  same alert, of the same natural key or of a machine being inserted wait (`Locked`).
  The status an upsert saw is kept in `task.effect` and used at the commit.
* `RejectRecord` hands the dead letter to the producer and moves on; its outcome is a
  later step (`DeadLetterDelivered`, `DeadLetterDropped`) that nothing waits for.
  The offset of a rejected record is not committed by itself (`commitRecovered` is
  unset): the next acknowledged one commits past it.
* `Rebalance` moves a partition while the former owner still works on a record; that
  owner may still write the database, and only its offset commit is refused. The new
  owner is idle when it is assigned: the rebalance of a group runs in its poll.
* `LoadAlert` and `CommitAck` are the two halves of an acknowledgement that others may
  run between. The flush writes every column, as Hibernate does without
  `@DynamicUpdate`, under `WHERE optlock_version = ?`. The optional
  `expectedVersion` is not a variable: only an acknowledgement moves the version, so it
  cannot refuse what the status check lets through.
* Faults (failed statements, commits, acknowledgements, announcements and sends,
  rebalances, crashes) share the bound `MaxFaults`.

### AlertStream

A thread goes `open` (insertion uncommitted, number drawn), `committed`, `sending`.
`ReadRow` is the query of the AFTER_COMMIT listener; the walk over the concurrent map is
one step per subscriber, any order, seeing or missing one that registers meanwhile.
A connection's `phase` is the request thread: registered first, then `query`, `replay`,
and `live` once the controller has returned the emitter, before which frames are only
buffered. `pipe` is what is on the wire. A dead peer is one whose `link` is broken; it
is dropped by the next write or heartbeat. The browser follows the EventSource
standard: it keeps the last id and sends it when it reconnects; on its first connection
it has loaded the list. `SendTimesOut` is a peer too slow to be written to.
Two abstractions: the page load and the first connection are one step, and
a duplicate delivery, which draws a number it does not use, is left out (it only
leaves gaps).

### AlertEpisodes

One batch at a time: `PlanBatch` fixes its rows, `HandleRows` and `HandleTimeout` are the
calls of `handle` (one per machine, any order), `CommitBatch` publishes the state store
version and moves the watermark, `Crash` restarts the planned batch from the committed
state while what reached Kafka stays there. `CountWindows` is the loop over the sorted
windows as a recursive function: its value at n is the state after the n least of them. What Spark does is taken from how the query uses
it: rows are late by the watermark of the batch before, timeouts go by the watermark of
the batch, a machine with rows does not time out in that batch, a timeout behind the
watermark is an exception that ends the query. Time is counted in half seconds so that
"just past the watermark" is less than a second. "Consecutive" counts anomalous windows no
more than the gap apart, whatever normal windows lie between, as the code does; a window
older than the last one counted is skipped even if it was never counted.

### TelemetryContract and TelemetryScoring

A message carries its `form`: `whole`, or the one thing wrong with it, which is what the
parsers, the Spark filters and the export's decoder tell apart. Windows, features and the
admission gate are written once per engine, from the engine's own code, and
`TranslationsAgree` compares them; a mean is the pair it is divided from, so no rounding
hides a difference. The rows of a window are a function from offsets to messages. The orders the
engines put them in (`Subsequence` for a filter or arrival, `ByTime` for a sort) are ascending
lists of offsets; what an engine computes from them is a fold over such a list. The property compares
the translations on every part of what one machine sent, in particular on every window. It rests on
`TopicsAssumption`: two accepted messages of one machine and instant are copies, which
`telemetry_core/features.py:31-36` demands of the producer and without which `min_by` is not defined.

The two queries read the topic independently: `planned` is the offset range in a query's
checkpoint, `done` what it has committed. `Validate` and `Score` are batches that finish;
`Fail` is a query that ends with an exception at any point of a batch, with any part of its
output sent; the plan survives it. `EvictOnly` is the batch without data that Spark runs
when the watermark has moved. `Driver` is `main.run`: `AwaitAnyTermination`, the check of
`isActive` after it, the deadline or a signal (`EndRun`), the `finally` that stops what is
still active and waits, and the exit code; `Kill` and `Restart` are the operator's.

### TelemetryPersistence

A batch is `[first, next, last]`: `StoreWindow`, `DropWindow` and `StoreRefused` are the
iterations of `onBatch`, each row its own transaction with the machine it provisions.
The container's error handler runs the whole batch again (`AfterFailure`). `Rebalance` is as
in `AlertIngestion`, with `revoked` recording that a working thread lost the partition.
`Purge` is the retention statement. A row is its sample count, which grows from one
emission of a window to the next and so tells them apart.

### FleetModel and EventSimulator

`Step` is one machine advancing one tick: operating state, wear, temperature with inertia,
the noise cursor, then the injector on a copy; `twin` is the same machine with the same draws
and no episodes. `EpisodeAt` is the scheduler: a planned episode takes precedence, drawn ones
respect the gap; its value is the set of schedules the code may leave. `ValidFleet` is what the loader of
the configuration accepts. `EventSimulator` is the process: the stop flag is looked at between ticks
(`Finish`, `StartTick`), a sample is routed to the wire or to the late buffer
(`RouteSample`, `ReleaseHeld`), `Advance` is one machine's turn in a tick, `Produce`, `QueueFull` and `GiveUp` are
`_produce_with_backpressure`, `EncodingFails` counts towards the abort, `Flush` ends the run.
`BrokerAcks`, `DeliveryFails` and `Signal` are the environment.

### ModelArtifact and DetectorTraining

A file of the artefact is the number of the training run that wrote it. `WriteModel`,
`WriteMetadata`, `WriteReference` follow the order of `save_artifact`, `CrashSaving` may come
between any two; `LookUp`, `Acquire`, `ReadMetadata`, `VerifyDigest`, `Unpickle` and
`CacheModel` are the steps of `load_model`, one read of the disk each.
`DetectorTraining` adds the drain of the topics (`Poll`, `IdlePoll`, `EndDrain`), the three
files of a dataset (`WriteSamples`, `WriteLabels`, `WriteManifest`, `CrashExport`), the splits
and labels as operators (`Labelled`), and a training run (`Train`, `BeginSave`) in which a
fitted detector is any of `Scores`, or failed. What the topics are assumed to hold is
`LogsAssumption`: messages are keyed by machine, a copy of a message repeats it, a label comes
with a sample that decodes; `ScoresAssumption` says that a detector scores every window it is
given. A producer may be behind the end of the topic when the export begins, by one message of
any partition that has one.

### LiveView, HistoryPage, AlertDetailPage

The browser runs one callback at a time: an action is one callback, or one step of the service.
Requests are answered in any order, or fail.

`LiveView` has both ends. `alerts` is the store's map, `source` and `timer` those of the stream
service, `subscriptions` counts what `start()` leaves subscribed. A row is what the feed tells
apart: its status and the commit that wrote it. The alert service commits rows as it does in
`AlertIngestion`, here without the locks that decide who may:

* `Insert` and `Acknowledge` commit and raise an event; `Revise` is the UPDATE branch of the
  upsert, which rewrites a NEW row and raises none (`AlertIngestionService.java:96-112`).
* The AFTER_COMMIT listener of each event reads the row again, as it is by then (`ReadRow`), and
  sends it later (`Broadcast`), to a connection that is registered. Threads read and send in any
  order. The read may throw: the commit stays and the event is lost (`ReadFails`).
* `Cut` breaks a link, and what is sent into it is lost; the browser does not know until `OnError`,
  since the client ignores heartbeats and has no timeout of its own. `Crash` kills the service
  with everything it had to announce, and cuts its links.

Two variables record what the property needs. `unannounced` is the set of alerts whose row was
rewritten, or its read failed, with neither a later event nor a page since; `told` is the newest
commit the map ever had of each alert, so that `Overtaken` are the alerts of which it holds an
older row than it had.

In `HistoryPage`, `debounced`, `passed`, `inflight` and `alive` are the four stages of the
component's pipe.

In `AlertDetailPage`, requests are never cancelled, as in the code. Loads are numbered. `answered`
is the youngest that was answered, `outrun` says that the last one answered is older than that,
`strayed` that an acknowledgement of another alert than the route's came back since the route was
loaded, `stale` that an acknowledgement came back while an answer that shows its alert as NEW was
on its way. Other operators acknowledge alerts at any time.

## 3. The runs

| Run | Question | Result |
|---|---|---|
| `ingestion` | do offsets follow the database, is the ledger implemented, does a partition move on? | holds, 261,400 states |
| `dead_letter_lost` | is a committed reject on the dead letter topic? | violated: the send is not awaited (finding) |
| `stream` | is what is shown committed, is nothing missed while connected, are dead peers dropped? | holds, 216,154 states |
| `cursor_gap` | is `event_seq` a resumption cursor? | violated: numbers become visible out of order (finding) |
| `episodes` | one alert per run, none from one window, none by replay, no fatal timeout? | holds, 189,258 states |
| `simulator` | is every sample in one place, do counters and labels tell the truth, does the run end? | holds, 286,631 states |
| `scoring` | does anything vanish between the queries, do windows restart, do replays and engines agree, is failure visible? | holds, 169,216 states |
| `training` | is the snapshot complete, the split clean, the selection the best, the model served the one described? | holds, 137,652 states |
| `curve` | does an offset pass a window without a row, does a row go back, does the curve catch up? | holds, 682,618 states |
| `live_view` | does the page show what the service told it of and what it missed, leak a stream, reconnect? | holds, 2,648,484 states |
| `history` | does the table answer its controls? | holds, 22,087 states |
| `detail` | is the alert of the route shown, in the state the service decided? | holds, 711,562 states |

Every property of a passing run is broken by at least one plausible change of the code, listed
under "mutants" in PROJECT.json: giving up after retries, no version column, announcing inside
the transaction, a heartbeat that throws, counting an update of a window again, planning a batch
anew after a failure, skipping the failed record, a timer that survives `stop()`, a digest that
is not compared, waiting for one query only, and so on.

Several properties that hold carry a condition: without it the code does not have the property
(section 5). `SettledUnlessRefused` and `CurveCatchesUp` except a record the table refuses;
`NewestUnlessRevoked` a partition taken from a working thread; `DeliveredWhileConnected` an alert
whose row could not be read; `AnswersWhileAlive` a failed request; `SnapshotComplete` a drain cut by
idle polls; `ServedModelVerified` a file replaced in the middle of a load.

Three of the pages' properties name their exceptions as narrowly as the model allows:

* `AgreesWhereTold` excepts, row by row, an alert the service rewrote without telling any stream (a
  replay's revision, a failed read) until it is announced again or a page is read, and an alert of
  which the map holds an older row than it had. It claims every other row of the newest page, and
  the whole feed when no row of it is excepted; in particular whatever was committed while no
  stream was open, lost with the service or sent into a link already cut.
* `RouteShownUnlessOutrun` excepts an older load answered last and an acknowledgement of another
  alert coming back. Loads in flight together, conflicts, retries and answers after a navigation are
  within it.
* `ResolvedUnlessStale` excepts an answer that was read before the decision and comes after it, as
  when the operator submits, goes away, comes back, and the load of that return was read first.

### Bounds

* `ingestion`: one partition, two threads, two operators, three alerts (two of one machine,
  standing for the same window), two revisions, two records, one fault. Two records are what it
  takes for a replay, a revision or a clash of the natural key; two threads on one partition are
  the stalled owner and the new one; partitions share nothing but rows, which two threads
  already contend for. Its safety properties are proved for any number of all of these; the
  run is what decides the liveness property. `dead_letter_lost` takes one alert and two faults.
* `stream`: two alerts, one thread, two browsers of which one filters, two connections each, one
  replayed event per reconnection, one fault. Delivery is proved for any number of threads.
  `cursor_gap` takes two threads and one browser.
* `episodes`: windows of length 3, gap 4, delay 3, two windows to open. Machine 1 has windows at
  0, 1, 4, 5, 6 (within the gap, exactly at it, beyond it), machine 2 at 1 and 6, the last of
  which moves the watermark past machine 1's run. Three batches of at most three windows allow a
  run cut by a batch, a timeout in a batch without data, and late rows after it; one crash.
* `simulator`: two machines, three ticks, at most five samples (so that `max_events` cuts a
  batch), a client queue of one message, two retries, an outage of two ticks and a jitter of one
  and a half, a planned spike and drawn episodes, two chances (random events) in all.
* `scoring`: five contents of the topic, each of four messages chosen for a case: out of order,
  another machine's clock, the two lateness classes, the ways to be rejected with a copy, a
  machine that stops. Windows of six seconds every three, a watermark of four, at most two
  messages per batch, one failure or kill.
* `training`: two partitions with twelve messages, copies of a sample and of a label, cuts inside
  windows, two candidates, three score functions (one detector sees the first episode, one the
  second, one noise), one export, two training runs, two worker threads.
* `curve`: two threads, two windows of one machine of which one grows old, two emissions per
  window, three records, batches of at most two, one tick, two faults.
* `live_view`: two alerts, a feed of one, two commits (an insertion with a revision, an
  acknowledgement or the insertion of a newer alert), two visits, two faults (cut links, failed
  attempts and requests, failed reads, crashes). Two commits of one alert are what it takes for
  sends out of order; its safety properties are proved for any number of all of these. `history`: three
  filters with two, one and no pages, five changes, two failures. `detail`: two alerts, two
  navigations, one failure.

Deadlock is not checked: every model stops when its bounds are used up.

### Fairness

* `AlertIngestion`, `TelemetryPersistence`: weak fairness of each listener thread's own step (a
  container thread keeps polling and retries without end: `setMaxElapsedTime(Long.MAX_VALUE)`),
  and of the end of a web request that has loaded its alert. None for publications, operators,
  faults, the producer, the purge.
* `AlertStream`: weak fairness of the heartbeat for each peer (`scheduleAtFixedRate`) and of the
  request thread that subscribes. None for broadcasts, browsers or links.
* `TelemetryScoring`: weak fairness of planning and finishing a batch (Spark schedules the
  triggers of an active query) and of the driver's thread. None for restarts, failures, signals.
* `EventSimulator`: weak fairness of the process, none for the broker, which may never answer.
* `LiveView`: weak fairness of the request that opens a stream, of its `onopen`, of a timer, and of
  `onerror` on a link that is cut: the browser learns of it in the end, from the connection, for
  the client watches no heartbeat. None for the service or for answers of the list.

## 4. The proofs

Eight modules prove theorems for every value of the constants, from the assumptions named where
the constants are declared. Hardly a property is inductive by itself; what is added is what each actor
knows between two of its steps.

| Module | Theorems |
|---|---|
| `AlertIngestionProofs` | `Invariance`; `TypeCorrect`, `NothingLost` (`CommittedMeansHandled`), `AuditExact`, `AnnouncedOnce` (`AnnouncedAtMostOnce`), `WindowUnique` (`OneAlertPerWindow`), `AcknowledgedStays` (`AcknowledgedIsFinal`), `Refinement` (`ImplementsLedger`) |
| `AlertStreamProofs` | `Invariance`; `TypeCorrect`, `NothingPhantom` (`NoPhantomAlert`), `Delivered` (`DeliveredWhileConnected`) |
| `AlertEpisodesProofs` | `Invariance`, `RunInvariance`; `TypeCorrect`, `Replay` (`ReplayAddsNothing`), `NeverKilled` (`QueryNeverKilled`), `NeedsRun` (`AlertNeedsRun`), `OneAlert` (`OneAlertPerRun`) |
| `TelemetryScoringProofs` | `Invariance`; `TypeCorrect`, `NothingLost` (`NothingVanishes`), `WindowsGrow` (`WindowNeverRestarts`), `Replayed` (`ReplaySameEvents`), `FailureShown` (`FailureExitsNonZero`), `NoSkew` (`TranslationsAgree`), `WindowsAgree` |
| `TelemetryPersistenceProofs` | `Invariance`; `TypeCorrect`, `Plotted` (`CommittedMeansPlotted`), `Newest` (`NewestUnlessRevoked`) |
| `EventSimulatorProofs` | `Invariance`; `TypeCorrect`, `OncePublished` (`EverySampleOnce`), `CountersAddUp` (`CountersTell`), `TruthIsExact` (`GroundTruthExact`), `AnomaliesPass` (`AnomaliesLeaveNoTrace`), `ReleaseOrder` (`BurstInOrder`) |
| `DetectorTrainingProofs` | `Invariance`, `DataInvariance`, `TrainingInvariance`; `ArtifactTypeCorrect`, `TypeCorrect`, `OneModel` (`OneModelPerProcess`), `Verified` (`ServedModelVerified`), `CompleteSnapshot` (`SnapshotComplete`), `SplitsApart` (`NoLeak`), `GroundTruth` (`GroundTruthAligned`), `BestAffordable` (`BestAffordableSelected`) |
| `DashboardProofs` | `StreamInvariance`, `LiveInvariance`; `LiveTypeCorrect`, `NoLeak` (`NoStreamLeaked`), `FeedAgrees` (`AgreesWhereTold`); `HistoryInvariance`; `HistoryTypeCorrect`, `HistoryAnswers` (`AnswersWhileAlive`); `DetailInvariance`; `DetailTypeCorrect`, `RouteIsShown` (`RouteShownUnlessOutrun`), `AttemptIsResolved` (`ResolvedUnlessStale`) |

* Ingestion. Committed offsets never pass positions, positions never pass the log, and everything
  below a position is handled (`OffsetsOrdered`, `HandledBelowPosition`); a busy thread holds the
  record at the position of its partition while it owns it, of a kind that fits its step, and from
  the commit on its alert is in the table (`HoldsRecord`); an open transaction still sees what its
  statement saw (`StatementCurrent`), because no two open transactions write the same window
  (`LocksExclusive`, which is what `Locked` is for) and no acknowledgement passes one (`RowFree`);
  a thread about to announce is the only one for its alert, of which nothing was announced
  (`AnnouncesOnce`); the version counts the acknowledgements (`VersionCounts`) and a loaded
  request carries the first version (`LoadedFresh`), so the version check of the flush lets
  exactly one through. The refinement is read off the steps under this invariant.
* Stream. A broadcast under way must still reach every subscriber that had not the alert from its
  own start, and has sent it to those it has visited (`Walk`); so a connection lacks only what its
  thread has still to send. What waits in a queue or on the wire is about committed alerts
  (`QueuesVisible`).
* Episodes. While a batch runs, in any attempt, what it sends is a function of the committed state
  and the planned rows (`BatchRepeats`), so an attempt cannot send what the one that commits does
  not; this holds whatever the loop computes. What it computes is the other half. The recursion of
  `CountWindows` has a solution (by least counterexample: `LoopDefined`), and after any number of
  windows the state tells the run (`LoopTells`): every counted window is the end of a chain of
  windows that were read, no two further apart than the gap (`Chain`), and an alert already sent is
  behind the state by more than a run can bridge (`Before`), so the next one is as far from it
  (`Apart`). `RunInv` carries this across batches, crashes and timeouts; a state that times out is
  past its gap (`TimeoutsAhead`), which is why forgetting it opens no second alert of one run, and
  why no timeout is ever set behind the watermark.
* Scoring. A committed message is in the store for every window of it that still takes rows, or was
  refused by the watermark (`RowsKept`); a window keeps the rows its events named until nothing can
  be added to it (`WindowsKept`), because eviction and lateness compare the same end with marks
  that only grow; so the latest event of a window holds the rows of all committed batches
  (`LatestHolds`), and what an uncommitted batch published is what it publishes again (`EventsKnown`). `ValidationInv` is the other query,
  and the two together give `NothingVanishes`, because both split by one classification.
* Skew. `NoSkew` says that Spark's plan, pandas and the library compute the same features of the
  same rows, whatever the rows and their order. An arrival order, a filter and a sort are each an
  ascending list of a finite set of positions; there is one (`AscendingExists`) and it is a bijection
  (`AscendingIsBijection`), so any two orders of the rows are rearrangements of each other, also after
  rows without a reading were dropped (`FilteredRearranged`). A fold has partial sums (`SumsExist`,
  `SumsStep`), and their last one does not change under a rearrangement (`SumRearranged`), by a least
  counterexample on the length. Hence equal counts, totals, scatters, covariances and integrals
  (`SameAggregates`, `SameCovariance`, `SamePairs`). The first and last reading by time are the ends of the
  sorted rows since an instant tells the row (`Ends`, `SortedEnds`). Each engine then agrees with the
  library (`SparkAgrees`, `PandasAgrees`, `FeaturesAgree`) on any rows whose readings are integers
  or absent and whose
  instants tell them apart, which every part of one machine's accepted messages is
  (`PartIsReadable`). `WindowsAgree` is the
  other half: the assignment of windows is the same set for every instant, because the slide
  divides the length.
* Persistence. The owner works on what follows the committed offset (`OwnerUpToDate`); whoever owns
  the partition, what a thread has passed is dealt with (`PassedDone`); emissions are in the order
  of their samples (`LogOrdered`), so without a revocation what the owner has passed is fresh
  (`OnlyOwnerWorks`, `ProgressFresh`).
* Artefact. A thread past `Acquire` holds the lock alone (`LockHeld`), the cache stays empty while it
  loads (`CacheSeenEmpty`), a digest found equal holds until the file is replaced (`DigestHolds`).
* Training. The drain stays below the ends captured when it began and has read exactly what lies
  below its position (`OffsetsOK`, `DrainTold`); of the copies of a message exactly the one with the
  least offset is kept (`KeptOnce`), and a file written holds the drain's rows (`DatasetTold`,
  `ManifestTold`), in whatever step the export dies. Splits and labels are operators on the
  dataset: two slices share no row and hence no window (`SlicesApart`); counting distinct samples
  counts messages (`CountMessages`), so a label is the share of anomalous seconds the log has. For
  the selection, a lower threshold catches no fewer episodes (`LowerCatchesMore`), so a candidate
  at its own affordable threshold is as good as at any other, and the choice in sequence ends at one
  that no other dominates (`Undominated`).
* Simulator. Each sample generated and not lost with an aborted run is in exactly one place: the rest
  of the tick's batch, the hands of the producer, the late buffer, the wire or the lost ones
  (`OnePlace`); the parcels of the buffer are numbered in the order of their instants
  (`ParcelsInOrder`), which is what a burst releases by. The queue's and the run's counters say how
  many are where (`QueueTold`, `RunTold`). Episodes of a machine follow one another, all but
  the active one over (`EpisodesInOrder`), and a sample is labelled with the one its instant lies in
  (`TruthTold`). The machine and its twin agree in all that outlives an episode
  (`AnomaliesLeaveNoTrace` is inductive: `StepForgets`).
* Live view. A timer runs only where no source is held, and a page that was left has neither
  (`StreamInv`). Every row shown or on its way is one the database has or has had, and the map has
  been told of nothing newer than the table (`OnlyPast`, `Counted`). A page has the row of every
  alert that has not changed since it was read, unless as many newer alerts as the feed has rows
  lie above it (`PagesComplete`, `Low`). So of every stored alert not below the feed, the map has had
  the committed row, or the row is `Coming`, in an announcement, an event, a page or a load that is
  owed, or no stream was told of it (`AllTold`); an open stream without an error owes none unless
  one is under way (`LoadOwed`), which is what the reload on every connection is for and why a
  crash or a cut link loses nothing for good. At rest the first case is left: a row that was told
  and not overtaken is the one held (`ToldRow`), and it is in the feed since what is held above it
  is stored (`ToldFeed`).
* History. The pipe holds the query back or has let it through (`PipeHasQuery`), asks for nothing else
  (`AsksForPassed`), and has shown it once nothing is in flight (`ShownPassed`); the first error ends
  the pipe (`NoReloadAlive`).
* Detail. Of all loads only the youngest matters: it is on its way, has failed, or was answered
  (`YoungestSeen`); what it asks for is the route's alert unless the page strayed, and what it brings
  shows every decision the page has had back, unless `stale` says otherwise or the decision is itself
  on its way (`YoungestRight`); and once it has come, so does the screen, unless an older one came
  after it (`ScreenRight`). A decision is final (`DecidedKept`) and an answer is about the alert that
  was asked for (`AnswersNamed`).

Only model-checked is every liveness property (`SettledUnlessRefused`, `DeadPeersEvicted`,
`SettledOrExited`, `CurveCatchesUp`, `Terminates`, `Reconnects`): fairness and ENABLED are out of the
prover's reach. Every safety property of a passing run is the subject of a theorem. The induction
theorems of the library take an operator as a parameter, which none of the provers can
instantiate; where an argument needs induction it is a least counterexample (`LoopDefined`, `LoopTells`,
`LeastIsMember`, `LeastSubset`, `SumsExist`, `SumRearranged`).

Every type invariant is proved; none is listed by a run, and adding it to the INVARIANTS of the
module's configuration checks it there.

## 5. What the code does not do

Two runs expect a violation, and PROJECT.json quotes the comment each contradicts.

* `DeadLetterKept` (`KafkaErrorHandlingConfig.java:133`): the dead letter is sent without waiting for
  it, and the record is skipped; a send that fails later loses the message silently, which the
  comment at lines 143-145 excludes.
* `CursorCoversPast` (`AlertRepository.java:41`): `event_seq` is drawn by the INSERT and visible at the
  commit, so a cursor beyond an uncommitted number skips that alert for good.

More claims of comments are stated at the end of their modules and refuted by TLC when added to the
named configuration (`MCCursorGap.cfg` for the stream, which needs two threads; otherwise the
configuration of the passing run):

| Claim | Refuted because |
|---|---|
| `AckKeepsLatestFact` (`AlertIngestion`) | the acknowledgement writes every column of the entity it loaded (`AlertLifecycleService.java:94`), and the upsert of a replay does not move `optlock_version`: a revision in between is lost |
| `EveryRecordSettled` (`AlertIngestion`), and `CurveCatchesUp` without its exception | a value the table refuses is not a non-retryable error, so it blocks its partition, against "retrying forever on a corrupt payload is a poison-pill loop" (`KafkaErrorHandlingConfig.java:34-36`) |
| `ShownMatchesStored` (`AlertStream`) | two threads read the row and send it with no order between them (`AlertBroadcaster.java:172`): the older read may be sent last |
| `NewestPlotted` (`TelemetryPersistence`) | the upsert has no version: a thread that lost the partition overwrites newer emissions, against "The last write wins, and it is the one built on the most samples" |
| `AgreesWithDatabase` (`LiveView`) | a list answer replaces the map whatever was streamed since the server read it (`alert-store.service.ts:118`), events are applied in the order threads send them, a replay revises a NEW row without an event (`AlertUpsertRepositoryImpl.java:51-61`), and a failed read loses its event while the stream stays open (`AlertBroadcaster.java:159`) |
| `OneReloadPerConnection` (`LiveView`) | `start()` subscribes again at each visit and nothing unsubscribes: n visits, n reloads per connection |
| `TableAnswersQuery` (`HistoryPage`) | one failed request ends the pipe; `reload()` recovers the look only |
| `FormTold` (`HistoryPage`) | reset emits an empty object, which is spread over the query and clears nothing |
| `RowsWhenThereAreSome` (`HistoryPage`) | the paginator is usable during the debounce, on the page count of the old query |
| `RouteShown` (`AlertDetailPage`) | a load is neither cancelled nor compared with the route |
| `AttemptResolved` (`AlertDetailPage`) | submit, go to another alert and back: the load of the return, read before the decision, is applied after the acknowledgement's answer and shows the alert as NEW |
| `ConflictTold` (`AlertDetailPage`) | after a 409 the reloaded alert hides the form, and with it the message |

Met while modelling, kept in the models where state is concerned, and stated by no property:

* simulator: the exit code is 0 although deliveries failed; a label is published although its telemetry
  was dropped; episode numbers restart at 1 in each process;
* `policy.py:112-114`: maturity is said to be "granted and never revoked"; a late sample in the
  middle lowers the mean step and revokes it;
* `settings.py:76`: the alert gap is said to be aligned with the episodes' gap so that two cannot merge;
  it is measured between window starts, so two close episodes do merge;
* export: twenty idle polls end a drain silently and the manifest calls the snapshot complete; the
  loader does not compare the digest of the manifest;
* artefact: the digest check and `joblib.load` open the file twice; the reference profile is not covered
  by a digest; workers load lazily, so a retraining mixes models across workers;
* selection: "let the caller report" an unaffordable threshold, which no caller does, and the metadata
  then claim the budget; the evaluation counts an episode as detected by one window where an alert
  needs two;
* stream: a replay sends the oldest rows beyond the cursor and does not apply the filters
  (`AlertBroadcaster.java:144-145`); a slow browser holds up the thread that ingests (line 158);
* dashboard: a row that came by an event only has threshold and window count 0
  (`alert-store.service.ts:150-151`), which the live page does not show; a source that is closed and
  opened anew sends no Last-Event-ID, so the server's replay is never used
  by this client; the acknowledged banner and the conflict message survive a navigation; a 409
  of the optimistic lock carries no status;
* the watermark of the alerting query moves only with anomalous windows, so a last run's state waits for the
  next anomaly (nothing is announced late: alerts are sent when a run is counted).

## 6. Not modelled

* REST queries and statistics of the alert service, OpenAPI and tracing filters: they read.
* Progress monitoring and the Spark session (`monitoring.py`, `session.py`): they observe and configure;
  the topic and restart settings of the deployment are assumptions of the models.
* Numbers: physics and sensors are small integers with the code's couplings, a fitted detector is any
  scores, features are exact. Hyperparameter search, calibration, profiles and the report change no
  artefact a reader depends on.
* Contracts other than telemetry's appear as the record types of the modules that use them; payloads are
  abstracted to a revision or a sample count.
* The dashboard's charts, formatting, statistics and routing.
* Docker, scripts and database migrations beyond the constraints the models state.

The components "partly" or "not modelled" in PROJECT.json are so for these reasons. A composition of
`AlertEpisodes` with `AlertIngestion` is left out: between the two is only the topic `alerts`, whose
redelivery and reordering `AlertIngestion` already takes as arbitrary.
