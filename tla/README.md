# Iotistica: specification and verification

TLA+ models of the edge agent of Iotistica and of the cloud's ingestion service, checked with TLC on small instances, with
theorems proved by TLAPS. The models are translated from the TypeScript sources;
`PROJECT.json` maps every definition to the lines it stands for.

Iotistica manages fleets of edge devices. A cloud API holds a *target state* (apps,
services, configuration) for each device. The agent on the device polls it, carries it out
with Docker and its protocol plugins, reports its *current state*, and ships device data and
logs over MQTT. An ingestion service moves the data into the databases.

## Inventory

| Component | State | Operations | Hard behaviour | What makes it correct |
|---|---|---|---|---|
| `ConnectionMonitor`, `CloudSync` handlers (agent) | failure counters, `isOnline`; publish mode of the MQTT manager | `markSuccess`, `markFailure`, the online, offline, degraded and reconnect handlers | outcomes of two loops in any order | verdict agrees with the counters; direct publishing only on evidence; no mode is a dead end |
| `StateReporter` (agent) | last report, forced report, lock, circuit breaker | the report loop | reports, flushes, reconnects and forced reports overlap | a report is sent, queued or superseded, never lost or doubled |
| `CloudTransport`, `OfflineQueue` (agent) | SQLite queue with TTL and size limit | `sendReport`, `flushOfflineQueue`, `enqueue`, `dequeue` | failure in mid-flush, full queue, crash | reports leave the queue for a reason; the queue drains |
| `StatePoller` (agent) | ETag, full-refresh flag | `pollTargetState`, `pollNow` | ETag kept before the body is read; polls that fail half way | a 304 is only for a target that is held; the newest target arrives |
| `StateManager`, snapshot table (agent) | target, snapshots, timer, pending flag | `setTarget`, `reconcile` | targets that arrive during a run; crash | at rest means reconciled; a restart resumes the target |
| `ContainerManager`, planner, executor, `DockerManager`, `RetryManager` (agent) | target, current state, plan, retry state | `setTarget`, auto-reconciliation, the steps, the sync | plans from stale state, failed steps, syncs in mid-step, crashes | an empty plan means done; the target is carried out and stays so |
| `ConfigManager` (agent) | config, endpoint table | `setTarget` | throws half way | (only its place in a reconciliation so far) |
| Health checks (agent) | probes per container | restart of an unhealthy container | not guarded against a running apply | a restart and an apply do not undo each other |
| `PublishManager`, `MessageBufferSync`, `message_buffer`, publish side of the MQTT manager (agent) | batch, table rows with locks and retry counts, queue in memory | `publishBatch`, `handlePublish`, `flushBuffer`, `cleanupExpired`, drain, start, stop, reload | readings that arrive during a publish, a link that drops in mid-flush, quotas, SQLite errors, crash | a reading is delivered, held or counted as dropped; no row is worked on twice |
| Log shipping (agent) | spool files | append, replay, rotate | crash between replay and delete | no log line lost before its limit |
| Provisioning (agent and API) | keys, registration state | register, exchange, retry | lost answers, retries | one device, one identity |
| Updater, lifecycle, health arbiter (agent) | phases, update lock | start-up, update, restart | update during a reconciliation | one update at a time |
| State routes, MQTT ingestion, deduplication (API) | ETag, Redis keys | answer a poll, ingest | redelivery, expiry | each message is stored once |
| Broker monitor leader (API) | Redis lease | acquire, renew, release | expiry during work | one leader |
| Ingestion service | Redis stream and pending list, tracker, circuit breaker, disk spool, dead letters | read, claim, insert, spool, acknowledge, retry, replay | outages, crash between write and acknowledge, two workers with one entry, replay against append | acknowledged means stored, spooled or dead-lettered; the backlog clears |
| Telemetry publisher (API) | spool in front of Redis | publish, spool, replay | Redis outage | nothing is lost while Redis is away |
| Jobs, audit, auth, remote sessions (API) | PostgreSQL rows | request handlers | retries | idempotence |
| Plugins, discovery, anomaly detection, VPN, firewall, deployment | – | device and OS I/O, numerics, configuration | – | outside these models |

How the parts interact: `StatePoller` calls `StateManager.setTarget`; a debounced
`reconcile` hands apps to `ContainerManager` and configuration to `ConfigManager`; when it is
done it asks `StateReporter` for a report. `StateReporter` reads the current state, which
makes `ContainerManager` sync from Docker. Outcomes of polls and reports feed
`ConnectionMonitor`, whose events switch the publish mode that `CloudTransport` reads.
Readings of an endpoint go from its socket into a batch, from there over SQLite to the broker
or, when the broker cannot be used, stay in SQLite until a flush. The cloud puts what it
receives into a Redis stream, from which the ingestion service fills the database.
Node runs one callback at a time, so the interleavings are those of code between awaits that
really suspend; SQLite (`node:sqlite`) does not suspend.

## Modules

| Module | What it is |
|---|---|
| `CloudSync` | `ConnectionMonitor`, the handlers of `sync/index.ts`, the report loop, `CloudTransport`, `OfflineQueue` |
| `TargetState` | `StatePoller` and the route that answers it, `StateManager` with its snapshot table, the hand-over to the managers |
| `ContainerManager` | planner, executor, retry state, sync, liveness restarts, and Docker as `DockerManager` uses it |
| `Telemetry` | `PublishManager` and `MessageBatcher` of one endpoint, `MessageBufferSync`, `MessageBufferModel`, `publish` and the memory queue of `CloudMqttClient` |
| `Ingestion` | the Redis stream and consumer group, the worker loops, circuit breaker, disk spool and replayer, dead-letter queue |
| `StoreAndForward` | abstract: what a stage promises that takes items in and passes them on; `Telemetry` and `Ingestion` implement it |
| `MC*` | the modules TLC runs: instances of constants, symmetry |
| `CloudSyncProofs`, `TargetStateProofs`, `ContainerManagerProofs`, `TelemetryProofs`, `IngestionProofs` | theorems and proofs, one module per component |
| `TelemetryQuotaProofs` | the theorem about the size of the message table, which counts rows, on top of `TelemetryProofs` |

Operators marked "Mutant" are plausible mistakes in the operator that follows them, of the
same signature. They are part of no specification; `PROJECT.json` pairs each with a property
that fails when the mistake is made.

### CloudSync

`report` and `flush` are the two activities that wait for the network: their `pc` says at
which await, their `item` which report they hold. `queue` is the offline queue; memory and
SQLite hold the same items, since `enqueue` and `dequeue` change both before they return.
`http` and `broker` are what a request meets now. The failure counters stop at the threshold
of three, since only comparisons with 0, 2 and 3 are made; for the same reason any failure at
the threshold may be the tenth, which opens the circuit breaker. A report loop may run
whenever its timer could have fired.

Runs of `CloudSync`:

* `cloudsync_safety`: four report identities (the queue of two, one in flight, one being
  flushed: no two reports that are held are confused), queue limit 2 and batch 2, so that the
  queue overflows and a batch ends with reports left, one crash. Checks types and limits,
  that the monitor's verdict agrees with its counters, that no report is in two places, that
  reports leave only for a reason, and that direct publishing needs evidence.
* `cloudsync_live`: one identity (liveness does not tell reports apart), no crash. Checks that
  "recovering" ends and that direct publishing drains the queue, if the link stays up.
* `cloudsync_flush` (violated): the README's "flush when connectivity returns". Two failures
  in a row switch to buffer-only; if the third request succeeds, the link never counted as
  offline, no online event comes, and every report is queued until the MQTT connection drops
  and returns.

### TargetState

A target is the pair of its apps' version and its config's version. `poll.pc` is the await a
poll is at: for the headers or for the body. `rec` is where `reconcile` is; `isReconciling` is
`rec # "idle"`. A row of `snapshots` has the second it was saved in; only the order of seconds
matters, so they are counted from the oldest row; a save falls into the last row's second or a
later one. Of the cloud API the module has the route that answers a poll
(`api/src/routes/agent/state.ts`) and the target behind it: a target is published, or an edit
is held back (`needs_deployment`) until it is deployed or cancelled, and meanwhile every poll
is answered 304. Cancelling restores the deployed target and so its ETag; a cancelled edit that
had changed the version counts as a new version.

Runs of `TargetState`, with two versions (the second without config of its own, so that the
merge keeps the old one), one local edit, one fault (a crash, an unreadable body or a failed
reconciliation), and in `target_main` one edit held back:

* `target_main`: types; the ETag stands for a target that is held; `StateManager` at rest has
  handed over its newest target; a restart resumes the target, unless the two rows kept were
  saved within one second; the cloud's last target arrives, that case included; a target is
  reconciled. The exception is real: `createdAt` has whole seconds and is the only sort key of
  `getLatest` and of the trim (`state-snapshot.model.ts:27`), so of two targets saved within one
  second the older one is loaded, although `.github/agent-instructions.md:317` says that the
  target "survives restarts". Properties that a fault
  breaks say so in their premises (`Undisturbed`, `RefreshWorks`). `RefreshWorks` excludes, beside
  unreadable bodies, a crash together with an edit held back: the 304 that holds the edit back
  ends the full refresh (`state-poller.ts:278`) which is to repair an ETag that was stored and
  whose body was lost in the crash. If the edit is then cancelled, the agent is told 304 for
  ever for a target it never got. Without that premise TLC shows it in eight steps.
* `target_pending` (violated): a run that throws leaves the pending flag unserved, although
  `core/state.ts:259` names it as the guard against lost updates.
* `target_etag` (violated): a body that cannot be read, and the next poll is told 304 for a
  target the agent never got.

### ContainerManager

`docker[s]` is the container with the name of service `s`; names are unique in Docker, so
there is at most one. Ids tell a container from its successor: a new one gets an id nothing
refers to. `current[s]` is the sequence of entries of `s`; there may be two, because
`addServiceToCurrentState` appends, and the planner reads the last one while the executor
changes the first. `steps` is what is left of the plan, `phase` the await inside the first
step: before Docker's answer, after it, after the look for a container of that name, after
create, after start, while logs are attached. A sync lists the containers in one action and
replaces `current` in another.

`watched[s]` are the container ids whose liveness probe runs, `heal[s]` is the
`restartUnhealthyContainer` under way: it picks the service out of `current`, stops, removes,
looks for the name, creates, starts and then replaces the entries of the service, with no regard
to an apply that does the same. `startContainer` is shared by both, so a container may appear
between the look and the create, or vanish between create and start; the call then fails as
Docker's does. The object picked stays part of `current` until a sync or a removal replaces it, so
`updateServiceState` may still change it (`shared`). What a sync lists has no probes
(`probed`), hence a container that is restarted after a sync is not watched any more; nor is one
that the agent finds when it starts. Nothing in the repository says that they should be, so this
is described here and not stated as a property.

The agent starts on a new device or on one whose target this or an earlier process has carried out. A
pull fails while the registry is away, and counts as an attempt of the `RetryManager`; the pull
inside `startContainer` does not ask the `RetryManager`.

Runs of `ContainerManager`: two services, so that the app can exist without one of them. The
app is absent, or its first service is absent, wanted in any state or wanted with another
image, while the second runs. Two events happen anywhere: a new target (while a plan is at any
point), an exit, a failed probe of the first service, an outage of the registry, a pull that is
refused, a failed start, a crash. A failed probe counts as an event although the probe of a
container that an apply is stopping fails by itself: if that happened in every stop of a service
that is to go, before the stop returns, the restart would bring it back every time.

* `container_main`: types; with fresh information an empty plan means that every service is as
  wanted, unless its image may not be pulled now or its container was left unstarted; the last
  target is carried out and stays so, with the exceptions `Excused` names.
* `container_stopped` (violated): a service that is to be stopped. The stopped container is
  listed as exited, the rule for exited containers recreates and starts it, the next sync sees
  it run and it is stopped again.
* `container_created` (violated): a crash between create and start. The container is listed
  with status "created", which counts as running, and "no changes needed" is reported for ever.

The exceptions in `NothingToDoMeansSettled` and `Settles` are these findings and the images
given up after `maxRetries`.

### StoreAndForward

An item is taken once; from then on it is held, delivered or given up. It may be delivered
again while it is held. It never stops being held without being delivered or given up, and
nothing that is not held is delivered. `Telemetry` implements it with the readings of an
endpoint (held: in the batch, in SQLite or in the memory queue; given up: dropped, lost or
received as garbage), `Ingestion` with the entries of the stream (held: in the stream, pending,
with a worker, spooled, being replayed; given up: dead-lettered, passed over or lost).

### Telemetry

`pub` is the `publishBatch` under way: *building* (the interceptor runs), *claimed* (its row is
in SQLite, the compressor runs), *sending* (waiting for the broker). `flush` is the
`flushBuffer` under way, with the rows it has still to send, those sent and those failed.
`table` is `message_buffer`; ids grow with `created_at`. What `CloudMqttClient.publish` does
with a payload has three outcomes: live, a row (`BufferPublish`), the queue in memory
(`EnqueuePending`). `dropped` holds the readings that `total_dropped` counts; `lost` the ones
that vanish unseen, added where the code lets them vanish and nowhere else:

* `reset()` empties the batch with the readings that arrived since the payload was taken;
* a batch without bindings is discarded;
* a stop: `stop()` sets `needStop` before it calls `publishBatch`, which therefore returns at
  once, and `DevicePublish.onStop` throws the manager away with its batch
  (`publish/init.ts:178-183`); the next `onStart` makes a new manager. This happens within one
  process, around a discovery and when an endpoint is enabled (`init/adapters.ts`);
* the memory queue evicts its oldest message;
* a crash.

A publish that had its row when its manager was stopped goes on without it: `orphans` has the
rows of such publishes, with whether the payload had arrived. It ends by deleting the row or by
queueing it again, or leaves it locked when SQLite fails.

`garbled` holds the readings that reached the broker as text made of binary data: a compressed
payload that meets a closed link is stored with `toString('utf-8')`. A message that is being
drained counts as the head of the queue until the broker has answered.

`telemetry_main`: two readings, room for one row and one queued message, so that every limit is
met; two events (link drop, mode change, reload, stop, fault), at most one of them a crash or an
SQLite error. Checked: types (the stored encodings included); every reading taken is
held, delivered, counted or lost in a named window; readings leave SQLite only when delivered
or counted, or into memory once the buffer service is off (weaker than
`agent/docs/transport-switch-buffering-review.md:55`, "deleted only after publish succeeds":
`publish()` also succeeds when it has stored or queued the payload); the memory queue is used only
then; no row has two workers; the table stays within its quota, or within the rows that cannot be
dropped: those of a flush and of the publish under way, as many again for each fault that
left its locked rows behind, and one for each other event, since a stop may leave a publish behind;
while link, mode, buffer service and endpoint stay up, everything is sent or runs out of
retries; the refinement of `StoreAndForward`.

### Ingestion

`worker[w]` is where a worker loop is: resolving its batch, inserting it, spooling it,
acknowledging it, or counting failures; `after` says why it spools or acknowledges, which
decides what an error there leads to. `pel` and `idle` are the pending entries and those idle for
60 s. `files` are the spool files, `replay` the file the replayer has read and not yet deleted,
`inflight` what it has read, deleted and not yet inserted. The replayer asks a breaker nobody
reports to, so it never waits. `config` is chosen once: how many workers, whether there is a
spool, and which entries cannot be decoded or normalised. `lost` is filled where the code
loses an entry: the stream is trimmed, the spool quota deletes a file, a file is deleted with
what was appended since it was read, the insert of a replayed batch fails, the process dies
with replayed batches in hand.

`ingestion_main`: two entries and two workers, batches of two; a stream of one, a spool of one,
thresholds of one, two retries; one outage, one fault (crash, Redis or disk error, lost
acknowledgement). Checked: what is acknowledged is stored, dead-lettered, spooled, in the
replayer's hands or lost in a named window; "XACK only after successful DB write" as at-least-once
delivery without the spool or without failures; the tracker suppresses only what was processed;
the backlog clears once the database is back for good (an outage that lasts may leave batches in
the spool); the refinement of `StoreAndForward`.

`ingestion_spool` (violated), with an outage and no other fault: the replayer should wait for the
circuit to close (`disk-spool.ts:102`, `.github/agents/ingestion-expert.agent.md:143`), and
`docker-compose.yml:231` enables the spool to buffer batches while the database is unavailable.
But `disk-spool.ts:107` asks the breaker that `circuit-breaker.ts:75` exports, while the workers
report to their own (`worker.ts:121`): the replayer takes up the file while the workers' circuit
is open, deletes it and loses what it cannot insert. `lost` records these entries, and
`AtLeastOnce` holds only without the spool or without failures.

### Bounds

All bounds are constants whose names start with `Max`. They cut behaviours, not cases: each
bound lets every action and every branch happen, several of them in one behaviour. Theorems do
not depend on them. The container model was also checked with one service, one image and three events;
nothing changed.

### Fairness

Weak fairness is assumed of code that a timer or a settled promise runs: the loops, the debounce
timer, the auto-reconciliation, a request that ends by an answer or its timeout, a Docker
call that returns. In `ContainerManager` an outage of the registry ends; `Settles` would
otherwise say nothing of an image that is not there. In `Telemetry` the publisher, the flush
and the clean-up go on (timers), locks and back-offs run out; nothing makes a link come back or a
row expire, so `ReadingsSettle` has the link in its premise. In `Ingestion` each worker loop and
the replayer go on and an entry nobody acknowledges becomes idle; the database need not come
back (`BacklogClears` has it in its premise) and the breaker need not cool down. Strong fairness is assumed once, in `TargetState`: a poll that may fail any
number of times is answered again and again. No fairness is assumed of the link to the cloud, deployments, crashes,
edits, MQTT drops, `RateLimited` or `ForceRefresh`. In `cloudsync_live` the premise `LinkStaysUp` is part
of the property.

## Proofs

TLAPS proves, for all values of the constants that satisfy the named assumptions (bounds are
naturals, queue and batch sizes are positive, `NoReport` is no report, local configs are not
versions), every safety property that a run checks: all invariants, all action properties and both
refinements.

| Theorem | Argument |
|---|---|
| `CloudSyncProofs!TypeCorrect` | TypeOK is inductive with a bound on the batch: a flush that is to take another report has tried fewer than `BatchSize`. The lemmas on `Push`, `PruneExpired`, `AfterItem` and `StartFlush` carry it. |
| `CloudSyncProofs!MonitorIsConsistent` | Every step is a monitor step: a success or a failure of one operation, a reset, or none (`NextIsMonitorStep`); each keeps the agreement of counters and verdict. |
| `CloudSyncProofs!DirectNeedsEvidence` | Case by case over the actions that write `publishMode`. |
| `CloudSyncProofs!EachReportOnce` | `CopiesInv`: the property, and who is not sending has no report; without the second part a report could come back from an idle sender. Every change of the queue drops from its old end, takes its head or appends a report that is not in it (`QueueMove`). Hypothesis `EnoughReports`: the pool of identities has two more than the queue has places, so that a new report always finds a free one. In the code every report is a new object; the pool is finite only for TLC. |
| `CloudSyncProofs!ReportsLeaveWithReason` | From `CopiesInv`, action by action; where a report is nowhere else, what removes it must be one of the reasons. Same hypothesis. |
| `TargetStateProofs!TypeCorrect` | TypeOK with the order of the snapshot table, which is needed for what `Trim` leaves. |
| `TargetStateProofs!RestIsReconciled` | `HandOver`: the newest target waits for the timer or for the pending flag, or its apps are handed over and its config is or is about to be. RestMeansReconciled alone says nothing of the states between. |
| `TargetStateProofs!EtagIsHeld` | `EtagInv` says what the ETag stands for at each point of a poll: without crashes it always is the target held; without edits held back it is unless the next request is unconditional. |
| `TargetStateProofs!RestartResumes` | `TableHolds`: the last row of the table is the target, or the two rows are of one second. A trim deletes the newest of three rows only when all three are of one second; `Latest` picks the last row of two different seconds. |
| `ContainerManagerProofs!TypeCorrect` | TypeOK is not inductive. It needs: a step that pulls or starts carries a service (a `startStoppedContainer` step gets its service between two awaits), a container has an image, a key that may be tried again has failed fewer than `MaxRetries` times, whatever a restart has picked or still shares with `currentState` is an entry, and only finitely many ids are referred to, so a fresh one exists (pigeonhole). |
| `ContainerManagerProofs!PlannerIsComplete` | A plan is the concatenation of one part per service. `FlattenEmpty`: it is empty only if every part is. Then case by case over what `planStepsToRemoveApp`, `planStepsToAddApp` and `planStepsToUpdateApp` do with a service: no part is empty by accident. |
| `TelemetryProofs!TypeCorrect`, `QueueNeedsNoBuffer` | TypeOK in its named parts, one per record or group of variables; `QueueInv`: nothing is drained from an empty queue. |
| `TelemetryProofs!RowsHaveOneWorker` | `WorkInv`: whoever works on a row has it locked, and which of the two workers has one depends on where they are; `OrphanInv`: the same of the publishes that stopped managers left behind. The property alone does not say that a publish which is not under way holds no row. |
| `TelemetryProofs!ReadingsLeaveTraces`, `DurableIsSafe` | `DataInv`: the row of a publish has its payload until the row is dropped and counted, the payload is in the batch, and a row counts as flushed only once its readings are safe outside the rows about to be deleted (`Kept`). |
| `TelemetryProofs!Refinement` | Every reading taken is held or settled; what a step delivers or gives up was held or has just come in, and what was held stays held or is delivered or given up. |
| `TelemetryQuotaProofs!QuotaHolds` | `QuotaInv`: a flush claims at most a batch, and the locked rows nobody works on are at most `FlushBatch + 1` for each fault so far, and the publishes left behind at most one for each other event. With no row to drop, all rows are locked ones. |
| `IngestionProofs!TypeCorrect` | TypeOK with `ReplayOK`: while the replayer has a file, that file is the first one or is marked gone. |
| `IngestionProofs!AcknowledgedKept`, `TrackedProcessed` | `RangeInv` (what is pending or with a worker was delivered by the stream) and `SafetyInv`: what a worker is about to acknowledge is already safe, depending on where it is. Both properties alone say nothing of workers on their way. |
| `IngestionProofs!DeliveredAtLeastOnce` | `CalmInv`: without a spool, or before the first failure, no spool file exists, no worker spools, the breaker is closed, and only trimmed entries are lost. |
| `IngestionProofs!Refinement` | Every entry taken is held or settled (a consequence of the invariants), and each step settles and holds only what was held. |

TLC checked each inductive invariant on the run's instance before it was proved, `QuotaInv` also
with three readings and batches of one. The proof of `QuotaHolds` corrected its property: the
first bound, one row more than the quota and one for each fault, held on the instance of the run
but not for larger flush batches, since a crash in mid-flush leaves a whole batch locked.

Induction over data is done by hand where it is needed. The library's induction theorems cannot
be used, but a set of naturals has a least element (`LeastNumber`, `LeastElement`), so the least
place where a fact would fail is examined instead; that is how the recursive function in
`FlattenSeq` is shown to exist and to compute the concatenation.

Only model-checked: the liveness properties (`RecoveringEnds`, `DirectDrainsQueue`,
`CloudTargetArrives`, `TargetIsReconciled`, `Settles`, `ReadingsSettle`, `BacklogClears`), because
fairness and `ENABLED` are outside the prover, and the properties that the code violates.

## Not modelled

Contents of reports and payloads, byte quotas, external destinations, networks, volumes and
other fields of a service, the K3s back end, startup and readiness probes, autoscaling of the ingestion
workers, and all components that `PROJECT.json` lists as not modelled, with reasons. A device
that is not provisioned does not run these loops.

Steps taken as one: the append of a spooled batch with its quota check; the end of an MQTT
client and the switching off of the buffer service in `disconnect()`; the dead-lettering of the
undecodable entries of one batch.

## Plan

1. An abstract view of `TargetState` (a register that is written and eventually carried out)
   with `TargetState` as its implementation, proved step by step.
2. More action properties worth a theorem where the invariants now proved make them short: what
   an apply may do to a container that it did not plan for, what a crash may cost in `CloudSync`.
3. The publisher of the cloud API, whose spool stands in front of Redis, as a third
   implementation of `StoreAndForward`; then the leader lease of the broker monitor, the
   deduplication of redelivered messages, the log spool and provisioning.
