----------------------------- MODULE Telemetry -----------------------------
(***************************************************************************)
(* The way of a sensor reading from the agent to the cloud: the batch and  *)
(* the publish pipeline of one endpoint (PublishManager), the durable      *)
(* buffer in SQLite (MessageBufferModel) with the service that flushes it  *)
(* (MessageBufferSync), and the part of CloudMqttClient that decides what  *)
(* becomes of a publish: live, into SQLite, or into a queue in memory.     *)
(* An endpoint is never started again: a stop throws its PublishManager    *)
(* away, and a start makes a new one.                                      *)
(*                                                                         *)
(* An action is the code between two awaits that really suspend.  SQLite   *)
(* is synchronous (node:sqlite), and the awaits around it only yield to    *)
(* microtasks.  Readings are identities, a payload is the set of readings  *)
(* in it.  Time-outs are actions: a lock ages, a back-off ends, a row      *)
(* outlives its TTL.                                                       *)
(*                                                                         *)
(* The endpoint has no destination of its own, so its binding is the       *)
(* default one to the cloud, which exists when the cloud was connected at  *)
(* the time the bindings were loaded.  Left out: byte quotas (the record   *)
(* quota behaves alike), topics with critical priority (the agent          *)
(* publishes none) and external destinations.                              *)
(***************************************************************************)
EXTENDS Naturals, Sequences, FiniteSets

CONSTANTS
    MaxReadings,         \* bound: how many readings the endpoint's socket delivers
    Encodings,           \* what the compressor may produce: "json", "binary"
    MaxRecords,          \* max_records: quota of the buffer table
    MaxPending,          \* MAX_PENDING_PUBLISHES: cap of the queue in memory
    FlushBatch,          \* flushBatchSize
    MaxFlushPerCycle,    \* maxFlushPerCycle
    MaxRetries,          \* maxRetries
    MaxEvents,           \* bound: how often the link drops, the publish mode changes, bindings
                         \* are reloaded, the endpoint is stopped, or there is a fault
    MaxFaults            \* bound: how often the process crashes or SQLite fails

ASSUME EncodingsAssumption == Encodings \subseteq {"json", "binary"}
ASSUME LimitsAssumption ==
    /\ MaxRecords \in Nat /\ MaxPending \in Nat \ {0} /\ FlushBatch \in Nat
    /\ MaxFlushPerCycle \in Nat /\ MaxRetries \in Nat
ASSUME BoundsAssumption == MaxReadings \in Nat /\ MaxEvents \in Nat /\ MaxFaults \in Nat

Readings == 1 .. MaxReadings         \* numbered as they come in

VARIABLES
    \* PublishManager and its MessageBatcher
    batch,               \* the readings in the batcher
    pub,                 \* the publishBatch under way: where it waits, its payload, its row
    needStop,            \* TRUE before start() and after stop(): there is no manager at work
    orphans,             \* the rows of the publishes a stopped manager left under way; for
                         \* each, has the broker received it?
    plugin,              \* the default binding's plugin: none, bound but idle, running
    \* CloudMqttClient
    connected, mode,     \* is the broker connected; publishMode
    bufferSync,          \* MessageBufferSync: off, waiting for a first connect, started
    pending, draining,   \* pendingPublishes in order; is drainBatch under way
    \* the message_buffer table
    table, nextId,       \* the rows by id (ids grow with created_at); the next id
    flush,               \* the flushBuffer() under way
    \* environment and history
    events, faults,      \* how many there were
    taken,               \* the readings the batcher accepted
    delivered,           \* the readings the broker received in a readable form
    garbled,             \* the readings the broker received as text made of binary data
    dropped,             \* the readings of the rows and messages counted by total_dropped
    lost                 \* the readings whose last copy vanished without being counted

pubVars == <<batch, pub, needStop, orphans, plugin>>
linkVars == <<connected, mode, bufferSync>>
queueVars == <<pending, draining>>
tableVars == <<table, nextId>>
envVars == <<events, faults>>
histVars == <<taken, delivered, garbled, dropped, lost>>
vars == <<pubVars, linkVars, queueVars, tableVars, flush, envVars, histVars>>

Payloads == [data : SUBSET Readings, enc : {"json", "binary", "garbled"}]
Rows == [data : SUBSET Readings, enc : {"json", "garbled"},
         status : {"queued", "sending"},
         locked : {"none", "fresh", "stale"},    \* the age of the lock
         due : BOOLEAN, retries : Nat, expired : BOOLEAN]

NoPub == [pc |-> "idle", data |-> {}, row |-> 0, arrived |-> FALSE]
NoFlush == [pc |-> "idle", todo |-> {}, ok |-> {}, failed |-> {}, handled |-> 0]

TypeOK ==
    /\ batch \subseteq Readings
    /\ pub \in [pc : {"idle", "building", "claimed", "sending"}, data : SUBSET Readings,
                row : Nat, arrived : BOOLEAN]
    /\ orphans \in [DOMAIN orphans -> BOOLEAN] /\ DOMAIN orphans \subseteq Nat
    /\ needStop \in BOOLEAN /\ plugin \in {"none", "idle", "running"}
    /\ connected \in BOOLEAN /\ mode \in {"direct", "buffer"}
    /\ bufferSync \in {"off", "waiting", "started"}
    /\ pending \in Seq(Payloads) /\ draining \in BOOLEAN
    /\ nextId \in Nat \ {0}
    /\ table \in [DOMAIN table -> Rows] /\ DOMAIN table \subseteq 1 .. nextId - 1
    /\ flush \in [pc : {"idle", "sending", "more"}, todo : SUBSET Nat, ok : SUBSET Nat,
                  failed : SUBSET Nat, handled : Nat]
    /\ events \in Nat /\ faults \in Nat
    /\ taken \subseteq Readings /\ delivered \subseteq Readings /\ garbled \subseteq Readings
    /\ dropped \subseteq Readings /\ lost \subseteq Readings

Init ==
    /\ batch = {} /\ pub = NoPub /\ needStop = TRUE /\ orphans = << >> /\ plugin = "none"
    /\ connected = FALSE /\ mode = "direct" /\ bufferSync = "waiting"
    /\ pending = <<>> /\ draining = FALSE
    /\ table = << >> /\ nextId = 1 /\ flush = NoFlush
    /\ events = 0 /\ faults = 0
    /\ taken = {} /\ delivered = {} /\ garbled = {} /\ dropped = {} /\ lost = {}
\* Something happens from outside, or fails.
Event == events < MaxEvents /\ events' = events + 1 /\ UNCHANGED faults
Fault ==
    /\ events < MaxEvents /\ events' = events + 1
    /\ faults < MaxFaults /\ faults' = faults + 1
-----------------------------------------------------------------------------
(* The message_buffer table. *)

Ids == DOMAIN table
DataOf(t, S) == UNION {t[i].data : i \in S}
Without(t, S) == [i \in DOMAIN t \ S |-> t[i]]
Queued(t) == {i \in DOMAIN t : t[i].status = "queued"}

\* The n oldest of a set of rows.
Oldest(S, n) == {i \in S : Cardinality({j \in S : j < i}) < n}

Row(data, enc, status) ==
    [data |-> data, enc |-> enc, status |-> status,
     locked |-> IF status = "sending" THEN "fresh" ELSE "none",
     due |-> TRUE, retries |-> 0, expired |-> FALSE]

\* enforceQuotas: over the quota the oldest queued rows go, the new one included;
\* rows that are being sent never do.
Excess(t) ==
    IF Cardinality(DOMAIN t) > MaxRecords
    THEN Oldest(Queued(t), Cardinality(DOMAIN t) - MaxRecords) ELSE {}

\* insertRecord: row r is added, then the quota is enforced.
Inserted(r) == [i \in Ids \cup {nextId} |-> IF i = nextId THEN r ELSE table[i]]
InsertRecord(r) ==
    LET t == Inserted(r)
    IN  /\ table' = Without(t, Excess(t)) /\ nextId' = nextId + 1
        /\ dropped' = dropped \cup DataOf(t, Excess(t))

\* markRetryFailed; a row that is gone stays gone.  later: was next_retry_at set?
MarkRetryFailed(t, S, later) ==
    [i \in DOMAIN t |->
        IF i \in S THEN [t[i] EXCEPT !.retries = @ + 1, !.due = ~later,
                                     !.status = "queued", !.locked = "none"]
        ELSE t[i]]

\* Mutant: locks are not looked at.
ReadyUnlocked(t) ==
    {i \in DOMAIN t : t[i].due /\ ~t[i].expired /\ t[i].retries < MaxRetries}

\* dequeueReady: the rows a flush may claim.
Ready(t) ==
    {i \in DOMAIN t : /\ t[i].status = "queued" \/ t[i].locked = "stale"
                      /\ t[i].due /\ ~t[i].expired /\ t[i].retries < MaxRetries}
Claimed(t, S) ==
    [i \in DOMAIN t |->
        IF i \in S THEN [t[i] EXCEPT !.status = "sending", !.locked = "fresh"] ELSE t[i]]

\* The rows someone is working on.
Held == (IF pub.row # 0 THEN {pub.row} ELSE {}) \cup DOMAIN orphans
          \cup flush.todo \cup flush.ok \cup flush.failed

Durable == DataOf(table, Ids)
Waiting == UNION {pending[k].data : k \in DOMAIN pending}

Volatile == batch \cup Waiting
-----------------------------------------------------------------------------
(* CloudMqttClient.publish: where a payload goes that is not published live. *)

Live == connected /\ mode = "direct"

\* Mutant: a binary payload is stored as it is.
StoredRaw(enc) == enc

\* handlePublish stores payload.toString('utf-8').
Stored(enc) == IF enc = "json" THEN "json" ELSE "garbled"

\* handlePublish: admission counts every row, then insertRecord makes the payload a row
\* of its own.  The rows in gone, which it replaces, are deleted right after.
BufferPublish(data, enc, gone) ==
    LET t == Inserted(Row(data, Stored(enc), "queued"))
    IN  /\ bufferSync # "off" /\ ~Live
        /\ IF Cardinality(Ids) + 1 > MaxRecords
           THEN /\ dropped' = dropped \cup data
                /\ table' = Without(table, gone) /\ UNCHANGED nextId
           ELSE /\ dropped' = dropped \cup DataOf(t, Excess(t))
                /\ table' = Without(Without(t, Excess(t)), gone) /\ nextId' = nextId + 1

\* SQLite refuses the row.
BufferRejects ==
    bufferSync # "off" /\ ~Live /\ Fault

\* enqueuePending: the oldest message makes room, uncounted.
Evicted == IF Len(pending) >= MaxPending THEN pending[1].data \ delivered ELSE {}
\* Mutant: the memory queue is used whether or not there is a buffer service.
EnqueuePendingAlways(data, enc, gone) ==
    /\ ~Live
    /\ pending' = Append(IF Len(pending) >= MaxPending THEN Tail(pending) ELSE pending,
                         [data |-> data, enc |-> enc])
    /\ table' = Without(table, gone) /\ UNCHANGED nextId

EnqueuePending(data, enc, gone) ==
    /\ bufferSync = "off" /\ ~Live
    /\ pending' = Append(IF Len(pending) >= MaxPending THEN Tail(pending) ELSE pending,
                         [data |-> data, enc |-> enc])
    /\ table' = Without(table, gone) /\ UNCHANGED nextId

\* What reaches the broker when payload <<data, enc>> does.
Receive(data, enc) ==
    /\ delivered' = IF enc = "garbled" THEN delivered ELSE delivered \cup data
    /\ garbled' = IF enc = "garbled" THEN garbled \cup data ELSE garbled
-----------------------------------------------------------------------------
(* PublishManager *)

\* The batcher accepts a reading.
AddMessage(r) ==
    /\ ~needStop /\ r \notin taken /\ \A q \in 1 .. r - 1 : q \in taken
    /\ batch' = batch \cup {r} /\ taken' = taken \cup {r}
    /\ UNCHANGED <<pub, needStop, orphans, plugin, linkVars, queueVars, tableVars, flush,
                   envVars, delivered, garbled, dropped, lost>>

\* batcher.reset() empties the batch, with what came in since the payload was taken.
Reset ==
    /\ batch' = {} /\ pub' = NoPub
    /\ UNCHANGED <<needStop, orphans, plugin>>
Wiped == batch \ pub.data

\* publishBatch up to the first await; without a binding the batch is discarded.
PublishBatch ==
    /\ ~needStop /\ batch # {} /\ pub.pc = "idle" /\ plugin # "none"
    /\ pub' = [NoPub EXCEPT !.pc = "building", !.data = batch]
    /\ UNCHANGED <<batch, needStop, orphans, plugin, linkVars, queueVars, tableVars,
                   flush, envVars, histVars>>

DiscardUnbound ==
    /\ ~needStop /\ batch # {} /\ pub.pc = "idle" /\ plugin = "none"
    /\ Reset /\ lost' = lost \cup Wiped
    /\ UNCHANGED <<linkVars, queueVars, tableVars, flush, envVars,
                   taken, delivered, garbled, dropped>>

\* The interceptor has answered.  publishOffline: no live plugin, the payload becomes a
\* queued row.
PublishOffline ==
    /\ pub.pc = "building" /\ (plugin = "none" \/ ~connected)
    /\ InsertRecord(Row(pub.data, "json", "queued"))
    /\ Reset /\ lost' = lost \cup Wiped
    /\ UNCHANGED <<linkVars, queueVars, flush, envVars, taken, delivered, garbled>>

\* Mutant: what is in SQLite is taken out of the batch at once.
PersistClaimedBatchTakes ==
    /\ pub.pc = "building" /\ plugin # "none" /\ connected
    /\ InsertRecord(Row(pub.data, "json", "sending"))
    /\ pub' = [pub EXCEPT !.pc = "claimed", !.row = nextId] /\ batch' = batch \ pub.data
    /\ UNCHANGED <<needStop, orphans, plugin, linkVars, queueVars, flush, envVars,
                   taken, delivered, garbled, lost>>

\* publishOnline, first half: the payload becomes a row locked for this publish.
PersistClaimedBatch ==
    /\ pub.pc = "building" /\ plugin # "none" /\ connected
    /\ InsertRecord(Row(pub.data, "json", "sending"))
    /\ pub' = [pub EXCEPT !.pc = "claimed", !.row = nextId]
    /\ UNCHANGED <<batch, needStop, orphans, plugin, linkVars, queueVars, flush, envVars,
                   taken, delivered, garbled, lost>>

\* The row cannot be written, and the second attempt in handlePublishFailure fails
\* too: the batch stays for the next publishBatch.
PersistFails ==
    /\ pub.pc = "building" /\ Fault
    /\ pub' = NoPub
    /\ UNCHANGED <<batch, needStop, orphans, plugin, linkVars, queueVars, tableVars, flush,
                   histVars>>

\* The row cannot be written at first; handlePublishFailure stores the payload queued.
PersistRetried ==
    /\ pub.pc = "building" /\ plugin # "none" /\ connected
    /\ Fault
    /\ InsertRecord(Row(pub.data, "json", "queued"))
    /\ Reset /\ lost' = lost \cup Wiped
    /\ UNCHANGED <<linkVars, queueVars, flush, taken, delivered, garbled>>

\* There is no binding any more when the compressor is done: the row is queued.
PublishInterrupted ==
    /\ pub.pc = "claimed" /\ plugin = "none"
    /\ table' = MarkRetryFailed(table, {pub.row}, FALSE)
    /\ Reset /\ lost' = lost \cup Wiped
    /\ UNCHANGED <<linkVars, queueVars, nextId, flush, envVars, taken, delivered, garbled,
                   dropped>>

\* CloudMqttClient.publish stores the compressed payload somewhere else, which
\* counts as published: the row is deleted.
PublishBuffered(enc) ==
    /\ pub.pc = "claimed" /\ plugin # "none"
    /\ BufferPublish(pub.data, enc, {pub.row})
    /\ Reset /\ lost' = lost \cup Wiped
    /\ UNCHANGED <<linkVars, queueVars, flush, envVars, taken, delivered, garbled>>

PublishQueued(enc) ==
    /\ pub.pc = "claimed" /\ plugin # "none"
    /\ EnqueuePending(pub.data, enc, {pub.row})
    /\ Reset /\ lost' = lost \cup Wiped \cup Evicted
    /\ UNCHANGED <<linkVars, draining, flush, envVars, taken, delivered, garbled, dropped>>

\* handlePublish fails on SQLite: the row is queued.
PublishRejected ==
    /\ pub.pc = "claimed" /\ plugin # "none"
    /\ BufferRejects
    /\ table' = MarkRetryFailed(table, {pub.row}, FALSE)
    /\ Reset /\ lost' = lost \cup Wiped
    /\ UNCHANGED <<linkVars, queueVars, nextId, flush, taken, delivered,
                   garbled, dropped>>

\* It is published live; the broker may get it whatever the client learns.
PublishLive(enc) ==
    /\ pub.pc = "claimed" /\ plugin # "none" /\ Live
    /\ \/ /\ pub' = [pub EXCEPT !.pc = "sending", !.arrived = TRUE]
          /\ Receive(pub.data, enc)
       \/ /\ pub' = [pub EXCEPT !.pc = "sending"]
          /\ UNCHANGED <<delivered, garbled>>
    /\ UNCHANGED <<batch, needStop, orphans, plugin, linkVars, queueVars, tableVars,
                   flush, envVars,
                   taken, dropped, lost>>

\* The acknowledgement is in: the row is deleted.
PublishConfirmed ==
    /\ pub.pc = "sending" /\ pub.arrived
    /\ table' = Without(table, {pub.row})
    /\ Reset /\ lost' = lost \cup Wiped
    /\ UNCHANGED <<linkVars, queueVars, nextId, flush, envVars, taken, delivered, garbled,
                   dropped>>

\* The row cannot be deleted: it stays for the lock's time-out.
DeleteFails ==
    /\ pub.pc = "sending" /\ pub.arrived /\ Fault
    /\ Reset /\ lost' = lost \cup Wiped
    /\ UNCHANGED <<linkVars, queueVars, tableVars, flush, taken, delivered,
                   garbled, dropped>>

\* Mutant: a failed publish is only logged, handlePublishFailure is not called.
PublishFailedLogs ==
    /\ pub.pc = "sending" /\ pub' = NoPub
    /\ UNCHANGED <<batch, needStop, orphans, plugin, linkVars, queueVars, tableVars, flush,
                   envVars, histVars>>

\* Mutant: a failed publish leaves the readings in the batch and deletes their row.
PublishFailedKeepsBatch ==
    /\ pub.pc = "sending"
    /\ table' = Without(table, {pub.row}) /\ pub' = NoPub
    /\ UNCHANGED <<batch, needStop, orphans, plugin, linkVars, queueVars, nextId, flush,
                   envVars, histVars>>

\* An error, or no acknowledgement within five seconds: the row is queued.
PublishFailed ==
    /\ pub.pc = "sending"
    /\ table' = MarkRetryFailed(table, {pub.row}, FALSE)
    /\ Reset /\ lost' = lost \cup Wiped
    /\ UNCHANGED <<linkVars, queueVars, nextId, flush, envVars, taken, delivered, garbled,
                   dropped>>

\* The row of a publish that did not succeed cannot be queued: it stays locked, and its
\* readings stay in the batch, to be published again.
MarkFails ==
    /\ \/ pub.pc = "sending"
       \/ pub.pc = "claimed" /\ plugin = "none"
    /\ Fault /\ pub' = NoPub
    /\ UNCHANGED <<batch, needStop, orphans, plugin, linkVars, queueVars, tableVars,
                   flush, histVars>>

\* DevicePublish makes a new manager, whose batcher is empty, and starts it; the default
\* binding exists if the cloud is connected.
Start ==
    /\ needStop
    /\ needStop' = FALSE /\ plugin' = IF connected THEN "running" ELSE "none"
    /\ UNCHANGED <<batch, pub, orphans, linkVars, queueVars, tableVars, flush, envVars, histVars>>

\* BasePublishPlugin.stop() disconnects the client all endpoints share, and with it
\* goes the buffer service, which only a restart of the agent brings back.
StopPlugin ==
    IF plugin = "running"
    THEN connected' = FALSE /\ bufferSync' = "off" /\ draining' = FALSE
    ELSE UNCHANGED <<connected, bufferSync, draining>>

\* stop() sets needStop before it calls publishBatch(), which therefore does nothing, and
\* DevicePublish drops the manager with its batch.  A publish that waits for the
\* interceptor ends there; one that has a row goes on without its manager.
Stop ==
    /\ ~needStop /\ Event
    /\ StopPlugin /\ needStop' = TRUE /\ plugin' = "none"
    /\ batch' = {} /\ pub' = NoPub
    /\ lost' = lost \cup (batch \ (Durable \cup Waiting \cup delivered))
    /\ orphans' = IF pub.row = 0 THEN orphans
                  ELSE [i \in DOMAIN orphans \cup {pub.row} |->
                          IF i = pub.row THEN pub.arrived ELSE orphans[i]]
    /\ UNCHANGED <<mode, pending, tableVars, flush, taken, delivered, garbled, dropped>>

\* The end of such a publish: interrupted after the compressor, failed, or confirmed.
OrphanEnds(i) ==
    /\ \/ table' = MarkRetryFailed(table, {i}, FALSE)
       \/ orphans[i] /\ table' = Without(table, {i})
    /\ orphans' = Without(orphans, {i})
    /\ UNCHANGED <<batch, pub, needStop, plugin, linkVars, queueVars, nextId, flush, envVars, histVars>>

\* The row can neither be deleted nor queued: it stays locked.
OrphanFails(i) ==
    /\ Fault /\ orphans' = Without(orphans, {i})
    /\ UNCHANGED <<batch, pub, needStop, plugin, linkVars, queueVars, tableVars, flush,
                   histVars>>

\* _doReloadBindings: a new plugin replaces the old one, which is stopped first; the
\* new one then finds the client disconnected and cannot start it without a URL.
ReloadBindings ==
    /\ ~needStop /\ Event
    /\ StopPlugin
    /\ plugin' = IF ~connected THEN "none" ELSE IF plugin = "running" THEN "idle" ELSE "running"
    /\ UNCHANGED <<batch, pub, needStop, orphans, mode, pending, tableVars, flush, histVars>>
-----------------------------------------------------------------------------
(* CloudMqttClient: the link, the publish mode, the queue in memory. *)

\* handleConnect: the queue is drained, a waiting buffer service starts.
Connect ==
    /\ ~connected
    /\ connected' = TRUE /\ draining' = (pending # <<>>)
    /\ bufferSync' = IF bufferSync = "waiting" THEN "started" ELSE bufferSync
    /\ UNCHANGED <<pubVars, mode, pending, tableVars, flush, envVars, histVars>>

\* handleClose, handleOffline, handleDisconnect
Disconnect ==
    /\ connected /\ Event
    /\ connected' = FALSE /\ draining' = FALSE
    /\ UNCHANGED <<pubVars, mode, bufferSync, pending, tableVars, flush, histVars>>

\* setPublishMode, called by the connection monitor
SetPublishMode ==
    /\ Event
    /\ mode' = (IF mode = "direct" THEN "buffer" ELSE "direct")
    /\ UNCHANGED <<pubVars, connected, bufferSync, queueVars, tableVars, flush, histVars>>

\* drainBatch publishes the head of the queue, in any publish mode; an error puts it
\* back at the front.
DrainDone ==
    /\ draining
    /\ Receive(pending[1].data, pending[1].enc)
    /\ pending' = Tail(pending) /\ draining' = (pending' # <<>>)
    /\ UNCHANGED <<pubVars, linkVars, tableVars, flush, envVars, taken, dropped, lost>>

DrainLate ==
    /\ draining
    /\ Receive(pending[1].data, pending[1].enc)
    /\ UNCHANGED <<pubVars, linkVars, queueVars, tableVars, flush, envVars, taken,
                   dropped, lost>>
-----------------------------------------------------------------------------
(* MessageBufferSync *)

\* flushBuffer claims the oldest rows that are ready.
Claim(handled) ==
    LET S == Oldest(Ready(table), FlushBatch)
    IN  /\ S # {}
        /\ table' = Claimed(table, S)
        /\ flush' = [NoFlush EXCEPT !.pc = "sending", !.todo = S, !.handled = handled]

FlushBuffer ==
    /\ bufferSync = "started" /\ flush.pc = "idle" /\ Live
    /\ Claim(0)
    /\ UNCHANGED <<pubVars, linkVars, queueVars, nextId, envVars, histVars>>

\* One row after the other is published, the oldest first.
NextRow(i) == flush.pc = "sending" /\ i \in flush.todo /\ \A j \in flush.todo : i <= j
Sent(i, ok) ==
    flush' = [flush EXCEPT !.todo = @ \ {i},
                           !.ok = IF ok THEN @ \cup {i} ELSE @,
                           !.failed = IF ok THEN @ ELSE @ \cup {i}]

FlushLive(i) ==
    /\ NextRow(i) /\ Live
    /\ \/ Sent(i, TRUE) /\ Receive(table[i].data, table[i].enc)
       \/ Sent(i, FALSE) /\ Receive(table[i].data, table[i].enc)
       \/ Sent(i, FALSE) /\ UNCHANGED <<delivered, garbled>>
    /\ UNCHANGED <<pubVars, linkVars, queueVars, tableVars, envVars, taken, dropped, lost>>

\* The link or the mode changed since the claim: the publish is stored, as a new row
\* or in memory, and counts as flushed.
FlushBuffered(i) ==
    /\ NextRow(i)
    /\ BufferPublish(table[i].data, table[i].enc, {}) /\ Sent(i, TRUE)
    /\ UNCHANGED <<pubVars, linkVars, queueVars, envVars, taken, delivered, garbled, lost>>

FlushQueued(i) ==
    /\ NextRow(i)
    /\ EnqueuePending(table[i].data, table[i].enc, {}) /\ Sent(i, TRUE)
    /\ lost' = lost \cup Evicted
    /\ UNCHANGED <<pubVars, linkVars, draining, envVars, taken, delivered, garbled, dropped>>

FlushRejected(i) ==
    /\ NextRow(i)
    /\ BufferRejects /\ Sent(i, FALSE)
    /\ UNCHANGED <<pubVars, linkVars, queueVars, tableVars, histVars>>

\* Mutant: a batch is deleted as a whole.
FlushSettleAll ==
    /\ flush.pc = "sending" /\ flush.todo = {}
    /\ table' = Without(table, flush.ok \cup flush.failed)
    /\ flush' = [NoFlush EXCEPT !.pc = "more"]
    /\ UNCHANGED <<pubVars, linkVars, queueVars, nextId, envVars, histVars>>

\* The batch is done: flushed rows are deleted, failed ones wait for their back-off.
FlushSettle ==
    /\ flush.pc = "sending" /\ flush.todo = {}
    /\ table' = MarkRetryFailed(Without(table, flush.ok), flush.failed, TRUE)
    /\ flush' = [NoFlush EXCEPT !.pc = "more",
                     !.handled = flush.handled + Cardinality(flush.ok \cup flush.failed)]
    /\ UNCHANGED <<pubVars, linkVars, queueVars, nextId, envVars, histVars>>

\* SQLite fails in the settling: the rows it did not come to stay locked.
FlushAborts ==
    /\ flush.pc = "sending" /\ flush.todo = {} /\ Fault
    /\ \/ UNCHANGED table
       \/ \E S \in SUBSET flush.failed :
             S # flush.failed /\ table' = MarkRetryFailed(Without(table, flush.ok), S, TRUE)
    /\ flush' = NoFlush
    /\ UNCHANGED <<pubVars, linkVars, queueVars, nextId, histVars>>

\* The loop goes on while there are rows, the link is up and the cycle's share is
\* not used up; it does not look at the mode again.
FlushMore ==
    /\ flush.pc = "more" /\ connected /\ flush.handled < MaxFlushPerCycle
    /\ Claim(flush.handled)
    /\ UNCHANGED <<pubVars, linkVars, queueVars, nextId, envVars, histVars>>

FlushEnds ==
    /\ flush.pc = "more"
    /\ \/ ~connected \/ flush.handled >= MaxFlushPerCycle
       \/ Oldest(Ready(table), FlushBatch) = {}
    /\ flush' = NoFlush
    /\ UNCHANGED <<pubVars, linkVars, queueVars, tableVars, envVars, histVars>>

\* Mutant: rows that ran out of retries wait for their TTL.
DoomedByAge == {i \in Ids : table[i].expired}

\* cleanupExpired: stale locks are lifted, then hopeless rows go, locked or not.
Doomed == {i \in Ids : table[i].expired \/ table[i].retries >= MaxRetries}
CleanupExpired ==
    /\ bufferSync = "started" /\ flush.pc = "idle"
    /\ Doomed # {} \/ \E i \in Ids : table[i].locked = "stale"
    /\ table' = [i \in Ids \ Doomed |->
                   IF table[i].locked = "stale"
                   THEN [table[i] EXCEPT !.status = "queued", !.locked = "none"] ELSE table[i]]
    /\ dropped' = dropped \cup DataOf(table, Doomed)
    /\ UNCHANGED <<pubVars, linkVars, queueVars, nextId, flush, envVars, taken, delivered,
                   garbled, lost>>
-----------------------------------------------------------------------------
(* Time and crashes *)

\* A lock is fifteen minutes old; whoever holds a row is done long before.
LockAges(i) ==
    /\ table[i].locked = "fresh" /\ i \notin Held
    /\ table' = [table EXCEPT ![i].locked = "stale"]
    /\ UNCHANGED <<pubVars, linkVars, queueVars, nextId, flush, envVars, histVars>>

\* next_retry_at has come.
RetryDue(i) ==
    /\ ~table[i].due
    /\ table' = [table EXCEPT ![i].due = TRUE]
    /\ UNCHANGED <<pubVars, linkVars, queueVars, nextId, flush, envVars, histVars>>

\* expires_at has passed.
Expire(i) ==
    /\ ~table[i].expired
    /\ table' = [table EXCEPT ![i].expired = TRUE]
    /\ UNCHANGED <<pubVars, linkVars, queueVars, nextId, flush, envVars, histVars>>

\* The process dies, or exits after a stop: only the table survives.
Crash ==
    /\ Fault
    /\ batch' = {} /\ pub' = NoPub /\ needStop' = TRUE /\ orphans' = << >>
    /\ plugin' = "none"
    /\ connected' = FALSE /\ mode' = "direct" /\ bufferSync' = "waiting"
    /\ pending' = <<>> /\ draining' = FALSE /\ flush' = NoFlush
    /\ lost' = lost \cup (Volatile \ (Durable \cup delivered))
    /\ UNCHANGED <<tableVars, taken, delivered, garbled, dropped>>
-----------------------------------------------------------------------------
PublishStep ==
    \/ PublishBatch \/ DiscardUnbound \/ PublishOffline
    \/ PersistClaimedBatch \/ PublishInterrupted
    \/ \E enc \in Encodings : PublishBuffered(enc) \/ PublishQueued(enc) \/ PublishLive(enc)
    \/ PublishConfirmed \/ PublishFailed

FlushStep ==
    \/ FlushBuffer \/ FlushSettle \/ FlushMore \/ FlushEnds
    \/ \E i \in flush.todo : FlushLive(i) \/ FlushBuffered(i) \/ FlushQueued(i)

Next ==
    \/ \E r \in Readings : AddMessage(r)
    \/ PublishStep \/ PersistFails \/ PersistRetried \/ PublishRejected \/ DeleteFails
    \/ MarkFails
    \/ Start \/ Stop \/ ReloadBindings
    \/ \E i \in DOMAIN orphans : OrphanEnds(i) \/ OrphanFails(i)
    \/ Connect \/ Disconnect \/ SetPublishMode \/ DrainDone \/ DrainLate
    \/ FlushStep \/ (\E i \in flush.todo : FlushRejected(i)) \/ FlushAborts \/ CleanupExpired
    \/ \E i \in Ids : LockAges(i) \/ RetryDue(i) \/ Expire(i)
    \/ Crash

\* The publisher's batch timer, the flush and cleanup timers fire again and again; a
\* live publish ends within five seconds; locks and back-offs run out.  Nothing makes
\* a link come back or a row expire.
Fairness ==
    /\ WF_vars(PublishStep) /\ WF_vars(\E i \in DOMAIN orphans : OrphanEnds(i))
    /\ WF_vars(FlushStep) /\ WF_vars(CleanupExpired)
    /\ WF_vars(\E i \in Ids : LockAges(i)) /\ WF_vars(\E i \in Ids : RetryDue(i))

Spec == Init /\ [][Next]_vars /\ Fairness
-----------------------------------------------------------------------------
(* Properties *)

Copies == batch \cup Durable \cup Waiting

\* No reading disappears without a trace: one the batcher accepted has a copy in the
\* batch, in SQLite or in the memory queue, or reached the broker, or belongs to a row
\* or message that total_dropped counts, or went in one of the windows that lost
\* records: an unbound batch, a reset over readings that came in during the publish, the
\* batch of an endpoint that is stopped, an eviction from the memory queue, a crash.
NoReadingVanishes ==
    taken \subseteq Copies \cup delivered \cup garbled \cup dropped \cup lost

\* What SQLite has is safe: a reading leaves the table only when the broker has it or
\* a drop is counted, or, once the buffer service was switched off under the publisher,
\* into the memory queue.  This is weaker than agent/docs/transport-switch-buffering-
\* review.md:55, where a row goes only after its publish succeeded: publish() reports
\* success for what it merely stored.
DurableStaysSafe ==
    [][\A r \in Durable \ DataOf(table', DOMAIN table') :
          \/ r \in delivered' \cup garbled' \cup dropped'
          \/ bufferSync = "off" /\ r \in lost' \cup Waiting']_vars

\* "used ONLY when bufferSync is disabled": the memory queue is empty while there is
\* a buffer service.
QueueOnlyWithoutBuffer == bufferSync # "off" => pending = <<>>

\* A row is never worked on twice: the inline publisher, the publishes of stopped managers
\* and the flush hold different rows, and a row any of them holds stays locked against the
\* others until it is settled or has outlived its TTL.
OneWorkerPerRow ==
    /\ pub.row \notin DOMAIN orphans
    /\ (DOMAIN orphans \cup {pub.row}) \cap (flush.todo \cup flush.ok \cup flush.failed) = {}
    /\ \A i \in Held \cap Ids : table[i].status = "sending" /\ table[i].locked = "fresh"
    /\ flush.todo \cup flush.ok \cup flush.failed \subseteq Ids

\* The table keeps to its quota, except for the rows that enforceQuotas cannot drop
\* because they are locked: those of a flush, that of the publish under way, as many again
\* for each crash or SQLite error, which leaves locked rows behind, and one for each other
\* event, since a stop leaves a publish behind.
TableBounded ==
    \/ Cardinality(Ids) <= MaxRecords
    \/ Cardinality(Ids) <= (FlushBatch + 1) * (faults + 1) + (events - faults)

\* Once the link, the direct mode, the buffer service and the endpoint stay up, the
\* agent gets rid of every reading it has: each is delivered, or runs out of retries,
\* without waiting for its TTL.
ReadingsSettle ==
    <>[](Live /\ bufferSync = "started" /\ ~needStop) => []<>(Copies = {})

\* The telemetry path is a store-and-forward stage.
SF == INSTANCE StoreAndForward WITH
    Items <- Readings, held <- Copies, givenUp <- dropped \cup lost \cup garbled
ImplementsStoreAndForward == SF!Spec
=============================================================================
