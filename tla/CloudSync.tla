----------------------------- MODULE CloudSync -----------------------------
(***************************************************************************)
(* The agent's link to the cloud: ConnectionMonitor, the event handlers of *)
(* CloudSync that drive the publish mode of the MQTT manager, the report   *)
(* loop of StateReporter, CloudTransport and its OfflineQueue.             *)
(*                                                                         *)
(* Node runs one callback at a time, so an action is the code between two  *)
(* awaits that really suspend (a network call or a timer).  The poll loop  *)
(* appears only through the outcome of its requests; what a poll does to   *)
(* the target state is the subject of TargetState.                         *)
(*                                                                         *)
(* Left out: timestamps (a loop may run whenever its timer could have      *)
(* fired; the intervals do not change), the content of a report, SQLite    *)
(* errors.  The device is provisioned and runs at least one app, so no     *)
(* report is empty.                                                        *)
(***************************************************************************)
EXTENDS Integers, Sequences, FiniteSets, SequencesExt

CONSTANTS
    Reports,      \* identities of reports
    NoReport,     \* no report in that place
    MaxQueue,     \* OfflineQueue's maxSize (1000 in transport.ts)
    BatchSize,    \* reports per flush batch (10 in transport.ts)
    MaxCrashes    \* bound: how often the agent process may die

ASSUME NoReportAssumption == NoReport \notin Reports
ASSUME QueueAssumption == MaxQueue \in Nat \ {0}
ASSUME BatchAssumption == BatchSize \in Nat \ {0}
ASSUME CrashAssumption == MaxCrashes \in Nat
ASSUME ReportsAssumption == Reports # {} /\ IsFiniteSet(Reports)

DEGRADED_THRESHOLD == 2
FAILURE_THRESHOLD == 3
Operations == {"poll", "report"}
PublishMode == {"direct", "buffer-only", "recovering"}

VARIABLES
    \* the outside world
    http,             \* what an HTTP request meets: "ok", "fail" (network, 5xx) or "reject" (4xx)
    broker,           \* does the MQTT broker answer?
    connected,        \* CloudMqttClient.connected
    crashes,          \* how often the process has died (bounded by MaxCrashes)
    \* ConnectionMonitor.state
    isOnline,
    failures,         \* consecutivePollFailures, consecutiveReportFailures
    \* CloudMqttClient
    publishMode,
    \* StateReporter
    report,           \* the report cycle: pc, the report in flight, the is_online it
                      \* carries, and whether the state moved on since it was built
    forceNextReport,
    dirty,            \* the current state differs from lastReport, is_online apart
    lastReport,       \* "none", or the is_online it carried: "online", "offline"
    circuitOpen,      \* CircuitBreaker.isOpen() of the report loop
    \* CloudTransport
    queue,            \* reportQueue; memory and SQLite hold the same items
    flush             \* flushOfflineQueue: pc, the dequeued report, sentInBatch, tried in this batch

world    == <<http, broker, connected, crashes>>
monitor  == <<isOnline, failures>>
reporter == <<report, forceNextReport, dirty, lastReport, circuitOpen>>
vars     == <<http, broker, connected, crashes, isOnline, failures, publishMode,
              report, forceNextReport, dirty, lastReport, circuitOpen, queue, flush>>

OnlineFlag == IF isOnline THEN "online" ELSE "offline"

IdleReport == [pc |-> "idle", item |-> NoReport, flag |-> "none", overtaken |-> FALSE]
IdleFlush  == [pc |-> "idle", item |-> NoReport, sent |-> 0, tried |-> 0]

(* The reports the agent still answers for. *)
Held == Range(queue) \cup ({report.item, flush.item} \ {NoReport})

(* The identities a new report may get.  With MaxQueue + 2 of them (the queue,   *)
(* one report being flushed, one being sent) no two held reports share one; with *)
(* fewer the model does not tell all reports apart, which liveness does not need. *)
NewReports == IF Reports \subseteq Held THEN Reports ELSE Reports \ Held

-----------------------------------------------------------------------------
(* ConnectionMonitor *)

\* Only the comparisons with 0, 2 and 3 matter, so counting stops at the threshold.
Bump(n) == IF n < FAILURE_THRESHOLD THEN n + 1 ELSE n

Reaches(counts, threshold) == \E op \in Operations : counts[op] >= threshold

MarkSuccess(op) ==
    /\ failures' = [failures EXCEPT ![op] = 0]
    /\ isOnline' = (isOnline \/ \A o \in Operations : failures'[o] = 0)

\* Mutant: the threshold is tested before the failure is counted.
MarkFailureLate(op) ==
    /\ failures' = [failures EXCEPT ![op] = Bump(@)]
    /\ isOnline' = (isOnline /\ ~Reaches(failures, FAILURE_THRESHOLD))

MarkFailure(op) ==
    /\ failures' = [failures EXCEPT ![op] = Bump(@)]
    /\ isOnline' = (isOnline /\ ~Reaches(failures', FAILURE_THRESHOLD))

-----------------------------------------------------------------------------
(* CloudSync's event handlers *)

\* onlineHandler runs inside MarkSuccess, on the way from offline to online.
OnlineEvent == ~isOnline /\ isOnline'

\* degradedHandler and offlineHandler run inside MarkFailure, while still online.
BufferingEvent == isOnline /\ Reaches(failures', DEGRADED_THRESHOLD)

\* Mutant: any success while online goes back to direct publishing.
ModeAfterAnySuccess(mode) == IF isOnline' THEN "direct" ELSE mode

ModeAfterSuccess(mode) == IF OnlineEvent THEN "direct" ELSE mode

ModeAfterFailure == IF BufferingEvent THEN "buffer-only" ELSE publishMode

-----------------------------------------------------------------------------
(* OfflineQueue *)

\* pruneExpired: rows are in createdAt order, so the expired ones are a prefix.
PruneExpired(q, expired) == SubSeq(q, expired + 1, Len(q))

\* Mutant: no size limit.
PushUncapped(q, r) == Append(q, r)

\* push, then drop the oldest when the queue is over its cap.
Push(q, r) == IF Len(q) >= MaxQueue THEN Append(Tail(q), r) ELSE Append(q, r)

\* Mutant: the head is read and stays in the queue.
Peek == UNCHANGED queue

\* dequeue(): the head leaves memory and its row leaves SQLite.
Dequeue == queue' = Tail(queue)

Enqueue(r) ==
    \E expired \in 0 .. Len(queue) : queue' = Push(PruneExpired(queue, expired), r)

-----------------------------------------------------------------------------
(* CloudTransport *)

\* The path sendReport takes once the mode allows sending.
SendPath == IF publishMode = "direct" /\ connected THEN "mqtt" ELSE "http"

\* Mutant: flushOfflineQueue() is not called.
NoFlush == UNCHANGED <<queue, flush>>

\* The call flushOfflineQueue() up to the first report it takes.
StartFlush ==
    IF flush.pc # "idle" \/ queue = <<>>
    THEN UNCHANGED <<queue, flush>>
    ELSE \E expired \in 0 .. Len(queue) :
            /\ queue' = PruneExpired(queue, expired)
            /\ flush' = IF expired = Len(queue) THEN IdleFlush
                        ELSE [IdleFlush EXCEPT !.pc = "next"]

\* What follows one iteration of the batch loop; q is the queue it leaves behind.
AfterItem(q, sent, tried, failed) ==
    CASE ~failed /\ q # <<>> /\ tried < BatchSize ->
            [pc |-> "next", item |-> NoReport, sent |-> sent, tried |-> tried]
      [] sent > 0 /\ q # <<>> /\ (failed \/ tried >= BatchSize) ->
            [IdleFlush EXCEPT !.pc = "delay"]
      [] OTHER -> IdleFlush

\* Mutant: the report whose send failed is not put back.
FlushFailedDrops(r) ==
    /\ flush' = AfterItem(queue, flush.sent, flush.tried + 1, TRUE)
    /\ UNCHANGED queue

FlushFailed(r) ==
    /\ Enqueue(r)
    /\ flush' = AfterItem(queue', flush.sent, flush.tried + 1, TRUE)

\* dequeue() and the mode check of sendReport.
FlushTake ==
    /\ flush.pc = "next"
    /\ IF queue = <<>>
       THEN flush' = IdleFlush /\ UNCHANGED queue
       ELSE IF publishMode = "buffer-only"
       THEN \E expired \in 0 .. Len(queue) - 1 :
              /\ queue' = Push(PruneExpired(Tail(queue), expired), Head(queue))
              /\ flush' = AfterItem(queue', flush.sent, flush.tried + 1, TRUE)
       ELSE /\ Dequeue
            /\ flush' = [flush EXCEPT !.pc = SendPath, !.item = Head(queue)]
    /\ UNCHANGED <<world, monitor, publishMode, reporter>>

FlushSent ==
    /\ \/ flush.pc = "mqtt" /\ connected /\ broker
       \/ flush.pc = "http" /\ http = "ok"
    /\ flush' = AfterItem(queue, flush.sent + 1, flush.tried + 1, FALSE)
    /\ UNCHANGED <<world, monitor, publishMode, reporter, queue>>

FlushFallsBack ==
    /\ flush.pc = "mqtt"
    /\ ~(connected /\ broker)
    /\ flush' = [flush EXCEPT !.pc = "http"]
    /\ UNCHANGED <<world, monitor, publishMode, reporter, queue>>

FlushRetryLater ==
    /\ flush.pc = "http"
    /\ http = "fail"
    /\ FlushFailed(flush.item)
    /\ UNCHANGED <<world, monitor, publishMode, reporter>>

\* NonRetryableTransportError: the queued report is dropped, the batch ends.
FlushRejected ==
    /\ flush.pc = "http"
    /\ http = "reject"
    /\ flush' = AfterItem(queue, flush.sent, flush.tried + 1, TRUE)
    /\ UNCHANGED <<world, monitor, publishMode, reporter, queue>>

\* BATCH_DELAY_MS has passed; the while condition is tested again.
FlushNextBatch ==
    /\ flush.pc = "delay"
    /\ flush' = IF queue = <<>> THEN IdleFlush ELSE [IdleFlush EXCEPT !.pc = "next"]
    /\ UNCHANGED <<world, monitor, publishMode, reporter, queue>>

-----------------------------------------------------------------------------
(* StateReporter *)

\* loop(): the circuit is closed and the lock is free.
CanReport == report.pc = "idle" /\ ~circuitOpen

\* The end of a cycle that threw nothing: loop() marks success and flushes.
CycleSucceeded(mode) ==
    /\ report' = IdleReport
    /\ MarkSuccess("report")
    /\ publishMode' = ModeAfterSuccess(mode)
    /\ StartFlush
    /\ UNCHANGED circuitOpen

\* reportCurrentState returns at once: the last report is younger than the
\* interval.  No report can have failed since, or it would not be that young.
RateLimited ==
    /\ CanReport
    /\ ~forceNextReport /\ lastReport # "none" /\ failures["report"] = 0
    /\ CycleSucceeded(publishMode)
    /\ UNCHANGED <<world, forceNextReport, dirty, lastReport>>

\* shouldReport is false: no difference, nothing forced, no metrics due.
NothingToReport ==
    /\ CanReport
    /\ ~dirty /\ lastReport = OnlineFlag /\ ~forceNextReport
    /\ CycleSucceeded(publishMode)
    /\ UNCHANGED <<world, forceNextReport, dirty, lastReport>>

\* The report is built and sendReport picks its path.  Metrics may be due, so
\* a report can be built although nothing else changed.
ReportBuild ==
    /\ CanReport
    /\ publishMode # "buffer-only"
    /\ \E r \in NewReports :
         report' = [pc |-> SendPath, item |-> r, flag |-> OnlineFlag, overtaken |-> FALSE]
    /\ UNCHANGED <<world, monitor, publishMode, forceNextReport, dirty, lastReport,
                   circuitOpen, queue, flush>>

\* CloudTransportBufferedError: queued, and neither a success nor a failure.
ReportBuffered ==
    /\ CanReport
    /\ publishMode = "buffer-only"
    /\ \E r \in NewReports : Enqueue(r)
    /\ report' = IdleReport
    /\ UNCHANGED <<world, monitor, publishMode, forceNextReport, dirty, lastReport,
                   circuitOpen, flush>>

\* Mutant: a report that gets through does not end "recovering".
ModeAfterReportKeeps == publishMode

\* A report that gets through ends "recovering".
ModeAfterReport == IF publishMode = "recovering" THEN "direct" ELSE publishMode

ReportSent ==
    /\ \/ report.pc = "mqtt" /\ connected /\ broker
       \/ report.pc = "http" /\ http = "ok"
    /\ forceNextReport' = FALSE
    /\ dirty' = report.overtaken
    /\ lastReport' = report.flag
    /\ CycleSucceeded(ModeAfterReport)
    /\ UNCHANGED world

ReportFallsBack ==
    /\ report.pc = "mqtt"
    /\ ~(connected /\ broker)
    /\ report' = [report EXCEPT !.pc = "http"]
    /\ UNCHANGED <<world, monitor, publishMode, forceNextReport, dirty, lastReport,
                   circuitOpen, queue, flush>>

\* Any other error, a 4xx included: queued, and counted as a failure.  The tenth
\* failure in a row opens the circuit breaker; the count stops at the monitor's
\* threshold, so any failure from there on may be the tenth.
ReportFailed ==
    /\ report.pc = "http"
    /\ http # "ok"
    /\ Enqueue(report.item)
    /\ report' = IdleReport
    /\ MarkFailure("report")
    /\ circuitOpen' \in {FALSE, failures'["report"] = FAILURE_THRESHOLD}
    /\ publishMode' = ModeAfterFailure
    /\ UNCHANGED <<world, forceNextReport, dirty, lastReport, flush>>

\* CIRCUIT_COOLDOWN_MS has passed: isOpen() resets the breaker.
CircuitCooledDown ==
    /\ circuitOpen
    /\ circuitOpen' = FALSE
    /\ UNCHANGED <<world, monitor, publishMode, report, forceNextReport, dirty,
                   lastReport, queue, flush>>

\* The state the reports are about moves on.
StateChanges ==
    /\ dirty' = TRUE
    /\ report' = [report EXCEPT !.overtaken = (report.pc \in {"mqtt", "http"})]
    /\ UNCHANGED <<world, monitor, publishMode, forceNextReport, lastReport, circuitOpen,
                   queue, flush>>

\* reconciliationCompleteHandler: requestImmediateReport.
ReconciliationComplete ==
    /\ forceNextReport' = TRUE
    /\ UNCHANGED <<world, monitor, publishMode, report, dirty, lastReport, circuitOpen,
                   queue, flush>>

-----------------------------------------------------------------------------
(* StatePoller's outcomes and the MQTT connection *)

PollSuccess ==
    /\ http = "ok"
    /\ MarkSuccess("poll")
    /\ publishMode' = ModeAfterSuccess(publishMode)
    /\ IF OnlineEvent THEN StartFlush ELSE UNCHANGED <<queue, flush>>
    /\ UNCHANGED <<world, reporter>>

PollError ==
    /\ http # "ok"
    /\ MarkFailure("poll")
    /\ publishMode' = ModeAfterFailure
    /\ UNCHANGED <<world, reporter, queue, flush>>

\* handleConnect emits "connect": mqttReconnectHandler.
MqttConnect ==
    /\ broker /\ ~connected
    /\ connected' = TRUE
    /\ publishMode' = "recovering"
    /\ forceNextReport' = TRUE
    /\ UNCHANGED <<http, broker, crashes, monitor, report, dirty, lastReport, circuitOpen,
                   queue, flush>>

\* handleOffline, handleClose, handleDisconnect.
MqttDrop ==
    /\ connected
    /\ connected' = FALSE
    /\ UNCHANGED <<http, broker, crashes, monitor, publishMode, reporter, queue, flush>>

NetworkChanges ==
    /\ http' \in {"ok", "fail", "reject"}
    /\ broker' \in BOOLEAN
    /\ <<http', broker'>> # <<http, broker>>
    /\ UNCHANGED <<connected, crashes, monitor, publishMode, reporter, queue, flush>>

\* The process dies and starts again: only the queue is on disk.
Restart ==
    /\ crashes < MaxCrashes
    /\ crashes' = crashes + 1
    /\ connected' \in {FALSE, broker}
    /\ isOnline' = TRUE
    /\ failures' = [op \in Operations |-> 0]
    /\ publishMode' = "direct"
    /\ report' = IdleReport
    /\ forceNextReport' = FALSE
    /\ dirty' = TRUE
    /\ lastReport' = "none"
    /\ circuitOpen' = FALSE
    /\ flush' = IdleFlush
    /\ UNCHANGED <<http, broker, queue>>

-----------------------------------------------------------------------------
\* The MQTT manager connects in an earlier start-up phase than CloudSync, so its
\* first "connect" event may or may not have been missed.
Init ==
    /\ http \in {"ok", "fail"}
    /\ broker \in BOOLEAN
    /\ connected \in {FALSE, broker}
    /\ crashes = 0
    /\ isOnline = TRUE
    /\ failures = [op \in Operations |-> 0]
    /\ publishMode = "direct"
    /\ report = IdleReport
    /\ forceNextReport = FALSE
    /\ dirty = TRUE
    /\ lastReport = "none"
    /\ circuitOpen = FALSE
    /\ queue = <<>>
    /\ flush = IdleFlush

ReportCycle ==
    \/ NothingToReport \/ ReportBuild \/ ReportBuffered
    \/ ReportSent \/ ReportFallsBack \/ ReportFailed \/ CircuitCooledDown

FlushCycle ==
    \/ FlushTake \/ FlushSent \/ FlushFallsBack
    \/ FlushRetryLater \/ FlushRejected \/ FlushNextBatch

Poll == PollSuccess \/ PollError

Next ==
    \/ RateLimited
    \/ ReportCycle
    \/ FlushCycle
    \/ Poll
    \/ StateChanges
    \/ ReconciliationComplete
    \/ MqttConnect
    \/ MqttDrop
    \/ NetworkChanges
    \/ Restart

Spec == Init /\ [][Next]_vars

\* The timers of the two loops, of a running flush and of the MQTT reconnect
\* always fire again, and a request ends by an answer or by its timeout.
Fairness ==
    /\ WF_vars(ReportCycle)
    /\ WF_vars(FlushCycle)
    /\ WF_vars(Poll)
    /\ WF_vars(MqttConnect)

FairSpec == Spec /\ Fairness

-----------------------------------------------------------------------------
(* Properties *)

(* Every variable has its type, the offline queue keeps its size limit and a  *)
(* flush batch never takes more reports than its own.                         *)
TypeOK ==
    /\ http \in {"ok", "fail", "reject"}
    /\ broker \in BOOLEAN
    /\ connected \in BOOLEAN
    /\ crashes \in 0 .. MaxCrashes
    /\ isOnline \in BOOLEAN
    /\ failures \in [Operations -> 0 .. FAILURE_THRESHOLD]
    /\ publishMode \in PublishMode
    /\ report \in [pc : {"idle", "mqtt", "http"},
                   item : Reports \cup {NoReport},
                   flag : {"none", "online", "offline"},
                   overtaken : BOOLEAN]
    /\ forceNextReport \in BOOLEAN
    /\ dirty \in BOOLEAN
    /\ lastReport \in {"none", "online", "offline"}
    /\ circuitOpen \in BOOLEAN
    /\ queue \in Seq(Reports)
    /\ Len(queue) <= MaxQueue
    /\ flush \in [pc : {"idle", "next", "mqtt", "http", "delay"},
                  item : Reports \cup {NoReport},
                  sent : 0 .. BatchSize,
                  tried : 0 .. BatchSize]

(* ConnectionMonitor never calls the link online while an operation has failed *)
(* FAILURE_THRESHOLD times in a row, and never stays offline once both         *)
(* operations have succeeded since their last failure.                         *)
MonitorConsistent ==
    /\ isOnline => ~Reaches(failures, FAILURE_THRESHOLD)
    /\ ~isOnline => \E op \in Operations : failures[op] > 0

(* The queue, the report being sent and the report being flushed never share a *)
(* report: what is queued is not also in flight, so the cloud gets no copy the  *)
(* agent did not mean to retry.                                                 *)
OneCopyOfEachReport ==
    /\ IsInjective(queue)
    /\ {report.item, flush.item} \cap Range(queue) = {}
    /\ report.item # NoReport => report.item # flush.item

(* A report leaves the agent's hands only by being sent, by a 4xx answer to its *)
(* replay, with a crash, or from the old end of the queue (TTL and size limit), *)
(* where only a report just put back may be older and stay; a send that may be  *)
(* retried loses nothing.                                                       *)
ReportsLeaveForAReason ==
    [][\A r \in Held \ Held' :
          \/ crashes' # crashes
          \/ r = report.item /\ (http = "ok" \/ (connected /\ broker))
          \/ r = flush.item /\ (http # "fail" \/ (connected /\ broker))
          \/ \E i \in DOMAIN queue :
                /\ queue[i] = r
                /\ \A j \in 1 .. i :
                     queue[j] \in Range(queue') => queue[j] = Last(queue')]_vars

(* Publishing goes back to "direct" only on evidence: a report that got through *)
(* ends "recovering", and "buffer-only" ends with the monitor going online.     *)
DirectOnlyOnEvidence ==
    [][publishMode # "direct" /\ publishMode' = "direct" =>
          \/ crashes' # crashes
          \/ OnlineEvent
          \/ publishMode = "recovering" /\ report.pc \in {"mqtt", "http"}
                                        /\ report'.pc = "idle"]_vars

LinkStaysUp == <>[](http = "ok" /\ broker)

(* "recovering" is passed through: once the cloud answers, the report that the  *)
(* MQTT reconnect asked for ends it.                                            *)
RecoveringEnds ==
    LinkStaysUp => (publishMode = "recovering" ~> publishMode # "recovering")

(* While publishing is direct over a good link, the offline queue is drained.  *)
DirectDrainsQueue ==
    (<>[](http = "ok" /\ broker /\ connected /\ publishMode = "direct")) => []<>(queue = <<>>)

(* README: reports are buffered while the cloud is unreachable and flushed when *)
(* connectivity returns.                                                        *)
BufferedReportsFlush == LinkStaysUp => []<>(queue = <<>>)
=============================================================================
