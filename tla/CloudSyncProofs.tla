-------------------------- MODULE CloudSyncProofs --------------------------
(***************************************************************************)
(* What CloudSync guarantees for every queue size, batch size, set of      *)
(* reports and number of crashes.                                          *)
(***************************************************************************)
EXTENDS CloudSync, SequenceTheorems, FunctionTheorems, FiniteSetTheorems, TLAPS

Queues == {q \in Seq(Reports) : Len(q) <= MaxQueue}

Flushes == [pc : {"idle", "next", "mqtt", "http", "delay"},
            item : Reports \cup {NoReport},
            sent : 0 .. BatchSize,
            tried : 0 .. BatchSize]

(* What a batch keeps: it never counts more sends than tries, there is room for a *)
(* try while it runs, and it has a report in hand exactly while it sends.          *)
FlushOK(f) ==
    /\ f \in Flushes
    /\ f.sent <= f.tried
    /\ f.pc \in {"next", "mqtt", "http"} => f.tried < BatchSize
    /\ f.pc \in {"mqtt", "http"} => f.item \in Reports

ReportRecords == [pc : {"idle", "mqtt", "http"},
                  item : Reports \cup {NoReport},
                  flag : {"none", "online", "offline"},
                  overtaken : BOOLEAN]

ReportOK(r) ==
    /\ r \in ReportRecords
    /\ r.pc \in {"mqtt", "http"} => r.item \in Reports /\ r.flag # "none"

(* The inductive form of TypeOK. *)
TypeInv == TypeOK /\ FlushOK(flush) /\ ReportOK(report)

-----------------------------------------------------------------------------
(* The queue *)

(* Pruning leaves a suffix. *)
LEMMA PruneKeepsQueue ==
    ASSUME NEW q \in Seq(Reports), NEW n \in 0 .. Len(q)
    PROVE  PruneExpired(q, n) \in Seq(Reports) /\ Len(PruneExpired(q, n)) = Len(q) - n
<1> DEFINE m == Len(q)
<1>1. m \in Nat /\ q \in [1 .. m -> Reports] /\ n \in 0 .. m
  BY LenProperties
<1> HIDE DEF m
<1>2. n + 1 \in Int /\ m \in Int /\ \A i \in (n + 1) .. m : q[i] \in Reports
  BY <1>1
<1>3. /\ SubSeq(q, n + 1, m) \in Seq(Reports)
      /\ Len(SubSeq(q, n + 1, m)) = IF n + 1 <= m THEN m - (n + 1) + 1 ELSE 0
  BY <1>2, SubSeqProperties
<1>4. Len(SubSeq(q, n + 1, m)) = m - n
  BY <1>1, <1>3
<1> QED
  BY <1>3, <1>4 DEF PruneExpired, m

(* OfflineQueue's size limit: pushing to a queue within it stays within it. *)
LEMMA PushKeepsQueue ==
    ASSUME NEW q \in Queues, NEW r \in Reports
    PROVE  Push(q, r) \in Queues /\ Push(q, r) # <<>>
<1> USE QueueAssumption
<1>1. q \in Seq(Reports) /\ Len(q) \in Nat /\ Len(q) <= MaxQueue
  BY LenProperties DEF Queues
<1>2. CASE Len(q) >= MaxQueue
  <2>1. q # <<>>
    BY <1>1, <1>2
  <2>2. Tail(q) \in Seq(Reports) /\ Len(Tail(q)) = Len(q) - 1
    BY <1>1, <2>1, HeadTailProperties
  <2>3. Append(Tail(q), r) \in Seq(Reports) /\ Len(Append(Tail(q), r)) = Len(q)
    BY <1>1, <2>2, AppendProperties
  <2> QED
    BY <1>1, <1>2, <2>3 DEF Push, Queues
<1>3. CASE ~(Len(q) >= MaxQueue)
  <2>1. Append(q, r) \in Seq(Reports) /\ Len(Append(q, r)) = Len(q) + 1
    BY <1>1, AppendProperties
  <2> QED
    BY <1>1, <1>3, <2>1 DEF Push, Queues
<1> QED
  BY <1>2, <1>3

(* enqueue() keeps the limit, whatever has expired. *)
LEMMA EnqueueKeepsQueue ==
    ASSUME queue \in Queues, NEW r \in Reports, Enqueue(r)
    PROVE  queue' \in Queues
<1>1. PICK n \in 0 .. Len(queue) : queue' = Push(PruneExpired(queue, n), r)
  BY DEF Enqueue
<1>2. queue \in Seq(Reports) /\ Len(queue) \in Nat /\ Len(queue) <= MaxQueue
  BY LenProperties DEF Queues
<1>3. PruneExpired(queue, n) \in Seq(Reports) /\ Len(PruneExpired(queue, n)) = Len(queue) - n
  BY <1>2, PruneKeepsQueue
<1>4. PruneExpired(queue, n) \in Queues
  BY <1>2, <1>3, QueueAssumption DEF Queues
<1> QED
  BY <1>1, <1>4, PushKeepsQueue

-----------------------------------------------------------------------------
(* The flush *)

(* The flush at rest, and at the start of a batch. *)
LEMMA IdleFlushOK ==
    /\ FlushOK(IdleFlush)
    /\ FlushOK([IdleFlush EXCEPT !.pc = "next"])
    /\ FlushOK([IdleFlush EXCEPT !.pc = "delay"])
  BY BatchAssumption DEF FlushOK, Flushes, IdleFlush

(* What follows an iteration respects the batch size. *)
LEMMA AfterItemOK ==
    ASSUME NEW q, NEW sent \in Nat, NEW tried \in 1 .. BatchSize, sent <= tried,
           NEW failed
    PROVE  FlushOK(AfterItem(q, sent, tried, failed))
<1> USE BatchAssumption
<1>1. CASE ~failed /\ q # <<>> /\ tried < BatchSize
  BY <1>1 DEF AfterItem, FlushOK, Flushes
<1>2. CASE ~(~failed /\ q # <<>> /\ tried < BatchSize)
  <2>1. AfterItem(q, sent, tried, failed) \in {IdleFlush, [IdleFlush EXCEPT !.pc = "delay"]}
    BY <1>2, Zenon DEF AfterItem
  <2> QED
    BY <2>1, IdleFlushOK
<1> QED
  BY <1>1, <1>2

(* The call flushOfflineQueue() keeps queue and flush in shape. *)
LEMMA StartFlushOK ==
    ASSUME queue \in Queues, FlushOK(flush), StartFlush
    PROVE  queue' \in Queues /\ FlushOK(flush')
<1>1. CASE UNCHANGED <<queue, flush>>
  BY <1>1
<1>2. ASSUME NEW n \in 0 .. Len(queue),
             queue' = PruneExpired(queue, n),
             flush' = IF n = Len(queue) THEN IdleFlush
                      ELSE [IdleFlush EXCEPT !.pc = "next"]
      PROVE  queue' \in Queues /\ FlushOK(flush')
  <2>1. queue \in Seq(Reports) /\ Len(queue) \in Nat /\ Len(queue) <= MaxQueue
    BY LenProperties DEF Queues
  <2>2. queue' \in Seq(Reports) /\ Len(queue') = Len(queue) - n
    BY <1>2, <2>1, PruneKeepsQueue
  <2>3. queue' \in Queues
    BY <2>1, <2>2, QueueAssumption DEF Queues
  <2>4. FlushOK(flush')
    BY <1>2, IdleFlushOK
  <2> QED
    BY <2>3, <2>4
<1> QED
  BY <1>1, <1>2 DEF StartFlush

-----------------------------------------------------------------------------
(* The monitor *)

(* TypeOK in two halves: the small variables, and the records and the queue. *)
ScalarsOK ==
    /\ http \in {"ok", "fail", "reject"}
    /\ broker \in BOOLEAN
    /\ connected \in BOOLEAN
    /\ crashes \in 0 .. MaxCrashes
    /\ isOnline \in BOOLEAN
    /\ failures \in [Operations -> 0 .. FAILURE_THRESHOLD]
    /\ publishMode \in PublishMode
    /\ forceNextReport \in BOOLEAN
    /\ dirty \in BOOLEAN
    /\ lastReport \in {"none", "online", "offline"}
    /\ circuitOpen \in BOOLEAN

RecordsOK == queue \in Queues /\ FlushOK(flush) /\ ReportOK(report)

(* The two halves are TypeInv. *)
LEMMA Halves == TypeInv <=> ScalarsOK /\ RecordsOK
  BY DEF TypeInv, TypeOK, ScalarsOK, RecordsOK, Queues, FlushOK, Flushes, ReportOK,
         ReportRecords

(* markSuccess and markFailure keep the counters between 0 and the threshold and *)
(* agree with them about the link.                                                *)
LEMMA MarkKeepsMonitor ==
    ASSUME NEW op \in Operations,
           isOnline \in BOOLEAN, failures \in [Operations -> 0 .. FAILURE_THRESHOLD],
           MarkSuccess(op) \/ MarkFailure(op)
    PROVE  /\ isOnline' \in BOOLEAN
           /\ failures' \in [Operations -> 0 .. FAILURE_THRESHOLD]
           /\ MonitorConsistent => MonitorConsistent'
<1> USE DEF FAILURE_THRESHOLD
<1>1. CASE MarkSuccess(op)
  <2>1. failures' \in [Operations -> 0 .. FAILURE_THRESHOLD] /\ isOnline' \in BOOLEAN
    BY <1>1 DEF MarkSuccess
  <2>2. ASSUME MonitorConsistent PROVE MonitorConsistent'
    <3>1. \A o \in Operations : failures'[o] = IF o = op THEN 0 ELSE failures[o]
      BY <1>1 DEF MarkSuccess
    <3>2. CASE \A o \in Operations : failures'[o] = 0
      <4>1. isOnline' /\ ~Reaches(failures', FAILURE_THRESHOLD)
        <5>1. isOnline'
          BY <1>1, <3>2, Zenon DEF MarkSuccess
        <5>2. ~Reaches(failures', FAILURE_THRESHOLD)
          BY <3>2 DEF Reaches
        <5> QED
          BY <5>1, <5>2
      <4> QED
        BY <4>1 DEF MonitorConsistent, Reaches
    <3>3. CASE ~\A o \in Operations : failures'[o] = 0
      <4>1. isOnline' = isOnline
        BY <1>1, <3>3 DEF MarkSuccess
      <4>2. isOnline' => ~Reaches(failures', FAILURE_THRESHOLD)
        BY <2>1, <2>2, <3>1, <4>1 DEF MonitorConsistent, Reaches
      <4>3. \E o \in Operations : failures'[o] > 0
        BY <2>1, <3>3
      <4> QED
        BY <4>2, <4>3 DEF MonitorConsistent, Reaches
    <3> QED
      BY <3>2, <3>3
  <2> QED
    BY <2>1, <2>2
<1>2. CASE MarkFailure(op)
  <2>1. failures' \in [Operations -> 0 .. FAILURE_THRESHOLD] /\ isOnline' \in BOOLEAN
    BY <1>2 DEF MarkFailure, Bump
  <2>2. failures'[op] > 0
    BY <1>2 DEF MarkFailure, Bump
  <2>3. isOnline' => ~Reaches(failures', FAILURE_THRESHOLD)
    BY <1>2 DEF MarkFailure
  <2> QED
    BY <2>1, <2>2, <2>3 DEF MonitorConsistent, Reaches
<1> QED
  BY <1>1, <1>2

(* The step either leaves the monitor alone, marks an operation, or restarts it. *)
MonitorStep ==
    \/ UNCHANGED monitor
    \/ \E op \in Operations : MarkSuccess(op) \/ MarkFailure(op)
    \/ isOnline' = TRUE /\ failures' = [op \in Operations |-> 0]

(* ConnectionMonitor is called from four places only. *)
LEMMA NextIsMonitorStep == [Next]_vars => MonitorStep
<1> SUFFICES ASSUME [Next]_vars PROVE MonitorStep
  OBVIOUS
<1> USE DEF MonitorStep
<1>1. "poll" \in Operations /\ "report" \in Operations
  BY DEF Operations
<1>2. CASE RateLimited \/ NothingToReport \/ ReportSent
  BY <1>1, <1>2 DEF RateLimited, NothingToReport, ReportSent, CycleSucceeded
<1>3. CASE ReportFailed
  BY <1>1, <1>3 DEF ReportFailed
<1>4. CASE PollSuccess \/ PollError
  BY <1>1, <1>4 DEF PollSuccess, PollError
<1>5. CASE Restart
  BY <1>5 DEF Restart
<1>6. CASE ReportBuild \/ ReportBuffered \/ ReportFallsBack \/ CircuitCooledDown
  BY <1>6 DEF ReportBuild, ReportBuffered, ReportFallsBack, CircuitCooledDown
<1>7. CASE FlushCycle
  BY <1>7 DEF FlushCycle, FlushTake, FlushSent, FlushFallsBack, FlushRetryLater,
              FlushRejected, FlushNextBatch
<1>8. CASE StateChanges \/ ReconciliationComplete \/ MqttConnect \/ MqttDrop \/ NetworkChanges
  BY <1>8 DEF StateChanges, ReconciliationComplete, MqttConnect, MqttDrop, NetworkChanges
<1>9. CASE UNCHANGED vars
  BY <1>9 DEF vars, monitor
<1> QED
  BY <1>2, <1>3, <1>4, <1>5, <1>6, <1>7, <1>8, <1>9 DEF Next, ReportCycle, Poll

(* The inductive form of MonitorConsistent. *)
MonitorInv ==
    /\ isOnline \in BOOLEAN
    /\ failures \in [Operations -> 0 .. FAILURE_THRESHOLD]
    /\ MonitorConsistent

(* ConnectionMonitor's verdict and its counters agree, in whatever order polls,  *)
(* reports, their failures and restarts come.                                     *)
THEOREM MonitorIsConsistent == Spec => []MonitorConsistent
<1>1. ASSUME isOnline = TRUE, failures = [op \in Operations |-> 0]
      PROVE  MonitorInv
  BY <1>1 DEF MonitorInv, MonitorConsistent, Reaches, FAILURE_THRESHOLD
<1>2. Init => MonitorInv
  BY <1>1 DEF Init
<1>3. MonitorInv /\ [Next]_vars => MonitorInv'
  <2> SUFFICES ASSUME MonitorInv, [Next]_vars PROVE MonitorInv'
    OBVIOUS
  <2>1. CASE UNCHANGED monitor
    BY <2>1 DEF MonitorInv, MonitorConsistent, Reaches, monitor
  <2>2. CASE \E op \in Operations : MarkSuccess(op) \/ MarkFailure(op)
    BY <2>2, MarkKeepsMonitor DEF MonitorInv
  <2>3. CASE isOnline' = TRUE /\ failures' = [op \in Operations |-> 0]
    BY <2>3 DEF MonitorInv, MonitorConsistent, Reaches, FAILURE_THRESHOLD
  <2> QED
    BY <2>1, <2>2, <2>3, NextIsMonitorStep DEF MonitorStep
<1>4. MonitorInv => MonitorConsistent
  BY DEF MonitorInv
<1> QED
  BY <1>2, <1>3, <1>4, PTL DEF Spec

-----------------------------------------------------------------------------
(* Types *)

(* The initial values have their types. *)
LEMMA InitTypes == Init => TypeInv
<1> SUFFICES ASSUME Init PROVE ScalarsOK /\ RecordsOK
  BY Halves
<1>1. /\ http \in {"ok", "fail", "reject"} /\ broker \in BOOLEAN /\ connected \in BOOLEAN
      /\ isOnline \in BOOLEAN /\ publishMode \in PublishMode
      /\ forceNextReport \in BOOLEAN /\ dirty \in BOOLEAN
      /\ lastReport \in {"none", "online", "offline"} /\ circuitOpen \in BOOLEAN
  BY DEF Init, PublishMode
<1>2. /\ crashes \in 0 .. MaxCrashes
      /\ failures \in [Operations -> 0 .. FAILURE_THRESHOLD]
  BY CrashAssumption DEF Init, FAILURE_THRESHOLD
<1>3. queue \in Queues
  BY QueueAssumption DEF Init, Queues
<1>4. FlushOK(flush)
  BY IdleFlushOK DEF Init
<1>5. ReportOK(report)
  BY DEF Init, IdleReport, ReportOK, ReportRecords
<1> QED
  BY <1>1, <1>2, <1>3, <1>4, <1>5 DEF ScalarsOK, RecordsOK

(* The monitor's variables keep their types in every step. *)
LEMMA MonitorTypes ==
    ASSUME ScalarsOK, [Next]_vars
    PROVE  isOnline' \in BOOLEAN /\ failures' \in [Operations -> 0 .. FAILURE_THRESHOLD]
<1>1. isOnline \in BOOLEAN /\ failures \in [Operations -> 0 .. FAILURE_THRESHOLD]
  BY DEF ScalarsOK
<1>2. CASE UNCHANGED monitor
  BY <1>1, <1>2 DEF monitor
<1>3. CASE \E op \in Operations : MarkSuccess(op) \/ MarkFailure(op)
  BY <1>1, <1>3, MarkKeepsMonitor
<1>4. CASE isOnline' = TRUE /\ failures' = [op \in Operations |-> 0]
  BY <1>4 DEF FAILURE_THRESHOLD
<1> QED
  BY <1>2, <1>3, <1>4, NextIsMonitorStep DEF MonitorStep

(* The end of a report cycle keeps the types. *)
LEMMA CycleTypes ==
    ASSUME ScalarsOK, RecordsOK, NEW mode \in PublishMode, CycleSucceeded(mode)
    PROVE  /\ RecordsOK'
           /\ publishMode' \in PublishMode
           /\ circuitOpen' \in BOOLEAN
<1>1. ReportOK(report')
  BY DEF CycleSucceeded, IdleReport, ReportOK, ReportRecords
<1>2. queue' \in Queues /\ FlushOK(flush')
  BY StartFlushOK DEF CycleSucceeded, RecordsOK
<1>3. publishMode' \in PublishMode /\ circuitOpen' \in BOOLEAN
  BY DEF CycleSucceeded, ModeAfterSuccess, PublishMode, ScalarsOK
<1> QED
  BY <1>1, <1>2, <1>3 DEF RecordsOK

(* A failure sets the mode to one of its values. *)
LEMMA ModeAfterFailureType ==
    ScalarsOK => ModeAfterFailure \in PublishMode
  BY DEF ScalarsOK, ModeAfterFailure, PublishMode

(* The steps of a flush keep queue and flush in shape. *)
LEMMA FlushKeepsTypes ==
    ASSUME RecordsOK, FlushCycle
    PROVE  queue' \in Queues /\ FlushOK(flush')
<1> USE BatchAssumption
<1>1. /\ queue \in Queues /\ queue \in Seq(Reports) /\ Len(queue) \in Nat
      /\ Len(queue) <= MaxQueue /\ FlushOK(flush)
  BY LenProperties DEF RecordsOK, Queues
<1>2. /\ flush \in Flushes
      /\ flush.sent \in Nat /\ flush.tried \in Nat /\ flush.sent <= flush.tried + 1
      /\ flush.sent <= flush.tried
      /\ flush.pc \in {"next", "mqtt", "http"} => flush.tried + 1 \in 1 .. BatchSize
      /\ flush.pc \in {"mqtt", "http"} => flush.item \in Reports
  BY <1>1 DEF FlushOK, Flushes
<1>3. CASE FlushTake
  <2>1. flush.pc = "next"
    BY <1>3 DEF FlushTake
  <2>2. CASE queue = <<>>
    BY <1>1, <1>3, <2>2, IdleFlushOK DEF FlushTake
  <2>3. CASE queue # <<>>
    <3>1. /\ Head(queue) \in Reports /\ Tail(queue) \in Seq(Reports)
          /\ Len(Tail(queue)) = Len(queue) - 1
      BY <1>1, <2>3, HeadTailProperties
    <3>2. CASE publishMode = "buffer-only"
      <4>1. PICK n \in 0 .. Len(queue) - 1 :
              /\ queue' = Push(PruneExpired(Tail(queue), n), Head(queue))
              /\ flush' = AfterItem(queue', flush.sent, flush.tried + 1, TRUE)
        BY <1>3, <2>3, <3>2 DEF FlushTake
      <4>2. n \in 0 .. Len(Tail(queue))
        BY <3>1, <4>1
      <4>3. /\ PruneExpired(Tail(queue), n) \in Seq(Reports)
            /\ Len(PruneExpired(Tail(queue), n)) = Len(Tail(queue)) - n
        BY <3>1, <4>2, PruneKeepsQueue
      <4>4. PruneExpired(Tail(queue), n) \in Queues
        BY <1>1, <3>1, <4>1, <4>3, QueueAssumption DEF Queues
      <4>5. queue' \in Queues
        BY <3>1, <4>1, <4>4, PushKeepsQueue
      <4>6. FlushOK(flush')
        BY <1>2, <2>1, <4>1, AfterItemOK
      <4> QED
        BY <4>5, <4>6
    <3>3. CASE publishMode # "buffer-only"
      <4>1. /\ queue' = Tail(queue)
            /\ flush' = [flush EXCEPT !.pc = SendPath, !.item = Head(queue)]
        BY <1>3, <2>3, <3>3 DEF FlushTake, Dequeue
      <4>2. queue' \in Queues
        BY <1>1, <3>1, <4>1, QueueAssumption DEF Queues
      <4>3. SendPath \in {"mqtt", "http"}
        BY DEF SendPath
      <4>4. FlushOK(flush')
        BY <1>1, <2>1, <3>1, <4>1, <4>3 DEF FlushOK, Flushes
      <4> QED
        BY <4>2, <4>4
    <3> QED
      BY <3>2, <3>3
  <2> QED
    BY <2>2, <2>3
<1>4. CASE FlushSent
  <2>1. /\ flush.pc \in {"mqtt", "http"}
        /\ flush' = AfterItem(queue, flush.sent + 1, flush.tried + 1, FALSE)
        /\ queue' = queue
    BY <1>4 DEF FlushSent
  <2>2. flush.sent + 1 \in Nat /\ flush.sent + 1 <= flush.tried + 1
    BY <1>2
  <2> QED
    BY <1>1, <1>2, <2>1, <2>2, AfterItemOK
<1>5. CASE FlushFallsBack
  BY <1>1, <1>5 DEF FlushFallsBack, FlushOK, Flushes
<1>6. CASE FlushRetryLater
  <2>1. flush.pc = "http" /\ Enqueue(flush.item)
        /\ flush' = AfterItem(queue', flush.sent, flush.tried + 1, TRUE)
    BY <1>6 DEF FlushRetryLater, FlushFailed
  <2>2. queue' \in Queues
    BY <1>1, <1>2, <2>1, EnqueueKeepsQueue
  <2>3. FlushOK(flush')
    BY <1>2, <2>1, AfterItemOK
  <2> QED
    BY <2>2, <2>3
<1>7. CASE FlushRejected
  <2>1. flush.pc = "http" /\ queue' = queue
        /\ flush' = AfterItem(queue, flush.sent, flush.tried + 1, TRUE)
    BY <1>7 DEF FlushRejected
  <2> QED
    BY <1>1, <1>2, <2>1, AfterItemOK
<1>8. CASE FlushNextBatch
  BY <1>1, <1>8, IdleFlushOK DEF FlushNextBatch
<1> QED
  BY <1>3, <1>4, <1>5, <1>6, <1>7, <1>8 DEF FlushCycle

(* Every step keeps the types. *)
LEMMA NextTypes == ScalarsOK /\ RecordsOK /\ [Next]_vars => ScalarsOK' /\ RecordsOK'
<1> SUFFICES ASSUME ScalarsOK, RecordsOK, [Next]_vars PROVE ScalarsOK' /\ RecordsOK'
  OBVIOUS
<1>1. isOnline' \in BOOLEAN /\ failures' \in [Operations -> 0 .. FAILURE_THRESHOLD]
  BY MonitorTypes
<1>2. publishMode \in PublishMode /\ circuitOpen \in BOOLEAN
  BY DEF ScalarsOK
<1>3. CASE RateLimited \/ NothingToReport
  <2>1. CycleSucceeded(publishMode) /\ UNCHANGED <<world, forceNextReport, dirty, lastReport>>
    BY <1>3 DEF RateLimited, NothingToReport
  <2>2. RecordsOK' /\ publishMode' \in PublishMode /\ circuitOpen' \in BOOLEAN
    BY <1>2, <2>1, CycleTypes
  <2> QED
    BY <1>1, <2>1, <2>2 DEF ScalarsOK, world
<1>4. CASE ReportSent
  <2>1. ModeAfterReport \in PublishMode
    BY <1>2 DEF PublishMode, ModeAfterReport
  <2>2. RecordsOK' /\ publishMode' \in PublishMode /\ circuitOpen' \in BOOLEAN
    BY <1>4, <2>1, CycleTypes DEF ReportSent
  <2>3. /\ forceNextReport' \in BOOLEAN /\ dirty' \in BOOLEAN
        /\ lastReport' \in {"none", "online", "offline"}
    BY <1>4 DEF ReportSent, RecordsOK, ReportOK, ReportRecords
  <2> QED
    BY <1>1, <1>4, <2>2, <2>3 DEF ReportSent, ScalarsOK, world
<1>5. CASE ReportBuild
  <2>1. PICK r \in NewReports :
          report' = [pc |-> SendPath, item |-> r, flag |-> OnlineFlag, overtaken |-> FALSE]
    BY <1>5 DEF ReportBuild
  <2>2. /\ r \in Reports /\ SendPath \in {"mqtt", "http"}
        /\ OnlineFlag \in {"online", "offline"}
    BY DEF NewReports, SendPath, OnlineFlag
  <2>3. ReportOK(report')
    BY <2>1, <2>2 DEF ReportOK, ReportRecords
  <2> QED
    BY <1>1, <1>5, <2>3 DEF ReportBuild, ScalarsOK, RecordsOK, world
<1>6. CASE ReportBuffered
  <2>1. ReportOK(report')
    BY <1>6 DEF ReportBuffered, IdleReport, ReportOK, ReportRecords
  <2>2. queue' \in Queues
    <3>1. PICK r \in NewReports : Enqueue(r)
      BY <1>6 DEF ReportBuffered
    <3>2. r \in Reports
      BY DEF NewReports
    <3> QED
      BY <3>1, <3>2, EnqueueKeepsQueue DEF RecordsOK
  <2> QED
    BY <1>1, <1>6, <2>1, <2>2 DEF ReportBuffered, ScalarsOK, RecordsOK, world
<1>7. CASE ReportFallsBack
  <2>1. ReportOK(report')
    BY <1>7 DEF ReportFallsBack, RecordsOK, ReportOK, ReportRecords
  <2> QED
    BY <1>1, <1>7, <2>1 DEF ReportFallsBack, ScalarsOK, RecordsOK, world
<1>8. CASE ReportFailed
  <2>1. ReportOK(report')
    BY <1>8 DEF ReportFailed, IdleReport, ReportOK, ReportRecords
  <2>2. queue' \in Queues
    BY <1>8, EnqueueKeepsQueue DEF ReportFailed, RecordsOK, ReportOK
  <2>3. publishMode' \in PublishMode /\ circuitOpen' \in BOOLEAN
    <3>1. publishMode' \in PublishMode
      BY <1>8, ModeAfterFailureType DEF ReportFailed
    <3>2. circuitOpen' \in BOOLEAN
      BY <1>8 DEF ReportFailed
    <3> QED
      BY <3>1, <3>2
  <2> QED
    BY <1>1, <1>8, <2>1, <2>2, <2>3 DEF ReportFailed, ScalarsOK, RecordsOK, world
<1>9. CASE CircuitCooledDown
  BY <1>1, <1>9 DEF CircuitCooledDown, ScalarsOK, RecordsOK, world
<1>10. CASE FlushCycle
  <2>1. queue' \in Queues /\ FlushOK(flush')
    BY <1>10, FlushKeepsTypes
  <2>2. UNCHANGED <<world, publishMode, reporter>>
    BY <1>10 DEF FlushCycle, FlushTake, FlushSent, FlushFallsBack, FlushRetryLater,
                 FlushRejected, FlushNextBatch
  <2> QED
    BY <1>1, <2>1, <2>2 DEF ScalarsOK, RecordsOK, world, reporter
<1>11. CASE PollSuccess
  <2>1. publishMode' \in PublishMode
    BY <1>2, <1>11 DEF PollSuccess, ModeAfterSuccess, PublishMode
  <2>2. queue' \in Queues /\ FlushOK(flush')
    BY <1>11, StartFlushOK DEF PollSuccess, RecordsOK
  <2> QED
    BY <1>1, <1>11, <2>1, <2>2 DEF PollSuccess, ScalarsOK, RecordsOK, world, reporter
<1>12. CASE PollError
  <2>1. publishMode' \in PublishMode
    BY <1>12, ModeAfterFailureType DEF PollError
  <2> QED
    BY <1>1, <1>12, <2>1 DEF PollError, ScalarsOK, RecordsOK, world, reporter
<1>13. CASE StateChanges
  <2>1. ReportOK(report')
    <3> DEFINE inFlight == report.pc \in {"mqtt", "http"}
    <3>1. inFlight \in BOOLEAN /\ report' = [report EXCEPT !.overtaken = inFlight]
      BY <1>13 DEF StateChanges
    <3> HIDE DEF inFlight
    <3> QED
      BY <3>1 DEF RecordsOK, ReportOK, ReportRecords
  <2> QED
    BY <1>1, <1>13, <2>1 DEF StateChanges, ScalarsOK, RecordsOK, world
<1>14. CASE ReconciliationComplete
  BY <1>1, <1>14 DEF ReconciliationComplete, ScalarsOK, RecordsOK, world
<1>15. CASE MqttConnect
  BY <1>1, <1>15 DEF MqttConnect, ScalarsOK, RecordsOK, PublishMode
<1>16. CASE MqttDrop \/ NetworkChanges
  BY <1>1, <1>16 DEF MqttDrop, NetworkChanges, ScalarsOK, RecordsOK, reporter
<1>17. CASE Restart
  <2>1. /\ crashes' \in 0 .. MaxCrashes /\ http' \in {"ok", "fail", "reject"}
    BY <1>17, CrashAssumption DEF Restart, ScalarsOK
  <2>2. RecordsOK'
    BY <1>17, IdleFlushOK DEF Restart, RecordsOK, IdleReport, ReportOK, ReportRecords
  <2>3. /\ broker' \in BOOLEAN /\ connected' \in BOOLEAN
        /\ publishMode' \in PublishMode /\ forceNextReport' \in BOOLEAN
        /\ dirty' \in BOOLEAN /\ lastReport' \in {"none", "online", "offline"}
        /\ circuitOpen' \in BOOLEAN
    BY <1>17 DEF Restart, ScalarsOK, PublishMode
  <2> QED
    BY <1>1, <2>1, <2>2, <2>3 DEF ScalarsOK
<1>18. CASE UNCHANGED vars
  BY <1>18 DEF vars, ScalarsOK, RecordsOK
<1> QED
  BY <1>3, <1>4, <1>5, <1>6, <1>7, <1>8, <1>9, <1>10, <1>11, <1>12, <1>13, <1>14, <1>15,
     <1>16, <1>17, <1>18 DEF Next, ReportCycle, Poll

(* TypeInv is an invariant. *)
LEMMA TypeInvariant == Spec => []TypeInv
  BY InitTypes, NextTypes, Halves, PTL DEF Spec

(* Type correctness, the queue's size limit and the batch limit of the flush     *)
(* included, for every queue size, batch size and number of crashes.              *)
THEOREM TypeCorrect == Spec => []TypeOK
<1>1. TypeInv => TypeOK
  BY DEF TypeInv
<1> QED
  BY <1>1, TypeInvariant, PTL

-----------------------------------------------------------------------------
(* The publish mode *)

(* CloudMqttClient goes back to direct publishing only when the monitor comes    *)
(* online, when a report has just got through while recovering, or at a restart.  *)
THEOREM DirectNeedsEvidence == Spec => DirectOnlyOnEvidence
<1> DEFINE Evidence == \/ crashes' # crashes
                       \/ OnlineEvent
                       \/ publishMode = "recovering" /\ report.pc \in {"mqtt", "http"}
                                                     /\ report'.pc = "idle"
           Leaves == publishMode # "direct" /\ publishMode' = "direct"
<1>1. TypeInv /\ [Next]_vars => [Leaves => Evidence]_vars
  <2> SUFFICES ASSUME TypeInv, Next, Leaves PROVE Evidence
    BY DEF vars
  <2>1. CASE RateLimited \/ NothingToReport
    BY <2>1 DEF RateLimited, NothingToReport, CycleSucceeded, ModeAfterSuccess
  <2>2. CASE ReportSent
    BY <2>2 DEF ReportSent, CycleSucceeded, ModeAfterSuccess, ModeAfterReport, IdleReport
  <2>3. CASE ReportFailed \/ PollError
    BY <2>3 DEF ReportFailed, PollError, ModeAfterFailure
  <2>4. CASE PollSuccess
    BY <2>4 DEF PollSuccess, ModeAfterSuccess
  <2>5. CASE MqttConnect
    BY <2>5 DEF MqttConnect
  <2>6. CASE Restart
    <3>1. crashes \in Nat /\ crashes' = crashes + 1
      BY <2>6, CrashAssumption DEF TypeInv, TypeOK, Restart
    <3> QED
      BY <3>1
  <2>7. CASE ReportBuild \/ ReportBuffered \/ ReportFallsBack \/ CircuitCooledDown
    BY <2>7 DEF ReportBuild, ReportBuffered, ReportFallsBack, CircuitCooledDown
  <2>8. CASE FlushCycle
    BY <2>8 DEF FlushCycle, FlushTake, FlushSent, FlushFallsBack, FlushRetryLater,
                FlushRejected, FlushNextBatch
  <2>9. CASE StateChanges \/ ReconciliationComplete \/ MqttDrop \/ NetworkChanges
    BY <2>9 DEF StateChanges, ReconciliationComplete, MqttDrop, NetworkChanges
  <2> QED
    BY <2>1, <2>2, <2>3, <2>4, <2>5, <2>6, <2>7, <2>8, <2>9 DEF Next, ReportCycle, Poll
<1> QED
  BY <1>1, TypeInvariant, PTL DEF Spec, DirectOnlyOnEvidence
-----------------------------------------------------------------------------
(* The reports: what the queue keeps *)

(* p is what is left of q without its k oldest items. *)
RestOf(p, q, k) ==
    /\ p \in Seq(Reports) /\ k \in 0 .. Len(q) /\ Len(p) = Len(q) - k
    /\ \A i \in 1 .. Len(p) : p[i] = q[i + k]

(* Pruning drops the oldest. *)
LEMMA PruneRest ==
    ASSUME NEW q \in Seq(Reports), NEW n \in 0 .. Len(q)
    PROVE  RestOf(PruneExpired(q, n), q, n)
<1> DEFINE m == Len(q)
           p == PruneExpired(q, n)
<1>1. m \in Nat /\ q \in [1 .. m -> Reports] /\ n \in 0 .. m
  BY LenProperties
<1>2. p \in Seq(Reports) /\ Len(p) = m - n /\ p = SubSeq(q, n + 1, m)
  BY PruneKeepsQueue DEF PruneExpired
<1> HIDE DEF m, p
<1>3. n + 1 \in Int /\ m \in Int /\ \A i \in (n + 1) .. m : q[i] \in Reports
  BY <1>1
<1>4. \A i \in 1 .. m - (n + 1) + 1 : SubSeq(q, n + 1, m)[i] = q[(n + 1) + i - 1]
  BY <1>3, SubSeqProperties
<1>5. ASSUME NEW i \in 1 .. Len(p) PROVE p[i] = q[i + n]
  <2>1. i \in 1 .. m - (n + 1) + 1 /\ (n + 1) + i - 1 = i + n
    BY <1>1, <1>2
  <2> QED
    BY <1>2, <1>4, <2>1
<1> QED
  BY <1>1, <1>2, <1>5 DEF RestOf, m, p

(* So does dequeue(). *)
LEMMA TailRest ==
    ASSUME NEW q \in Seq(Reports), q # <<>>
    PROVE  RestOf(Tail(q), q, 1) /\ Head(q) = q[1] /\ 1 \in 1 .. Len(q)
<1>1. /\ Len(q) \in Nat /\ Tail(q) \in Seq(Reports) /\ Len(Tail(q)) = Len(q) - 1
      /\ \A i \in 1 .. Len(Tail(q)) : Tail(q)[i] = q[i + 1]
  BY HeadTailProperties, LenProperties
<1>2. Len(q) # 0
  BY EmptySeq
<1> QED
  BY <1>1, <1>2 DEF RestOf

LEMMA NoneDropped ==
    ASSUME NEW q \in Seq(Reports)
    PROVE  RestOf(q, q, 0)
<1>1. Len(q) \in Nat
  BY LenProperties
<1> QED
  BY <1>1 DEF RestOf

LEMMA RestOfRest ==
    ASSUME NEW q \in Seq(Reports), NEW p, NEW s, NEW k, NEW n, RestOf(p, q, k), RestOf(s, p, n)
    PROVE  RestOf(s, q, k + n)
<1>1. Len(q) \in Nat /\ Len(p) \in Nat /\ Len(s) \in Nat
  BY LenProperties DEF RestOf
<1>2. /\ k \in Nat /\ n \in Nat /\ Len(p) = Len(q) - k /\ Len(s) = Len(p) - n
      /\ k + n \in 0 .. Len(q) /\ Len(s) = Len(q) - (k + n)
  BY <1>1 DEF RestOf
<1>3. ASSUME NEW i \in 1 .. Len(s) PROVE s[i] = q[i + (k + n)]
  <2>1. i + n \in 1 .. Len(p) /\ (i + n) + k = i + (k + n)
    BY <1>1, <1>2
  <2>2. s[i] = p[i + n]
    BY DEF RestOf
  <2>3. p[i + n] = q[(i + n) + k]
    BY <2>1 DEF RestOf
  <2> QED
    BY <2>1, <2>2, <2>3
<1> QED
  BY <1>2, <1>3 DEF RestOf

(* enqueue() appends a report to what it keeps of the queue. *)
LEMMA PushRest ==
    ASSUME NEW q \in Seq(Reports), NEW r \in Reports
    PROVE  \E s, k : RestOf(s, q, k) /\ Push(q, r) = Append(s, r)
<1>1. CASE Len(q) >= MaxQueue
  <2>1. q # <<>>
    BY <1>1, QueueAssumption
  <2>2. RestOf(Tail(q), q, 1) /\ Push(q, r) = Append(Tail(q), r)
    BY <1>1, <2>1, TailRest DEF Push
  <2> QED
    BY <2>2
<1>2. CASE ~(Len(q) >= MaxQueue)
  <2>1. RestOf(q, q, 0) /\ Push(q, r) = Append(q, r)
    BY <1>2, NoneDropped DEF Push
  <2> QED
    BY <2>1
<1> QED
  BY <1>1, <1>2

LEMMA EnqueueRest ==
    ASSUME queue \in Seq(Reports), NEW r \in Reports, Enqueue(r)
    PROVE  \E s, k : RestOf(s, queue, k) /\ queue' = Append(s, r)
<1>1. PICK n \in 0 .. Len(queue) : queue' = Push(PruneExpired(queue, n), r)
  BY DEF Enqueue
<1> DEFINE p == PruneExpired(queue, n)
<1>2. RestOf(p, queue, n) /\ p \in Seq(Reports) /\ queue' = Push(p, r)
  BY <1>1, PruneRest DEF RestOf
<1> HIDE DEF p
<1>3. PICK s, k : RestOf(s, p, k) /\ Push(p, r) = Append(s, r)
  BY <1>2, PushRest
<1>4. RestOf(s, queue, n + k)
  BY <1>2, <1>3, RestOfRest
<1> QED
  BY <1>2, <1>3, <1>4

(* What is left of a queue has no other reports, and each one once. *)
LEMMA RestItems ==
    ASSUME NEW q \in Seq(Reports), NEW p, NEW k, RestOf(p, q, k)
    PROVE  /\ Range(p) \subseteq Range(q)
           /\ IsInjective(q) => IsInjective(p)
<1>1. /\ Len(q) \in Nat /\ Len(p) \in Nat /\ k \in Nat /\ Len(p) = Len(q) - k
      /\ DOMAIN q = 1 .. Len(q) /\ DOMAIN p = 1 .. Len(p)
  BY LenProperties DEF RestOf
<1>2. ASSUME NEW i \in DOMAIN p PROVE p[i] = q[i + k] /\ i + k \in DOMAIN q /\ i \in Nat
  BY <1>1 DEF RestOf
<1>3. Range(p) \subseteq Range(q)
  BY <1>2 DEF Range
<1>4. ASSUME IsInjective(q), NEW a \in DOMAIN p, NEW b \in DOMAIN p, p[a] = p[b]
      PROVE  a = b
  <2>1. a + k = b + k
    BY <1>2, <1>4 DEF IsInjective
  <2> QED
    BY <1>1, <1>2, <2>1
<1> QED
  BY <1>3, <1>4 DEF IsInjective

LEMMA AppendItems ==
    ASSUME NEW p \in Seq(Reports), NEW r \in Reports
    PROVE  /\ Range(Append(p, r)) = Range(p) \cup {r}
           /\ Last(Append(p, r)) = r
           /\ IsInjective(p) /\ r \notin Range(p) => IsInjective(Append(p, r))
<1> DEFINE q == Append(p, r)
           n == Len(p)
<1>1. /\ n \in Nat /\ DOMAIN p = 1 .. n /\ q \in Seq(Reports) /\ Len(q) = n + 1
      /\ DOMAIN q = 1 .. n + 1 /\ q[n + 1] = r /\ \A i \in 1 .. n : q[i] = p[i]
  BY AppendProperties, LenProperties
<1> HIDE DEF q, n
<1>2. \A i \in DOMAIN q : i \in DOMAIN p \/ i = n + 1
  BY <1>1
<1>3. Range(q) = Range(p) \cup {r}
  <2>1. ASSUME NEW x \in Range(q) PROVE x \in Range(p) \cup {r}
    BY <1>1, <1>2, <2>1 DEF Range
  <2>2. ASSUME NEW x \in Range(p) PROVE x \in Range(q)
    <3>1. PICK i \in DOMAIN p : x = p[i]
      BY <2>2 DEF Range
    <3>2. i \in DOMAIN q /\ q[i] = x
      BY <1>1, <3>1
    <3> QED
      BY <3>2 DEF Range
  <2>3. r \in Range(q)
    <3>1. n + 1 \in DOMAIN q
      BY <1>1
    <3> QED
      BY <1>1, <3>1 DEF Range
  <2> QED
    BY <2>1, <2>2, <2>3
<1>4. Last(q) = r
  BY <1>1 DEF Last
<1>5. ASSUME IsInjective(p), r \notin Range(p),
             NEW a \in DOMAIN q, NEW b \in DOMAIN q, q[a] = q[b]
      PROVE  a = b
  <2>1. \A i \in DOMAIN p : q[i] = p[i] /\ q[i] # r
    BY <1>1, <1>5 DEF Range
  <2> QED
    BY <1>1, <1>2, <1>5, <2>1 DEF IsInjective
<1> QED
  BY <1>3, <1>4, <1>5 DEF q, IsInjective
-----------------------------------------------------------------------------
(* The reports: one copy of each *)

(* There are enough identities to tell all held reports apart. *)
EnoughReports == Cardinality(Reports) >= MaxQueue + 2

(* The inductive form of OneCopyOfEachReport: who is not sending has no report. *)
CopiesInv ==
    /\ report.pc = "idle" => report.item = NoReport
    /\ flush.pc \notin {"mqtt", "http"} => flush.item = NoReport
    /\ OneCopyOfEachReport

(* The queue has no more reports than items. *)
LEMMA QueueItems ==
    ASSUME NEW q \in Queues
    PROVE  /\ IsFiniteSet(Range(q)) /\ Cardinality(Range(q)) \in Nat
           /\ Cardinality(Range(q)) <= MaxQueue
<1>1. q \in Seq(Reports) /\ Len(q) \in Nat /\ Len(q) <= MaxQueue /\ MaxQueue \in Nat
  BY LenProperties, QueueAssumption DEF Queues
<1> DEFINE D == 1 .. Len(q)
           R == Range(q)
<1>2. q \in [D -> Reports] /\ DOMAIN q = D
  BY <1>1, LenProperties
<1>3. q \in Surjection(D, R)
  BY <1>2, Fun_RangeProperties
<1>4. IsFiniteSet(D) /\ Cardinality(D) = Len(q)
  <2> DEFINE n == Len(q)
  <2>1. n \in Nat /\ n \in Int /\ 1 \in Int
    BY <1>1
  <2> HIDE DEF n
  <2>2. IsFiniteSet(1 .. n) /\ Cardinality(1 .. n) = IF 1 > n THEN 0 ELSE n - 1 + 1
    BY <2>1, FS_Interval
  <2>3. Cardinality(1 .. n) = n
    BY <2>1, <2>2
  <2> QED
    BY <2>2, <2>3 DEF n
<1> HIDE DEF D, R
<1>5. IsFiniteSet(R) /\ Cardinality(R) <= Cardinality(D)
  BY <1>3, <1>4, FS_Surjection
<1>6. Cardinality(R) \in Nat
  BY <1>5, FS_CardinalityType
<1> QED
  BY <1>1, <1>4, <1>5, <1>6 DEF R

(* A new report differs from those the agent holds. *)
LEMMA NewReportsAreNew ==
    ASSUME EnoughReports, queue \in Queues, report.item = NoReport, NEW r \in NewReports
    PROVE  r \in Reports /\ r \notin Range(queue) /\ r # flush.item
<1> DEFINE R == Range(queue)
           x == flush.item
           S == R \cup {x}
<1>1. IsFiniteSet(R) /\ Cardinality(R) \in Nat /\ Cardinality(R) <= MaxQueue /\ MaxQueue \in Nat
  BY QueueItems, QueueAssumption
<1>2. Held \subseteq S
  BY DEF Held
<1>3. Held = R \cup ({x} \ {NoReport})
  BY DEF Held
<1> HIDE DEF R, x
<1>4. /\ IsFiniteSet(S)
      /\ Cardinality(S) = IF x \in R THEN Cardinality(R) ELSE Cardinality(R) + 1
  BY <1>1, FS_AddElement
<1> HIDE DEF S
<1>5. Cardinality(S) \in Nat /\ Cardinality(S) <= MaxQueue + 1
  BY <1>1, <1>4
<1>6. IsFiniteSet(Reports) /\ Cardinality(Reports) \in Nat
  BY ReportsAssumption, FS_CardinalityType
<1>7. ~(Reports \subseteq S)
  <2>1. SUFFICES ASSUME Reports \subseteq S PROVE FALSE
    OBVIOUS
  <2>2. Cardinality(Reports) <= Cardinality(S)
    BY <1>4, <2>1, FS_Subset
  <2> QED
    BY <1>1, <1>5, <1>6, <2>2 DEF EnoughReports
<1>8. r \in Reports /\ r \notin Held
  BY <1>2, <1>7 DEF NewReports
<1>9. r # NoReport
  BY <1>8, NoReportAssumption
<1>10. r \notin R /\ r # x
  BY <1>3, <1>8, <1>9
<1> QED
  BY <1>8, <1>10 DEF R, x

(* AfterItem puts the report down. *)
LEMMA AfterItemIdle ==
    ASSUME NEW q, NEW sent, NEW tried \in Nat, NEW failed
    PROVE  LET f == AfterItem(q, sent, tried, failed)
           IN  f.pc \notin {"mqtt", "http"} /\ f.item = NoReport
<1>1. CASE ~failed /\ q # <<>> /\ tried < BatchSize
  BY <1>1, BatchAssumption DEF AfterItem
<1>2. CASE ~(~failed /\ q # <<>> /\ tried < BatchSize)
  <2>1. AfterItem(q, sent, tried, failed) \in {IdleFlush, [IdleFlush EXCEPT !.pc = "delay"]}
    BY <1>2, Zenon DEF AfterItem
  <2> QED
    BY <2>1 DEF IdleFlush
<1> QED
  BY <1>1, <1>2

(* How a step may change the queue: it drops the oldest items, and may then append one. *)
QueueMove(x) ==
    \E s, k : /\ RestOf(s, queue, k) /\ x \notin Range(s)
              /\ queue' = IF x = NoReport THEN s ELSE Append(s, x)

LEMMA QueueMoves ==
    ASSUME queue \in Queues, NEW x \in Reports \cup {NoReport}, QueueMove(x),
           IsInjective(queue)
    PROVE  /\ IsInjective(queue') /\ Range(queue') \subseteq Range(queue) \cup {x}
           /\ x = NoReport => Range(queue') \subseteq Range(queue)
           /\ x # NoReport => x \in Range(queue')
<1>1. PICK s, k : /\ RestOf(s, queue, k) /\ x \notin Range(s)
                  /\ queue' = IF x = NoReport THEN s ELSE Append(s, x)
  BY DEF QueueMove
<1>2. queue \in Seq(Reports) /\ s \in Seq(Reports)
  BY <1>1 DEF Queues, RestOf
<1>3. Range(s) \subseteq Range(queue) /\ IsInjective(s)
  BY <1>1, <1>2, RestItems
<1>4. CASE x = NoReport
  BY <1>1, <1>3, <1>4
<1>5. CASE x # NoReport
  <2>1. x \in Reports /\ queue' = Append(s, x) /\ x \notin Range(s)
    BY <1>1, <1>3, <1>5
  <2>2. Range(queue') = Range(s) \cup {x} /\ IsInjective(queue')
    BY <1>2, <1>3, <2>1, AppendItems
  <2> QED
    BY <1>3, <1>5, <2>2
<1> QED
  BY <1>4, <1>5

(* The queue is left alone, or flushed. *)
LEMMA RestMoves ==
    ASSUME queue \in Queues, NEW k, RestOf(queue', queue, k)
    PROVE  QueueMove(NoReport)
<1>1. Range(queue') \subseteq Reports
  <2>1. queue' \in Seq(Reports)
    BY DEF RestOf
  <2> QED
    BY <2>1, LenProperties DEF Range
<1> QED
  BY <1>1, NoReportAssumption DEF QueueMove

LEMMA SameQueue ==
    ASSUME queue \in Queues, queue' = queue
    PROVE  QueueMove(NoReport)
<1>1. RestOf(queue', queue, 0)
  BY NoneDropped DEF Queues
<1> QED
  BY <1>1, RestMoves

LEMMA StartFlushMoves ==
    ASSUME queue \in Queues, CopiesInv, StartFlush
    PROVE  /\ QueueMove(NoReport) /\ flush'.item = flush.item
           /\ flush'.pc \notin {"mqtt", "http"} => flush'.item = NoReport
<1>1. CASE UNCHANGED <<queue, flush>>
  BY <1>1, SameQueue DEF CopiesInv
<1>2. CASE ~UNCHANGED <<queue, flush>>
  <2>1. PICK n \in 0 .. Len(queue) :
          /\ queue' = PruneExpired(queue, n)
          /\ flush' = IF n = Len(queue) THEN IdleFlush ELSE [IdleFlush EXCEPT !.pc = "next"]
    BY <1>2 DEF StartFlush
  <2>2. flush.pc = "idle"
    BY <1>2 DEF StartFlush
  <2>3. flush.item = NoReport /\ flush'.item = NoReport
    BY <2>1, <2>2 DEF CopiesInv, IdleFlush
  <2>4. RestOf(queue', queue, n)
    BY <2>1, PruneRest DEF Queues
  <2> QED
    BY <2>3, <2>4, RestMoves
<1> QED
  BY <1>1, <1>2

LEMMA EnqueueMoves ==
    ASSUME queue \in Queues, NEW r \in Reports, r \notin Range(queue), Enqueue(r)
    PROVE  QueueMove(r)
<1>1. queue \in Seq(Reports) /\ r # NoReport
  BY NoReportAssumption DEF Queues
<1>2. PICK s, k : RestOf(s, queue, k) /\ queue' = Append(s, r)
  BY <1>1, EnqueueRest
<1>3. r \notin Range(s)
  BY <1>1, <1>2, RestItems
<1> QED
  BY <1>1, <1>2, <1>3 DEF QueueMove

(* The flush puts the report it could not send at the end of the queue. *)
LEMMA RequeueMoves ==
    ASSUME queue \in Queues, queue # <<>>, IsInjective(queue),
           NEW n \in 0 .. Len(queue) - 1,
           queue' = Push(PruneExpired(Tail(queue), n), Head(queue))
    PROVE  Head(queue) \in Reports \cap Range(queue) /\ QueueMove(Head(queue))
<1> DEFINE t == Tail(queue)
           p == PruneExpired(t, n)
           r == Head(queue)
<1>1. queue \in Seq(Reports) /\ Len(queue) \in Nat /\ DOMAIN queue = 1 .. Len(queue)
  BY LenProperties DEF Queues
<1>2. /\ RestOf(t, queue, 1) /\ r = queue[1] /\ 1 \in DOMAIN queue /\ r \in Reports
      /\ t \in Seq(Reports) /\ Len(t) = Len(queue) - 1
  BY <1>1, TailRest, HeadTailProperties
<1>3. RestOf(p, t, n) /\ p \in Seq(Reports)
  BY <1>1, <1>2, PruneRest DEF RestOf
<1>4. queue' = Push(p, r)
  OBVIOUS
<1> HIDE DEF t, p, r
<1>5. PICK s, k : RestOf(s, p, k) /\ queue' = Append(s, r)
  BY <1>2, <1>3, <1>4, PushRest
<1>6. RestOf(s, t, n + k)
  BY <1>2, <1>3, <1>5, RestOfRest
<1>7. RestOf(s, queue, 1 + (n + k))
  BY <1>1, <1>2, <1>6, RestOfRest
<1>8. r \notin Range(t)
  <2>1. SUFFICES ASSUME r \in Range(t) PROVE FALSE
    OBVIOUS
  <2>2. PICK i \in DOMAIN t : r = t[i]
    BY <2>1 DEF Range
  <2>3. i \in 1 .. Len(t) /\ i + 1 \in DOMAIN queue /\ i + 1 # 1
    BY <1>1, <1>2, <2>2, LenProperties
  <2>4. t[i] = queue[i + 1]
    BY <1>2, <2>3 DEF RestOf
  <2> QED
    BY <1>2, <2>2, <2>3, <2>4 DEF IsInjective
<1>9. r \notin Range(s)
  BY <1>2, <1>6, <1>8, RestItems
<1>10. r \in Range(queue) /\ r # NoReport
  BY <1>2, NoReportAssumption DEF Range
<1> QED
  BY <1>2, <1>5, <1>7, <1>9, <1>10 DEF QueueMove, r


(* Reports are put down or appended to the queue, and none is in two hands. *)
LEMMA CopiesMove ==
    ASSUME queue \in Queues, OneCopyOfEachReport, NEW x \in Reports \cup {NoReport}, QueueMove(x),
           report'.item \in {report.item, NoReport}, flush'.item \in {flush.item, NoReport},
           x # NoReport => x # report'.item /\ x # flush'.item
    PROVE  OneCopyOfEachReport'
<1> DEFINE a == report'.item
           b == flush'.item
<1>1. /\ IsInjective(queue') /\ Range(queue') \subseteq Range(queue) \cup {x}
      /\ x = NoReport => Range(queue') \subseteq Range(queue)
  BY QueueMoves DEF OneCopyOfEachReport
<1>2. NoReport \notin Range(queue)
  BY NoReportAssumption, LenProperties DEF Queues, Range
<1>3. report.item \notin Range(queue) /\ flush.item \notin Range(queue)
  BY DEF OneCopyOfEachReport
<1>4. a \notin Range(queue) /\ b \notin Range(queue)
  BY <1>2, <1>3
<1>5. a \notin Range(queue') /\ b \notin Range(queue')
  BY <1>1, <1>4
<1>6. a # NoReport => a # b
  BY DEF OneCopyOfEachReport
<1> QED
  BY <1>1, <1>5, <1>6 DEF OneCopyOfEachReport

(* Every step moves the queue like this and keeps one copy of each report. *)
StepOK == CopiesInv' /\ \E x \in Reports \cup {NoReport} : QueueMove(x)

LEMMA ReporterCopies ==
    ASSUME RecordsOK, CopiesInv, EnoughReports,
           RateLimited \/ ReportCycle
    PROVE  StepOK
<1>1. queue \in Queues /\ ReportOK(report) /\ OneCopyOfEachReport
  BY DEF RecordsOK, CopiesInv
<1>2. CASE RateLimited \/ NothingToReport \/ ReportSent
  <2>1. report' = IdleReport /\ StartFlush
    BY <1>2 DEF RateLimited, NothingToReport, ReportSent, CycleSucceeded
  <2>2. /\ QueueMove(NoReport) /\ flush'.item = flush.item
        /\ flush'.pc \notin {"mqtt", "http"} => flush'.item = NoReport
    BY <1>1, <2>1, StartFlushMoves
  <2>3. report'.item = NoReport
    BY <2>1 DEF IdleReport
  <2>4. OneCopyOfEachReport'
    BY <1>1, <2>2, <2>3, CopiesMove
  <2> QED
    BY <2>2, <2>3, <2>4 DEF StepOK, CopiesInv
<1>3. CASE ReportBuild
  <2>1. PICK r \in NewReports :
          report' = [pc |-> SendPath, item |-> r, flag |-> OnlineFlag, overtaken |-> FALSE]
    BY <1>3 DEF ReportBuild
  <2>2. report.item = NoReport /\ queue' = queue /\ flush' = flush
    BY <1>3 DEF ReportBuild, CanReport, CopiesInv
  <2>3. r \in Reports /\ r \notin Range(queue) /\ r # flush.item
    BY <1>1, <2>2, NewReportsAreNew
  <2>4. report'.item = r /\ report'.pc # "idle"
    BY <2>1 DEF SendPath
  <2>5. QueueMove(NoReport)
    BY <1>1, <2>2, SameQueue
  <2>6. OneCopyOfEachReport'
    BY <1>1, <2>2, <2>3, <2>4 DEF OneCopyOfEachReport
  <2> QED
    BY <2>2, <2>4, <2>5, <2>6 DEF StepOK, CopiesInv
<1>4. CASE ReportBuffered
  <2>1. PICK r \in NewReports : Enqueue(r)
    BY <1>4 DEF ReportBuffered
  <2>2. report.item = NoReport /\ report' = IdleReport /\ flush' = flush
    BY <1>4 DEF ReportBuffered, CanReport, CopiesInv
  <2>3. r \in Reports /\ r \notin Range(queue) /\ r # flush.item
    BY <1>1, <2>2, NewReportsAreNew
  <2>4. QueueMove(r)
    BY <1>1, <2>1, <2>3, EnqueueMoves
  <2>5. report'.item = NoReport /\ r # NoReport
    BY <2>2, <2>3, NoReportAssumption DEF IdleReport
  <2>6. OneCopyOfEachReport'
    BY <1>1, <2>2, <2>3, <2>4, <2>5, CopiesMove
  <2> QED
    BY <2>2, <2>3, <2>4, <2>5, <2>6 DEF StepOK, CopiesInv
<1>5. CASE ReportFailed
  <2>1. Enqueue(report.item) /\ report' = IdleReport /\ flush' = flush /\ report.item \in Reports
    BY <1>1, <1>5 DEF ReportFailed, ReportOK
  <2> DEFINE r == report.item
  <2>2. r \notin Range(queue) /\ r # flush.item /\ r # NoReport
    BY <1>1, <2>1, NoReportAssumption DEF OneCopyOfEachReport
  <2>3. QueueMove(r)
    BY <1>1, <2>1, <2>2, EnqueueMoves
  <2>4. report'.item = NoReport
    BY <2>1 DEF IdleReport
  <2>5. OneCopyOfEachReport'
    BY <1>1, <2>1, <2>2, <2>3, <2>4, CopiesMove
  <2> QED
    BY <2>1, <2>3, <2>4, <2>5 DEF StepOK, CopiesInv
<1>6. CASE ReportFallsBack \/ CircuitCooledDown
  <2>1. queue' = queue /\ flush' = flush
    BY <1>6 DEF ReportFallsBack, CircuitCooledDown
  <2>2. report'.item = report.item /\ (report'.pc = "idle" => report.pc = "idle")
    BY <1>1, <1>6 DEF ReportFallsBack, CircuitCooledDown, ReportOK, ReportRecords
  <2>3. QueueMove(NoReport)
    BY <1>1, <2>1, SameQueue
  <2>4. OneCopyOfEachReport'
    BY <1>1, <2>1, <2>2, <2>3, CopiesMove
  <2> QED
    BY <2>1, <2>2, <2>3, <2>4 DEF StepOK, CopiesInv
<1> QED
  BY <1>2, <1>3, <1>4, <1>5, <1>6 DEF ReportCycle

LEMMA FlushCopies ==
    ASSUME RecordsOK, CopiesInv, FlushCycle
    PROVE  StepOK
<1>1. queue \in Queues /\ queue \in Seq(Reports) /\ FlushOK(flush) /\ OneCopyOfEachReport
  BY DEF RecordsOK, CopiesInv, Queues
<1>2. report' = report
  BY DEF FlushCycle, FlushTake, FlushSent, FlushFallsBack, FlushRetryLater, FlushRejected,
         FlushNextBatch, reporter
<1>3. flush.tried + 1 \in Nat
  BY <1>1, BatchAssumption DEF FlushOK, Flushes
<1>4. ASSUME QueueMove(NoReport), flush'.item \in {flush.item, NoReport},
             flush'.pc \notin {"mqtt", "http"} => flush'.item = NoReport
      PROVE  StepOK
  <2>1. OneCopyOfEachReport'
    BY <1>1, <1>2, <1>4, CopiesMove
  <2> QED
    BY <1>2, <1>4, <2>1 DEF StepOK, CopiesInv
<1>5. CASE FlushTake
  <2>1. flush.item = NoReport
    BY <1>5 DEF FlushTake, CopiesInv
  <2>2. CASE queue = <<>>
    <3>1. flush' = IdleFlush /\ queue' = queue
      BY <1>5, <2>2 DEF FlushTake
    <3>2. QueueMove(NoReport)
      BY <1>1, <3>1, SameQueue
    <3> QED
      BY <1>4, <3>1, <3>2 DEF IdleFlush
  <2>3. CASE queue # <<>> /\ publishMode = "buffer-only"
    <3>1. PICK n \in 0 .. Len(queue) - 1 :
            /\ queue' = Push(PruneExpired(Tail(queue), n), Head(queue))
            /\ flush' = AfterItem(queue', flush.sent, flush.tried + 1, TRUE)
      BY <1>5, <2>3 DEF FlushTake
    <3> DEFINE r == Head(queue)
    <3>2. r \in Reports /\ r \in Range(queue) /\ QueueMove(r)
      BY <1>1, <2>3, <3>1, RequeueMoves DEF OneCopyOfEachReport
    <3>3. flush'.pc \notin {"mqtt", "http"} /\ flush'.item = NoReport
      BY <1>3, <3>1, AfterItemIdle
    <3> HIDE DEF r
    <3>4. r # report'.item /\ r # flush'.item
      BY <1>1, <1>2, <3>2, <3>3, NoReportAssumption DEF OneCopyOfEachReport
    <3>5. OneCopyOfEachReport'
      BY <1>1, <1>2, <3>2, <3>3, <3>4, CopiesMove
    <3> QED
      BY <1>2, <3>2, <3>3, <3>5 DEF StepOK, CopiesInv
  <2>4. CASE queue # <<>> /\ publishMode # "buffer-only"
    <3> DEFINE r == Head(queue)
               t == Tail(queue)
    <3>1. queue' = t /\ flush' = [flush EXCEPT !.pc = SendPath, !.item = r]
      BY <1>5, <2>4 DEF FlushTake, Dequeue
    <3>2. RestOf(t, queue, 1) /\ r = queue[1] /\ 1 \in 1 .. Len(queue)
      BY <1>1, <2>4, TailRest
    <3> HIDE DEF r, t
    <3>3. /\ Len(queue) \in Nat /\ DOMAIN queue = 1 .. Len(queue)
          /\ t \in Seq(Reports) /\ DOMAIN t = 1 .. Len(t) /\ Len(t) = Len(queue) - 1
      BY <1>1, <3>2, LenProperties DEF RestOf
    <3>4. r \in Range(queue) /\ r \notin Range(t)
      <4>1. r \in Range(queue)
        BY <3>2, <3>3 DEF Range
      <4>2. ASSUME NEW i \in DOMAIN t PROVE t[i] # r
        <5>1. i + 1 \in DOMAIN queue /\ i + 1 # 1 /\ t[i] = queue[i + 1]
          BY <3>2, <3>3 DEF RestOf
        <5> QED
          BY <1>1, <3>2, <3>3, <5>1 DEF OneCopyOfEachReport, IsInjective
      <4> QED
        BY <4>1, <4>2 DEF Range
    <3>5. QueueMove(NoReport)
      BY <1>1, <3>1, <3>2, RestMoves
    <3>6. IsInjective(t) /\ Range(t) \subseteq Range(queue)
      BY <1>1, <3>2, RestItems DEF OneCopyOfEachReport
    <3>7. flush'.item = r /\ flush'.pc \in {"mqtt", "http"}
      BY <1>1, <3>1 DEF SendPath, FlushOK, Flushes
    <3>8. report.item \notin Range(queue)
      BY <1>1 DEF OneCopyOfEachReport
    <3>9. OneCopyOfEachReport'
      BY <1>2, <3>1, <3>4, <3>6, <3>7, <3>8 DEF OneCopyOfEachReport
    <3> QED
      BY <1>2, <3>5, <3>7, <3>9 DEF StepOK, CopiesInv
  <2> QED
    BY <2>2, <2>3, <2>4
<1>6. CASE FlushSent \/ FlushRejected
  <2>1. \E sent, failed : flush' = AfterItem(queue, sent, flush.tried + 1, failed)
    BY <1>6 DEF FlushSent, FlushRejected
  <2>2. flush'.item = NoReport
    BY <1>3, <2>1, AfterItemIdle
  <2>3. QueueMove(NoReport)
    BY <1>1, <1>6, SameQueue DEF FlushSent, FlushRejected
  <2> QED
    BY <1>4, <2>2, <2>3
<1>7. CASE FlushFallsBack
  <2>1. queue' = queue /\ flush'.item = flush.item /\ flush'.pc = "http"
    BY <1>1, <1>7 DEF FlushFallsBack, FlushOK, Flushes
  <2> QED
    BY <1>1, <1>4, <2>1, SameQueue
<1>8. CASE FlushRetryLater
  <2> DEFINE r == flush.item
  <2>1. /\ Enqueue(r) /\ r \in Reports
        /\ flush' = AfterItem(queue', flush.sent, flush.tried + 1, TRUE)
    BY <1>1, <1>8 DEF FlushRetryLater, FlushFailed, FlushOK
  <2>2. r \notin Range(queue) /\ r # report.item /\ r # NoReport
    BY <1>1, <2>1, NoReportAssumption DEF OneCopyOfEachReport
  <2>3. flush'.item = NoReport /\ flush'.pc \notin {"mqtt", "http"}
    BY <1>3, <2>1, AfterItemIdle
  <2>4. QueueMove(r)
    BY <1>1, <2>1, <2>2, EnqueueMoves
  <2>5. OneCopyOfEachReport'
    BY <1>1, <1>2, <2>1, <2>2, <2>3, <2>4, CopiesMove
  <2> QED
    BY <1>2, <2>1, <2>3, <2>4, <2>5 DEF StepOK, CopiesInv
<1>9. CASE FlushNextBatch
  <2>1. queue' = queue /\ flush'.item = NoReport
    BY <1>9 DEF FlushNextBatch, IdleFlush
  <2> QED
    BY <1>1, <1>4, <2>1, SameQueue
<1> QED
  BY <1>5, <1>6, <1>7, <1>8, <1>9 DEF FlushCycle


LEMMA NextCopies ==
    ASSUME RecordsOK, CopiesInv, EnoughReports, [Next]_vars
    PROVE  StepOK
<1>1. queue \in Queues /\ ReportOK(report) /\ OneCopyOfEachReport
  BY DEF RecordsOK, CopiesInv
<1>2. CASE RateLimited \/ ReportCycle
  BY <1>2, ReporterCopies
<1>3. CASE FlushCycle
  BY <1>3, FlushCopies
<1>4. CASE PollSuccess
  <2>1. report' = report
    BY <1>4 DEF PollSuccess, reporter
  <2>2. /\ QueueMove(NoReport) /\ flush'.item = flush.item
        /\ flush'.pc \notin {"mqtt", "http"} => flush'.item = NoReport
    <3>1. CASE StartFlush
      BY <1>1, <3>1, StartFlushMoves
    <3>2. CASE UNCHANGED <<queue, flush>>
      BY <1>1, <3>2, SameQueue DEF CopiesInv
    <3> QED
      BY <1>4, <3>1, <3>2 DEF PollSuccess
  <2>3. OneCopyOfEachReport'
    BY <1>1, <2>1, <2>2, CopiesMove
  <2> QED
    BY <2>1, <2>2, <2>3 DEF StepOK, CopiesInv
<1>5. CASE \/ PollError \/ StateChanges \/ ReconciliationComplete \/ MqttConnect
           \/ MqttDrop \/ NetworkChanges \/ UNCHANGED vars
  <2>1. queue' = queue /\ flush' = flush
    BY <1>5 DEF PollError, StateChanges, ReconciliationComplete, MqttConnect, MqttDrop,
                NetworkChanges, vars
  <2>2. report'.item = report.item /\ report'.pc = report.pc
    <3>1. CASE StateChanges
      <4> DEFINE inFlight == report.pc \in {"mqtt", "http"}
      <4>1. report' = [report EXCEPT !.overtaken = inFlight]
        BY <3>1 DEF StateChanges
      <4> HIDE DEF inFlight
      <4> QED
        BY <1>1, <4>1 DEF ReportOK, ReportRecords
    <3>2. CASE ~StateChanges
      <4>1. report' = report
        BY <1>5, <3>2 DEF PollError, ReconciliationComplete, MqttConnect, MqttDrop,
                          NetworkChanges, vars, reporter
      <4> QED
        BY <4>1
    <3> QED
      BY <3>1, <3>2
  <2>3. QueueMove(NoReport)
    BY <1>1, <2>1, SameQueue
  <2>4. OneCopyOfEachReport'
    BY <1>1, <2>1, <2>2, <2>3, CopiesMove
  <2> QED
    BY <2>1, <2>2, <2>3, <2>4 DEF StepOK, CopiesInv
<1>6. CASE Restart
  <2>1. queue' = queue /\ report'.item = NoReport /\ flush'.item = NoReport
    BY <1>6 DEF Restart, IdleReport, IdleFlush
  <2>2. QueueMove(NoReport)
    BY <1>1, <2>1, SameQueue
  <2>3. OneCopyOfEachReport'
    BY <1>1, <2>1, <2>2, CopiesMove
  <2> QED
    BY <2>1, <2>2, <2>3 DEF StepOK, CopiesInv
<1> QED
  BY <1>2, <1>3, <1>4, <1>5, <1>6 DEF Next, Poll

LEMMA InitCopies == Init => CopiesInv
<1> SUFFICES ASSUME Init PROVE CopiesInv
  OBVIOUS
<1>1. /\ report.item = NoReport /\ flush.item = NoReport /\ queue = <<>>
  BY DEF Init, IdleReport, IdleFlush
<1>2. DOMAIN queue = {} /\ Range(queue) = {}
  BY <1>1 DEF Range
<1> QED
  BY <1>1, <1>2 DEF CopiesInv, OneCopyOfEachReport, IsInjective

LEMMA CopiesInvariant == EnoughReports => (Spec => []CopiesInv)
<1> SUFFICES ASSUME EnoughReports PROVE Spec => []CopiesInv
  OBVIOUS
<1>1. TypeInv /\ CopiesInv /\ [Next]_vars => CopiesInv'
  BY Halves, NextCopies DEF StepOK
<1> QED
  BY <1>1, InitCopies, TypeInvariant, PTL DEF Spec

(* As long as reports can be told apart, the queue, the report being sent and the *)
(* report being flushed never share one, in whatever order reports fail, are      *)
(* queued, expire, are flushed and put back, and the process dies.                *)
THEOREM EachReportOnce == EnoughReports => (Spec => []OneCopyOfEachReport)
<1> SUFFICES ASSUME EnoughReports PROVE Spec => []OneCopyOfEachReport
  OBVIOUS
<1>1. CopiesInv => OneCopyOfEachReport
  BY DEF CopiesInv
<1> QED
  BY <1>1, CopiesInvariant, PTL
-----------------------------------------------------------------------------
(* The reports: why they leave *)

(* What leaves the queue leaves at its old end. *)
LeavesOldEnd(r) ==
    \E i \in DOMAIN queue :
       /\ queue[i] = r
       /\ \A j \in 1 .. i : queue[j] \in Range(queue') => queue[j] = Last(queue')

LEMMA QueueLeaves ==
    ASSUME queue \in Queues, IsInjective(queue), NEW x \in Reports \cup {NoReport}, QueueMove(x),
           NEW r \in Range(queue), r \notin Range(queue')
    PROVE  LeavesOldEnd(r)
<1>1. PICK s, k : /\ RestOf(s, queue, k) /\ x \notin Range(s)
                  /\ queue' = IF x = NoReport THEN s ELSE Append(s, x)
  BY DEF QueueMove
<1>2. /\ queue \in Seq(Reports) /\ Len(queue) \in Nat /\ DOMAIN queue = 1 .. Len(queue)
      /\ s \in Seq(Reports) /\ Len(s) \in Nat /\ DOMAIN s = 1 .. Len(s)
      /\ Len(s) = Len(queue) - k /\ k \in Nat
  BY <1>1, LenProperties DEF Queues, RestOf
<1>3. PICK i \in DOMAIN queue : queue[i] = r
  BY DEF Range
<1>4. /\ Range(s) \subseteq Range(queue')
      /\ \A y \in Range(queue') : y \in Range(s) \/ y = Last(queue')
  <2>1. CASE x = NoReport
    BY <1>1, <2>1
  <2>2. CASE x # NoReport
    <3>1. x \in Reports /\ queue' = Append(s, x)
      BY <1>1, <2>2
    <3>2. Range(queue') = Range(s) \cup {x} /\ Last(queue') = x
      BY <1>2, <3>1, AppendItems
    <3> QED
      BY <3>2
  <2> QED
    BY <2>1, <2>2
<1>5. i <= k
  <2>1. SUFFICES ASSUME i > k PROVE FALSE
    BY <1>2
  <2>2. i - k \in 1 .. Len(s) /\ (i - k) + k = i
    BY <1>2, <2>1
  <2>3. s[i - k] = queue[i]
    BY <1>1, <2>2 DEF RestOf
  <2>4. r \in Range(s)
    BY <1>2, <1>3, <2>2, <2>3 DEF Range
  <2> QED
    BY <1>4, <2>4
<1>6. ASSUME NEW j \in 1 .. i, queue[j] \in Range(queue') PROVE queue[j] = Last(queue')
  <2>1. SUFFICES ASSUME queue[j] \in Range(s) PROVE FALSE
    BY <1>4, <1>6
  <2>2. PICK m \in DOMAIN s : queue[j] = s[m]
    BY <2>1 DEF Range
  <2>3. m \in 1 .. Len(s) /\ m + k \in DOMAIN queue /\ j \in DOMAIN queue /\ j # m + k
    BY <1>2, <1>5, <2>2
  <2>4. s[m] = queue[m + k]
    BY <1>1, <2>3 DEF RestOf
  <2> QED
    BY <2>2, <2>3, <2>4 DEF IsInjective
<1> QED
  BY <1>3, <1>6 DEF LeavesOldEnd

(* The report that is sent stays, is queued, or has got through. *)
LEMMA ReportInFlightStays ==
    ASSUME RecordsOK, ScalarsOK, CopiesInv, Next, report.item # NoReport,
           report.item # report'.item, report.item \notin Range(queue')
    PROVE  crashes' # crashes \/ http = "ok" \/ (connected /\ broker)
<1>0. report.pc # "idle" /\ ReportOK(report)
  BY DEF CopiesInv, RecordsOK
<1>1. CASE \/ RateLimited \/ NothingToReport \/ ReportBuild \/ ReportBuffered
  BY <1>0, <1>1 DEF RateLimited, NothingToReport, ReportBuild, ReportBuffered, CanReport
<1>2. CASE ReportSent
  BY <1>2 DEF ReportSent
<1>3. CASE ReportFailed
  <2>1. report.item \in Reports /\ report.item \notin Range(queue) /\ Enqueue(report.item)
    BY <1>0, <1>3 DEF ReportFailed, ReportOK, CopiesInv, OneCopyOfEachReport
  <2>2. PICK s, k : RestOf(s, queue, k) /\ queue' = Append(s, report.item)
    BY <2>1, EnqueueRest DEF RecordsOK, Queues
  <2>3. report.item \in Range(queue')
    BY <2>1, <2>2, AppendItems DEF RestOf
  <2> QED
    BY <2>3
<1>4. CASE ReportFallsBack
  BY <1>0, <1>4 DEF ReportFallsBack, ReportOK, ReportRecords
<1>5. CASE StateChanges
  <2> DEFINE inFlight == report.pc \in {"mqtt", "http"}
  <2>1. report' = [report EXCEPT !.overtaken = inFlight]
    BY <1>5 DEF StateChanges
  <2> HIDE DEF inFlight
  <2> QED
    BY <1>0, <2>1 DEF ReportOK, ReportRecords
<1>6. CASE Restart
  <2>1. crashes \in Nat /\ crashes' = crashes + 1
    BY <1>6, CrashAssumption DEF Restart, ScalarsOK
  <2> QED
    BY <2>1
<1>7. CASE FlushCycle
  BY <1>7 DEF FlushCycle, FlushTake, FlushSent, FlushFallsBack, FlushRetryLater,
              FlushRejected, FlushNextBatch, reporter
<1>8. CASE \/ CircuitCooledDown \/ Poll \/ ReconciliationComplete \/ MqttConnect
           \/ MqttDrop \/ NetworkChanges
  BY <1>8 DEF CircuitCooledDown, Poll, PollSuccess, PollError, ReconciliationComplete,
              MqttConnect, MqttDrop, NetworkChanges, reporter
<1> QED
  BY <1>1, <1>2, <1>3, <1>4, <1>5, <1>6, <1>7, <1>8 DEF Next, ReportCycle

(* The report that is flushed stays, is queued again, got through, or was refused. *)
LEMMA FlushedReportStays ==
    ASSUME RecordsOK, ScalarsOK, CopiesInv, Next, flush.item # NoReport,
           flush.item # flush'.item, flush.item \notin Range(queue')
    PROVE  crashes' # crashes \/ http # "fail" \/ (connected /\ broker)
<1>0. flush.pc \in {"mqtt", "http"} /\ FlushOK(flush) /\ queue \in Queues
  BY DEF CopiesInv, RecordsOK
<1>1. CASE RateLimited \/ NothingToReport \/ ReportSent \/ PollSuccess
  <2>1. StartFlush \/ flush' = flush
    BY <1>1 DEF RateLimited, NothingToReport, ReportSent, PollSuccess, CycleSucceeded
  <2> QED
    BY <1>0, <2>1, StartFlushMoves
<1>2. CASE FlushSent
  BY <1>2 DEF FlushSent
<1>3. CASE FlushRejected
  BY <1>3 DEF FlushRejected
<1>4. CASE FlushRetryLater
  <2>1. flush.item \in Reports /\ Enqueue(flush.item)
    BY <1>0, <1>4 DEF FlushRetryLater, FlushFailed, FlushOK
  <2>2. PICK s, k : RestOf(s, queue, k) /\ queue' = Append(s, flush.item)
    BY <1>0, <2>1, EnqueueRest DEF Queues
  <2>3. flush.item \in Range(queue')
    BY <2>1, <2>2, AppendItems DEF RestOf
  <2> QED
    BY <2>3
<1>5. CASE FlushFallsBack
  BY <1>0, <1>5 DEF FlushFallsBack, FlushOK, Flushes
<1>6. CASE FlushTake \/ FlushNextBatch
  BY <1>0, <1>6 DEF FlushTake, FlushNextBatch
<1>7. CASE Restart
  <2>1. crashes \in Nat /\ crashes' = crashes + 1
    BY <1>7, CrashAssumption DEF Restart, ScalarsOK
  <2> QED
    BY <2>1
<1>8. CASE \/ ReportBuild \/ ReportBuffered \/ ReportFallsBack \/ ReportFailed
           \/ CircuitCooledDown \/ PollError \/ StateChanges \/ ReconciliationComplete
           \/ MqttConnect \/ MqttDrop \/ NetworkChanges
  BY <1>8 DEF ReportBuild, ReportBuffered, ReportFallsBack, ReportFailed, CircuitCooledDown,
              PollError, StateChanges, ReconciliationComplete, MqttConnect, MqttDrop,
              NetworkChanges
<1> QED
  BY <1>1, <1>2, <1>3, <1>4, <1>5, <1>6, <1>7, <1>8 DEF Next, ReportCycle, FlushCycle, Poll

(* A report leaves the agent only by getting through, by a 4xx answer to its      *)
(* replay, with a crash, or from the old end of the queue.                         *)
THEOREM ReportsLeaveWithReason == EnoughReports => (Spec => ReportsLeaveForAReason)
<1> SUFFICES ASSUME EnoughReports PROVE Spec => ReportsLeaveForAReason
  OBVIOUS
<1> DEFINE Reason(r) ==
             \/ crashes' # crashes
             \/ r = report.item /\ (http = "ok" \/ (connected /\ broker))
             \/ r = flush.item /\ (http # "fail" \/ (connected /\ broker))
             \/ \E i \in DOMAIN queue :
                   /\ queue[i] = r
                   /\ \A j \in 1 .. i :
                        queue[j] \in Range(queue') => queue[j] = Last(queue')
           Leaving == \A r \in Held \ Held' : Reason(r)
<1>1. TypeInv /\ CopiesInv /\ [Next]_vars => [Leaving]_vars
  <2> SUFFICES ASSUME TypeInv, CopiesInv, Next, NEW r \in Held \ Held' PROVE Reason(r)
    OBVIOUS
  <2>1. RecordsOK /\ ScalarsOK /\ queue \in Queues /\ IsInjective(queue)
    BY Halves DEF RecordsOK, CopiesInv, OneCopyOfEachReport
  <2>2. /\ r \in Range(queue) \/ (r # NoReport /\ (r = report.item \/ r = flush.item))
        /\ r \notin Range(queue')
        /\ r # NoReport => r # report'.item /\ r # flush'.item
    BY DEF Held
  <2>3. CASE r \in Range(queue)
    <3>1. PICK x \in Reports \cup {NoReport} : QueueMove(x)
      BY <2>1, NextCopies DEF StepOK
    <3>2. LeavesOldEnd(r)
      BY <2>1, <2>2, <2>3, <3>1, QueueLeaves
    <3> QED
      BY <3>2 DEF LeavesOldEnd
  <2>4. CASE r = report.item /\ r # NoReport
    BY <2>1, <2>2, <2>4, ReportInFlightStays
  <2>5. CASE r = flush.item /\ r # NoReport
    BY <2>1, <2>2, <2>5, FlushedReportStays
  <2> QED
    BY <2>2, <2>3, <2>4, <2>5
<1> QED
  BY <1>1, TypeInvariant, CopiesInvariant, PTL DEF Spec, ReportsLeaveForAReason
=============================================================================
