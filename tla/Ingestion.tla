----------------------------- MODULE Ingestion -----------------------------
(***************************************************************************)
(* The cloud's ingestion service for device data: the Redis stream and its *)
(* consumer group, the worker loops of RedisQueueConsumer, the circuit     *)
(* breaker in front of the database, the disk spool that takes over while  *)
(* the database is away, its replayer, and the dead-letter queue.          *)
(*                                                                         *)
(* An action is the code between two awaits on Redis, the database or the  *)
(* disk; the steps of one spoolToDisk are taken as one.  Redis scripts are *)
(* atomic.  A stream entry is its position in the stream; of its data it   *)
(* matters whether it can be decoded (or is bad) and whether its readings  *)
(* can be normalised (or are malformed).  A spool file is the set of       *)
(* entries in it; how many bytes they have is left open, so a file may be  *)
(* full at any time.                                                       *)
(*                                                                         *)
(* Left out: backpressure and pool sizes (they delay a worker), the        *)
(* tracker's cap of 50 000 ids and the one-day life of failure counters    *)
(* (more than any instance here produces), the length limit of the         *)
(* dead-letter queue, log entries, whose worker has no spool.              *)
(***************************************************************************)
EXTENDS Naturals, Sequences, FiniteSets

CONSTANTS
    Workers,             \* the worker loops one process may have
    MaxEntries,          \* bound: how many entries are added to the stream
    Configs,             \* the configurations to consider
    MaxStream,           \* maxStreamLength
    BatchSize,           \* batchSize
    MaxRetries,          \* maxRetries
    MaxSpool,            \* INGESTION_SPOOL_MAX_SIZE_MB, in entries
    FailureThreshold, SuccessThreshold,
    MaxOutages,          \* bound: how often the database goes away
    MaxFaults            \* bound: crashes, Redis and disk errors, lost answers

Entries == 1 .. MaxEntries

ASSUME ConfigAssumption ==
    /\ MaxEntries \in Nat
    /\ Configs \subseteq
          [workers : SUBSET Workers, spool : BOOLEAN,      \* INGESTION_SPOOL_ENABLED
           kind : [Entries -> {"good", "bad", "malformed"}]]
ASSUME LimitsAssumption ==
    /\ MaxStream \in Nat /\ BatchSize \in Nat \ {0} /\ MaxRetries \in Nat
    /\ MaxSpool \in Nat /\ FailureThreshold \in Nat /\ SuccessThreshold \in Nat
ASSUME BoundsAssumption == MaxOutages \in Nat /\ MaxFaults \in Nat

VARIABLES
    \* Redis
    added, first,        \* the stream holds the entries first .. added
    cursor,              \* the last entry delivered to the consumer group
    pel, idle,           \* pending entries; those of them idle for more than 60 s
    attempts, dlq,       \* the failure-tracking hash; the dead-letter stream
    \* RedisQueueConsumer
    worker,              \* per worker loop: where it is, its undone entries, the ones seen before
    tracked,             \* RecentMessageTracker
    breaker,             \* its own RedisCircuitBreaker
    \* DiskSpool
    files, openFile,     \* the spool files, oldest first; is the last one currentFile?
    replay, inflight,    \* the file being read; entries of deleted files not inserted yet
    \* the database
    dbUp, db,
    \* environment and history
    config,              \* the workers, whether there is a spool, what is in the entries
    outages, faults,
    skipped,             \* malformed entries that were passed over
    lost                 \* entries whose last copy went without reaching db or dlq

redisVars == <<added, first, cursor, pel, idle, attempts, dlq>>
spoolVars == <<files, openFile, replay, inflight>>
envVars == <<outages, faults>>
vars == <<redisVars, worker, tracked, breaker, config, spoolVars, dbUp, db, envVars,
          skipped, lost>>

Closed == [state |-> "CLOSED", failures |-> 0, successes |-> 0, timeout |-> "running"]
Resting == [pc |-> "idle", todo |-> {}, seen |-> {}, after |-> "none"]
NoReplay == [pc |-> "idle", snap |-> {}, gone |-> FALSE]

TypeOK ==
    /\ added \in 0 .. MaxEntries /\ first \in Nat \ {0} /\ cursor \in 0 .. MaxEntries
    /\ pel \subseteq Entries /\ idle \subseteq pel /\ dlq \subseteq Entries
    /\ attempts \in [Entries -> Nat]
    /\ worker \in [Workers -> [pc : {"idle", "resolve", "insert", "spool", "ack", "fail"},
                               todo : SUBSET Entries, seen : SUBSET Entries,
                               after : {"none", "insert", "circuit", "failure"}]]
    /\ tracked \subseteq Entries
    /\ breaker \in [state : {"CLOSED", "OPEN", "HALF_OPEN"}, failures : Nat, successes : Nat,
                    timeout : {"running", "over"}]
    /\ config \in Configs
    /\ files \in Seq(SUBSET Entries) /\ openFile \in BOOLEAN /\ inflight \subseteq Entries
    /\ replay \in [pc : {"idle", "read"}, snap : SUBSET Entries, gone : BOOLEAN]
    /\ dbUp \in BOOLEAN /\ db \subseteq Entries
    /\ outages \in Nat /\ faults \in Nat
    /\ skipped \subseteq Entries /\ lost \subseteq Entries

Init ==
    /\ added = 0 /\ first = 1 /\ cursor = 0 /\ pel = {} /\ idle = {} /\ dlq = {}
    /\ attempts = [e \in Entries |-> 0]
    /\ worker = [w \in Workers |-> Resting] /\ tracked = {} /\ breaker = Closed
    /\ config \in Configs
    /\ files = <<>> /\ openFile = FALSE /\ replay = NoReplay /\ inflight = {}
    /\ dbUp = TRUE /\ db = {} /\ outages = 0 /\ faults = 0 /\ skipped = {} /\ lost = {}

Bad == {e \in Entries : config.kind[e] = "bad"}
Malformed == {e \in Entries : config.kind[e] = "malformed"}

\* Where copies of entries are.
Undelivered == {e \in Entries : cursor < e /\ first <= e /\ e <= added}
Working == UNION {worker[w].todo : w \in Workers}
Spooled == UNION {files[k] : k \in DOMAIN files}
Done == db \cup dlq \cup skipped

\* A copy of each of the entries in S is gone; the ones that were done need none.
Lose(S) == lost' = lost \cup (S \ Done)
-----------------------------------------------------------------------------
(* The circuit breaker.  The replayer asks another instance of it, which nobody  *)
(* reports to and which therefore is always closed.                              *)

\* Mutant: a success takes one failure off the count.
RecordSuccessDecays ==
    breaker' = [breaker EXCEPT !.failures = @ - 1,
                               !.state = IF @ = "HALF_OPEN" THEN "CLOSED" ELSE @]

RecordSuccess ==
    breaker' =
        LET closes == breaker.successes + 1 >= SuccessThreshold
        IN  IF breaker.state # "HALF_OPEN" THEN [breaker EXCEPT !.failures = 0]
            ELSE [breaker EXCEPT !.failures = 0,
                                 !.successes = IF closes THEN 0 ELSE @ + 1,
                                 !.state = IF closes THEN "CLOSED" ELSE @]

Failed(b) ==
    LET opens == \/ b.state = "CLOSED" /\ b.failures + 1 >= FailureThreshold
                 \/ b.state = "HALF_OPEN"
    IN  [state |-> IF opens THEN "OPEN" ELSE b.state, failures |-> b.failures + 1,
         successes |-> 0, timeout |-> "running"]
RecordFailure == breaker' = Failed(breaker)

\* Mutant: only a half-open breaker lets requests through.
RefusesUnlessProbing == config.spool /\ breaker.state # "HALF_OPEN"

\* shouldAllowRequest, asked only when the spool is there to take over.
Refuses == config.spool /\ breaker.state = "OPEN" /\ breaker.timeout = "running"
Probe ==
    breaker' = IF config.spool /\ breaker.state = "OPEN"
               THEN [breaker EXCEPT !.state = "HALF_OPEN", !.failures = 0, !.timeout = "running"]
               ELSE breaker
-----------------------------------------------------------------------------
(* The producer and the consumer group. *)

\* XADD with MAXLEN ~: Redis may trim the stream down to the limit, its oldest entries
\* first, consumed or not.
Add ==
    /\ added < MaxEntries
    /\ added' = added + 1
    /\ \E f \in 1 .. added + 2 :
          /\ f = first \/ (first < f /\ f + MaxStream <= added + 2)
          /\ first' = f
          /\ Lose({e \in Entries : first <= e /\ e < f /\ (cursor < e \/ e \in pel)})
    /\ UNCHANGED <<cursor, pel, idle, attempts, dlq, worker, tracked, breaker, config,
                   spoolVars, dbUp, db, envVars, skipped>>

\* Worker w starts on the entries in S.
Start(w, S) ==
    worker' = [worker EXCEPT ![w] = [Resting EXCEPT !.pc = "resolve", !.todo = S]]

\* Mutant: the group reads on from an id, which is read again.
NextEntryInclusive == IF cursor < first THEN first ELSE cursor

\* XREADGROUP, after a look for stale entries: the next entries of the stream become pending.
NextEntry == IF cursor + 1 < first THEN first ELSE cursor + 1
LastRead == IF NextEntry + BatchSize - 1 < added THEN NextEntry + BatchSize - 1 ELSE added
ReadGroup ==
    /\ NextEntry <= added
    /\ cursor' = LastRead /\ pel' = pel \cup NextEntry .. LastRead
    /\ UNCHANGED <<added, first, idle, attempts, dlq, tracked, breaker, config, spoolVars,
                   dbUp, db, envVars, skipped, lost>>

Read(w) == w \in config.workers /\ worker[w].pc = "idle" /\ ReadGroup /\ Start(w, NextEntry .. LastRead)

\* The worker was retired while it waited: the entries stay pending.
ReadThenRetire(w) ==
    w \in config.workers /\ worker[w].pc = "idle" /\ ReadGroup /\ UNCHANGED worker

\* claimStaleMessages: XAUTOCLAIM takes entries idle for 60 s from whoever has them;
\* the ones trimmed from the stream leave the pending list.
Stale == {e \in idle : Cardinality({d \in idle : d < e}) < BatchSize}
ClaimStale(w) ==
    LET S == {e \in Stale : first <= e}
    IN  /\ w \in config.workers /\ worker[w].pc = "idle" /\ idle # {}
        /\ idle' = idle \ Stale /\ pel' = pel \ (Stale \ S)
        /\ IF S = {} THEN UNCHANGED worker ELSE Start(w, S)
        /\ UNCHANGED <<added, first, cursor, attempts, dlq, tracked, breaker, config,
                       spoolVars, dbUp, db, envVars, skipped, lost>>

\* XACK
Xack(S) == pel' = pel \ S /\ idle' = idle \ S
-----------------------------------------------------------------------------
(* processBatch *)

\* Entries the tracker knows are set aside, undecodable ones go to the dead-letter
\* queue (or stay pending when that fails), the breaker decides about the others.
Resolve(w) ==
    LET seen == worker[w].todo \cap tracked
        fresh == worker[w].todo \ tracked
        good == fresh \ Bad
    IN  /\ worker[w].pc = "resolve"
        /\ \/ /\ dlq' = dlq \cup (fresh \cap Bad) /\ Xack(fresh \cap Bad)
              /\ attempts' = [e \in Entries |-> IF e \in fresh \cap Bad THEN 0 ELSE attempts[e]]
              /\ UNCHANGED faults
           \/ /\ fresh \cap Bad # {} /\ faults < MaxFaults /\ faults' = faults + 1
              /\ UNCHANGED <<dlq, pel, idle, attempts>>
        /\ IF good = {}
           THEN /\ worker' = [worker EXCEPT ![w] =
                                 [Resting EXCEPT !.pc = "ack", !.seen = seen]]
                /\ UNCHANGED breaker
           ELSE IF Refuses
           THEN /\ worker' = [worker EXCEPT ![w] =
                                 [pc |-> "spool", todo |-> good, seen |-> seen,
                                  after |-> "circuit"]]
                /\ UNCHANGED breaker
           ELSE /\ worker' = [worker EXCEPT ![w] =
                                 [pc |-> "insert", todo |-> good, seen |-> seen,
                                  after |-> "none"]]
                /\ Probe
        /\ UNCHANGED <<added, first, cursor, tracked, config, spoolVars, dbUp, db, outages,
                       skipped, lost>>

\* Where a worker goes after its insert, or the acknowledgement of it, failed.
AfterFailure(w) ==
    worker' = [worker EXCEPT ![w].pc = IF config.spool THEN "spool" ELSE "fail",
                             ![w].after = "failure"]

\* insertBatch passes over malformed entries; inserting a reading again does nothing.
InsertOk(w) ==
    /\ worker[w].pc = "insert" /\ dbUp
    /\ db' = db \cup (worker[w].todo \ Malformed)
    /\ skipped' = skipped \cup (worker[w].todo \cap Malformed)
    /\ RecordSuccess
    /\ worker' = [worker EXCEPT ![w].pc = "ack", ![w].after = "insert"]
    /\ UNCHANGED <<redisVars, tracked, config, spoolVars, dbUp, envVars, lost>>

\* Mutant: the ids are marked as processed before the outcome is known.
InsertFailsMarks(w) ==
    /\ worker[w].pc = "insert" /\ ~dbUp
    /\ tracked' = tracked \cup worker[w].todo
    /\ RecordFailure /\ AfterFailure(w)
    /\ UNCHANGED <<redisVars, config, spoolVars, dbUp, db, envVars, skipped, lost>>

\* The insert fails; chunks of it may be in the database.
InsertFails(w) ==
    /\ worker[w].pc = "insert"
    /\ \/ ~dbUp /\ UNCHANGED <<db, faults>>
       \/ /\ dbUp /\ faults < MaxFaults /\ faults' = faults + 1
          /\ \E S \in SUBSET (worker[w].todo \ Malformed) : db' = db \cup S
    /\ RecordFailure /\ AfterFailure(w)
    /\ IF config.spool THEN UNCHANGED <<pel, idle>> ELSE Xack(worker[w].seen)
    /\ UNCHANGED <<added, first, cursor, attempts, dlq, tracked, config, spoolVars, dbUp,
                   outages, skipped, lost>>

\* spoolToDisk: over the quota the oldest file goes, whatever it holds; then the batch
\* is appended to the current file, or to a new one when that is full.
Evicts(w) == files # <<>> /\ Cardinality(Spooled) + Cardinality(worker[w].todo) > MaxSpool
Kept(w) == IF Evicts(w) THEN Tail(files) ELSE files
Spool(w) ==
    /\ worker[w].pc = "spool"
    /\ \E full \in BOOLEAN :
          /\ files' = IF openFile /\ ~full /\ Kept(w) # <<>>
                      THEN [Kept(w) EXCEPT ![Len(Kept(w))] = @ \cup worker[w].todo]
                      ELSE Append(Kept(w), worker[w].todo)
          \* a reader of the evicted file finds a new one by its name, or none
          /\ replay' = [replay EXCEPT !.gone =
                           @ \/ (replay.pc = "read" /\ Evicts(w)
                                  /\ (Len(files) > 1 \/ ~openFile \/ full))]
    /\ openFile' = TRUE
    /\ Lose(IF Evicts(w) THEN files[1] ELSE {})
    /\ worker' = [worker EXCEPT ![w].pc = "ack"]
    /\ UNCHANGED <<redisVars, tracked, breaker, config, inflight, dbUp, db, envVars,
                   skipped>>

\* Mutant: the batch is acknowledged although the disk refused it.
SpoolFailsAcks(w) ==
    /\ worker[w].pc = "spool" /\ faults < MaxFaults
    /\ faults' = faults + 1 /\ Xack(worker[w].seen \cup worker[w].todo)
    /\ worker' = [worker EXCEPT ![w] = Resting]
    /\ UNCHANGED <<added, first, cursor, attempts, dlq, tracked, breaker, config, spoolVars,
                   dbUp, db, outages, skipped, lost>>

\* The disk refuses: after a refusal by the breaker the batch just stays pending, after
\* a failed insert it counts as an attempt.
SpoolFails(w) ==
    /\ worker[w].pc = "spool" /\ faults < MaxFaults
    /\ faults' = faults + 1 /\ Xack(worker[w].seen)
    /\ worker' = [worker EXCEPT ![w] = IF @.after = "circuit" THEN Resting
                                       ELSE [@ EXCEPT !.pc = "fail"]]
    /\ UNCHANGED <<added, first, cursor, attempts, dlq, tracked, breaker, config, spoolVars,
                   dbUp, db, outages, skipped, lost>>

\* XACK, then the tracker learns the ids; an error in the pipeline's reply goes unnoticed.
Ack(w) ==
    /\ worker[w].pc = "ack"
    /\ tracked' = tracked \cup worker[w].todo
    /\ worker' = [worker EXCEPT ![w] = Resting]
    /\ \/ Xack(worker[w].seen \cup worker[w].todo) /\ UNCHANGED faults
       \/ /\ faults < MaxFaults /\ faults' = faults + 1
          /\ UNCHANGED <<pel, idle>>
    /\ UNCHANGED <<added, first, cursor, attempts, dlq, breaker, config, spoolVars, dbUp, db,
                   outages, skipped, lost>>

\* The connection to Redis breaks in the acknowledgement: the handler of the failed
\* insert, or of the failed spooling, takes over.
AckThrows(w) ==
    /\ worker[w].pc = "ack" /\ faults < MaxFaults /\ faults' = faults + 1
    /\ CASE worker[w].after = "insert" -> RecordFailure /\ AfterFailure(w)
         [] worker[w].after = "failure" ->
                worker' = [worker EXCEPT ![w].pc = "fail"] /\ UNCHANGED breaker
         [] OTHER -> worker' = [worker EXCEPT ![w] = Resting] /\ UNCHANGED breaker
    /\ IF worker[w].after = "none" \/ (worker[w].after = "insert" /\ config.spool)
       THEN UNCHANGED <<pel, idle>> ELSE Xack(worker[w].seen)
    /\ UNCHANGED <<added, first, cursor, attempts, dlq, tracked, config, spoolVars, dbUp,
                   db, outages, skipped, lost>>

\* handleBatchFailures, one entry: the attempt is counted, the last one moves the entry
\* to the dead-letter queue; when Redis fails in between, the entry stays pending.
HandleFailure(w) ==
    \E e \in worker[w].todo :
        /\ worker[w].pc = "fail" /\ \A d \in worker[w].todo : e <= d
        /\ \/ /\ attempts[e] + 1 < MaxRetries
              /\ attempts' = [attempts EXCEPT ![e] = @ + 1]
              /\ UNCHANGED <<dlq, pel, idle, faults>>
           \/ /\ attempts[e] + 1 >= MaxRetries
              /\ attempts' = [attempts EXCEPT ![e] = 0] /\ dlq' = dlq \cup {e} /\ Xack({e})
              /\ UNCHANGED faults
           \/ /\ faults < MaxFaults /\ faults' = faults + 1
              /\ attempts' \in {attempts, [attempts EXCEPT ![e] = @ + 1]}
              /\ UNCHANGED <<dlq, pel, idle>>
        /\ worker' = [worker EXCEPT ![w] = IF @.todo = {e} THEN Resting
                                           ELSE [@ EXCEPT !.todo = worker[w].todo \ {e}]]
        /\ UNCHANGED <<added, first, cursor, tracked, breaker, config, spoolVars, dbUp, db,
                       outages, skipped, lost>>
-----------------------------------------------------------------------------
(* The replayer *)

\* Mutant: the replayer leaves the current file alone.
ReplayReadClosed ==
    /\ config.spool /\ replay.pc = "idle" /\ files # <<>> /\ (Len(files) > 1 \/ ~openFile)
    /\ replay' = [pc |-> "read", snap |-> files[1], gone |-> FALSE]
    /\ UNCHANGED <<redisVars, worker, tracked, breaker, config, files, openFile, inflight,
                   dbUp, db, envVars, skipped, lost>>

\* It reads the oldest file,
ReplayRead ==
    /\ config.spool /\ replay.pc = "idle" /\ files # <<>>
    /\ replay' = [pc |-> "read", snap |-> files[1], gone |-> FALSE]
    /\ UNCHANGED <<redisVars, worker, tracked, breaker, config, files, openFile, inflight,
                   dbUp, db, envVars, skipped, lost>>

\* deletes it, with anything that was appended meanwhile,
ReplayUnlink ==
    /\ replay.pc = "read" /\ ~replay.gone
    /\ files' = Tail(files) /\ inflight' = inflight \cup replay.snap
    /\ openFile' = (openFile /\ Len(files) > 1)
    /\ Lose(files[1] \ replay.snap)
    /\ replay' = NoReplay
    /\ UNCHANGED <<redisVars, worker, tracked, breaker, config, dbUp, db, envVars, skipped>>

\* or finds it gone,
ReplayMissing ==
    /\ replay.pc = "read" /\ replay.gone
    /\ replay' = NoReplay
    /\ UNCHANGED <<redisVars, worker, tracked, breaker, config, files, openFile, inflight,
                   dbUp, db, envVars, skipped, lost>>

\* and inserts what it read; a failure is logged.
ReplayInsert(e) ==
    /\ e \in inflight /\ inflight' = inflight \ {e}
    /\ \/ /\ dbUp
          /\ db' = db \cup ({e} \ Malformed) /\ skipped' = skipped \cup ({e} \cap Malformed)
          /\ RecordSuccess /\ UNCHANGED <<lost, faults>>
       \/ /\ ~dbUp \/ faults < MaxFaults
          /\ faults' = IF dbUp THEN faults + 1 ELSE faults
          /\ Lose({e})
          /\ RecordFailure /\ UNCHANGED <<db, skipped>>
    /\ UNCHANGED <<redisVars, worker, tracked, config, files, openFile, replay, dbUp,
                   outages>>
-----------------------------------------------------------------------------
(* Time, outages, crashes *)

\* A pending entry is idle for 60 s, in the hands of a slow worker or of none.
Age(e) ==
    /\ e \in pel \ idle /\ idle' = idle \cup {e}
    /\ UNCHANGED <<added, first, cursor, pel, attempts, dlq, worker, tracked, breaker,
                   config, spoolVars, dbUp, db, envVars, skipped, lost>>

\* 30 s after the last failure
Cool ==
    /\ breaker.state = "OPEN" /\ breaker.timeout = "running"
    /\ breaker' = [breaker EXCEPT !.timeout = "over"]
    /\ UNCHANGED <<redisVars, worker, tracked, config, spoolVars, dbUp, db, envVars,
                   skipped, lost>>

DbFails ==
    /\ dbUp /\ outages < MaxOutages /\ dbUp' = FALSE /\ outages' = outages + 1
    /\ UNCHANGED <<redisVars, worker, tracked, breaker, config, spoolVars, db, faults,
                   skipped, lost>>

DbReturns ==
    /\ ~dbUp /\ dbUp' = TRUE
    /\ UNCHANGED <<redisVars, worker, tracked, breaker, config, spoolVars, db, envVars,
                   skipped, lost>>

\* The process dies: Redis, the database and the spool files remain.
Crash ==
    /\ faults < MaxFaults /\ faults' = faults + 1
    /\ worker' = [w \in Workers |-> Resting] /\ tracked' = {} /\ breaker' = Closed
    /\ openFile' = FALSE /\ replay' = NoReplay
    /\ inflight' = {} /\ Lose(inflight)
    /\ UNCHANGED <<redisVars, config, files, dbUp, db, outages, skipped>>
-----------------------------------------------------------------------------
WorkerStep(w) ==
    \/ Read(w) \/ ReadThenRetire(w) \/ ClaimStale(w) \/ Resolve(w)
    \/ InsertOk(w) \/ InsertFails(w) \/ Spool(w) \/ SpoolFails(w)
    \/ Ack(w) \/ AckThrows(w) \/ HandleFailure(w)
ReplayStep ==
    ReplayRead \/ ReplayUnlink \/ ReplayMissing \/ \E e \in Entries : ReplayInsert(e)

Next ==
    \/ Add \/ (\E w \in Workers : WorkerStep(w)) \/ ReplayStep
    \/ (\E e \in Entries : Age(e)) \/ Cool \/ DbFails \/ DbReturns \/ Crash

\* Every worker loop and the replayer's timer go on, whatever the database does, and
\* an entry nobody acknowledges becomes idle.
Fairness ==
    /\ \A w \in Workers : WF_vars(WorkerStep(w))
    /\ WF_vars(ReplayStep) /\ \A e \in Entries : WF_vars(Age(e))

Spec == Init /\ [][Next]_vars /\ Fairness
-----------------------------------------------------------------------------
(* Properties *)

Acknowledged == {e \in Entries : e <= cursor} \ pel
Safe == Done \cup Spooled \cup inflight \cup lost

\* An acknowledged entry is in the database or the dead-letter queue, in a spool file,
\* among the entries the replayer is about to insert, or went in one of the windows
\* recorded in lost; malformed ones are passed over and counted.
AcknowledgedIsKept == Acknowledged \subseteq Safe

\* "XACK only after successful DB write - the core at-least-once guarantee": without
\* the spool, or as long as nothing ever failed, only an entry that Redis itself
\* trimmed from the stream is lost.
AtLeastOnce ==
    ~config.spool \/ outages + faults = 0 =>
        \A e \in Acknowledged : e \in Done \/ (e < first /\ e \in lost)

\* The tracker suppresses only what needs no more work: when an entry it knows comes
\* again, another copy of it was stored or spooled before.
TrackedIsProcessed == tracked \subseteq Safe

Reading == IF replay.pc = "read" THEN replay.snap ELSE {}
Backlog == Undelivered \cup pel \cup Working \cup Spooled \cup Reading \cup inflight

\* When the database is back for good every entry is dealt with in the end: none stays
\* in the stream, pending, with a worker, in the spool or with the replayer.
BacklogClears == <>[]dbUp => []<>(Backlog = {})

\* "Start background replayer that drains spool files to Redis when circuit is closed":
\* an idle replayer takes up no file unless the circuit of the workers is closed.
ReplayOnlyWhenClosed ==
    [][breaker.state # "CLOSED" /\ replay.pc = "idle" => replay'.pc = "idle"]_vars

\* The ingestion service is a store-and-forward stage.
SF == INSTANCE StoreAndForward WITH
    Items <- Entries, taken <- 1 .. added, held <- Backlog, delivered <- db,
    givenUp <- dlq \cup skipped \cup lost
ImplementsStoreAndForward == SF!Spec
=============================================================================
