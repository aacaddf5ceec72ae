-------------------------- MODULE IngestionProofs --------------------------
(***************************************************************************)
(* What Ingestion guarantees for any number of workers, entries, outages   *)
(* and faults and every configuration.  The argument: an entry the group   *)
(* has delivered is pending or safe, and what is safe stays safe; every    *)
(* place that drops or acknowledges a copy drops one of a safe entry.      *)
(***************************************************************************)
EXTENDS Ingestion, TLAPS

Pcs == {"idle", "resolve", "insert", "spool", "ack", "fail"}
WorkerRecord == [pc : Pcs, todo : SUBSET Entries, seen : SUBSET Entries,
                 after : {"none", "insert", "circuit", "failure"}]
BreakerRecord == [state : {"CLOSED", "OPEN", "HALF_OPEN"}, failures : Nat, successes : Nat,
                  timeout : {"running", "over"}]

(* TypeOK in groups of variables that the same actions change. *)
StreamOK ==
    /\ added \in 0 .. MaxEntries /\ first \in Nat \ {0} /\ cursor \in 0 .. MaxEntries
    /\ pel \subseteq Entries /\ idle \subseteq pel /\ dlq \subseteq Entries
    /\ attempts \in [Entries -> Nat]
WorkerOK == worker \in [Workers -> WorkerRecord]
BreakerOK == breaker \in BreakerRecord
SpoolOK ==
    /\ files \in Seq(SUBSET Entries) /\ inflight \subseteq Entries
    /\ replay \in [pc : {"idle", "read"}, snap : SUBSET Entries, gone : BOOLEAN]
FlagsOK == openFile \in BOOLEAN /\ dbUp \in BOOLEAN
RestOK ==
    /\ tracked \subseteq Entries /\ config \in Configs /\ db \subseteq Entries
    /\ outages \in Nat /\ faults \in Nat
    /\ skipped \subseteq Entries /\ lost \subseteq Entries

LEMMA TypeParts == TypeOK <=> StreamOK /\ WorkerOK /\ BreakerOK /\ SpoolOK /\ FlagsOK /\ RestOK
BY DEF TypeOK, StreamOK, WorkerOK, WorkerRecord, BreakerOK, BreakerRecord, Pcs, SpoolOK,
       FlagsOK, RestOK

(* The file the replayer has read is the oldest one as long as it is not gone. *)
ReplayOK == replay.pc = "read" /\ ~replay.gone => files # <<>>

(* Everything that has left the stream was delivered before. *)
RangeInv ==
    /\ cursor <= added /\ first <= added + 1
    /\ \A e \in pel \cup Spooled \cup inflight \cup replay.snap : e <= cursor
    /\ \A w \in Workers : \A e \in worker[w].todo : e <= cursor

(* What workers and the tracker rely on when they acknowledge without more work, *)
(* and where every entry is.                                                     *)
SafetyInv ==
    /\ tracked \subseteq Safe
    /\ \A w \in Workers : worker[w].seen \subseteq tracked
    /\ \A w \in Workers : worker[w].pc = "ack" => worker[w].todo \subseteq Safe
    /\ \A e \in pel : e < first => e \in Safe
    /\ \A e \in Entries : e <= added => e \in Undelivered \cup pel \cup Safe
-----------------------------------------------------------------------------
(* Types *)

LEMMA InitTypes == Init => TypeOK
<1> SUFFICES ASSUME Init PROVE TypeOK
    OBVIOUS
<1>1. StreamOK
    BY ConfigAssumption DEF Init, StreamOK, Entries
<1>2. WorkerOK
    BY DEF Init, WorkerOK, WorkerRecord, Pcs, Resting
<1>3. BreakerOK
    BY DEF Init, BreakerOK, BreakerRecord, Closed
<1>4. SpoolOK
    BY DEF Init, SpoolOK, NoReplay
<1>5. FlagsOK
    BY DEF Init, FlagsOK
<1>6. RestOK
    BY DEF Init, RestOK
<1> QED
    BY <1>1, <1>2, <1>3, <1>4, <1>5, <1>6, TypeParts

(* The breaker's two reports and its question keep its record in shape. *)
LEMMA BreakerTypes ==
    ASSUME BreakerOK
    PROVE  /\ RecordSuccess => BreakerOK'
           /\ RecordFailure => BreakerOK'
           /\ Probe => BreakerOK'
<1>1. ASSUME RecordSuccess PROVE BreakerOK'
    <2> DEFINE closes == breaker.successes + 1 >= SuccessThreshold
    <2>1. breaker.successes + 1 \in Nat /\ closes \in BOOLEAN
        BY LimitsAssumption DEF BreakerOK, BreakerRecord
    <2> HIDE DEF closes
    <2>2. PICK n \in Nat : n = breaker.successes + 1
        BY <2>1
    <2>3. CASE breaker.state # "HALF_OPEN"
        BY <1>1, <2>3 DEF BreakerOK, BreakerRecord, RecordSuccess
    <2>4. CASE breaker.state = "HALF_OPEN" /\ closes
        BY <1>1, <2>4 DEF BreakerOK, BreakerRecord, RecordSuccess, closes
    <2>5. CASE breaker.state = "HALF_OPEN" /\ ~closes
        <3>1. breaker' = [breaker EXCEPT !.failures = 0, !.successes = n]
            BY <1>1, <2>2, <2>5, Zenon DEF BreakerOK, BreakerRecord, RecordSuccess, closes
        <3> QED
            BY <3>1 DEF BreakerOK, BreakerRecord
    <2> QED
        BY <2>3, <2>4, <2>5
<1>2. RecordFailure => BreakerOK'
    BY DEF BreakerOK, BreakerRecord, RecordFailure, Failed
<1>3. ASSUME Probe PROVE BreakerOK'
    <2>1. CASE config.spool /\ breaker.state = "OPEN"
        BY <1>3, <2>1 DEF BreakerOK, BreakerRecord, Probe
    <2>2. CASE ~(config.spool /\ breaker.state = "OPEN")
        BY <1>3, <2>2 DEF BreakerOK, BreakerRecord, Probe
    <2> QED
        BY <2>1, <2>2
<1> QED
    BY <1>1, <1>2, <1>3

(* The next batch is made of entries of the stream that were not delivered. *)
LEMMA NextBatch ==
    ASSUME StreamOK, NextEntry <= added
    PROVE  /\ LastRead \in NextEntry .. added /\ cursor < NextEntry /\ first <= NextEntry
           /\ NextEntry \in Nat
           /\ NextEntry .. LastRead \subseteq Entries
BY ConfigAssumption, LimitsAssumption DEF StreamOK, NextEntry, LastRead, Entries

(* Spooling keeps the files a sequence of sets of entries. *)
LEMMA SpoolTypes ==
    ASSUME SpoolOK, WorkerOK, NEW w \in Workers, Spool(w)
    PROVE  SpoolOK'
<1>1. worker[w].todo \in SUBSET Entries
    BY DEF WorkerOK, WorkerRecord
<1>2. Kept(w) \in Seq(SUBSET Entries)
    BY DEF Kept, Evicts, SpoolOK
<1>3. PICK full \in BOOLEAN :
          /\ files' = IF openFile /\ ~full /\ Kept(w) # <<>>
                      THEN [Kept(w) EXCEPT ![Len(Kept(w))] = @ \cup worker[w].todo]
                      ELSE Append(Kept(w), worker[w].todo)
          /\ replay' = [replay EXCEPT !.gone =
                           @ \/ (replay.pc = "read" /\ Evicts(w)
                                  /\ (Len(files) > 1 \/ ~openFile \/ full))]
    BY DEF Spool
<1>4. files' \in Seq(SUBSET Entries)
    <2>1. CASE openFile /\ ~full /\ Kept(w) # <<>>
        BY <1>1, <1>2, <1>3, <2>1
    <2>2. CASE ~(openFile /\ ~full /\ Kept(w) # <<>>)
        BY <1>1, <1>2, <1>3, <2>2
    <2> QED
        BY <2>1, <2>2
<1>5. replay' \in [pc : {"idle", "read"}, snap : SUBSET Entries, gone : BOOLEAN]
    BY <1>3, Zenon DEF SpoolOK
<1> QED
    BY <1>4, <1>5 DEF Spool, SpoolOK

(* A worker's record is replaced by another record. *)
LEMMA WorkerSet ==
    ASSUME WorkerOK, NEW w \in Workers, NEW r \in WorkerRecord,
           worker' = [worker EXCEPT ![w] = r]
    PROVE  WorkerOK'
BY DEF WorkerOK

LEMMA WorkerAt ==
    ASSUME WorkerOK, NEW w \in Workers, NEW r, worker' = [worker EXCEPT ![w] = r]
    PROVE  \A v \in Workers : worker'[v] = IF v = w THEN r ELSE worker[v]
BY DEF WorkerOK

LEMMA AfterFailureTypes ==
    ASSUME WorkerOK, NEW w \in Workers, AfterFailure(w)
    PROVE  WorkerOK'
<1>1. PICK p \in {"spool", "fail"} :
          worker' = [worker EXCEPT ![w].pc = p, ![w].after = "failure"]
    BY Zenon DEF AfterFailure
<1> QED
    BY <1>1 DEF WorkerOK, WorkerRecord, Pcs

(* Actions of a worker keep the types. *)
LEMMA WorkerTypes ==
    ASSUME TypeOK, NEW w \in Workers, WorkerStep(w)
    PROVE  TypeOK'
<1>0. StreamOK /\ WorkerOK /\ BreakerOK /\ SpoolOK /\ FlagsOK /\ RestOK
    BY TypeParts
<1> SUFFICES StreamOK' /\ WorkerOK' /\ BreakerOK' /\ SpoolOK' /\ FlagsOK' /\ RestOK'
    BY TypeParts, PTL
<1>1. CASE Read(w)
    <2>1. StreamOK'
        BY <1>0, <1>1, NextBatch, ConfigAssumption, SMTT(30)
           DEF Read, ReadGroup, StreamOK
    <2>2. WorkerOK'
        BY <1>0, <1>1, NextBatch
           DEF Read, ReadGroup, Start, Resting, WorkerOK, WorkerRecord, Pcs
    <2>3. BreakerOK' /\ SpoolOK' /\ FlagsOK' /\ RestOK'
        BY <1>0, <1>1 DEF Read, ReadGroup, BreakerOK, SpoolOK, FlagsOK, RestOK,
           spoolVars, envVars
    <2> QED
        BY <2>1, <2>2, <2>3
<1>2. CASE ReadThenRetire(w)
    <2>1. StreamOK'
        BY <1>0, <1>2, NextBatch, ConfigAssumption, SMTT(30)
           DEF ReadThenRetire, ReadGroup, StreamOK
    <2>2. WorkerOK' /\ BreakerOK' /\ SpoolOK' /\ FlagsOK' /\ RestOK'
        BY <1>0, <1>2 DEF ReadThenRetire, ReadGroup, WorkerOK, BreakerOK, SpoolOK, FlagsOK,
           RestOK, spoolVars, envVars
    <2> QED
        BY <2>1, <2>2
<1>3. CASE ClaimStale(w)
    <2>1. StreamOK'
        BY <1>0, <1>3 DEF ClaimStale, Stale, StreamOK
    <2>2. WorkerOK'
        <3> DEFINE S == {e \in Stale : first <= e}
        <3>1. S \subseteq Entries
            BY <1>0 DEF Stale, StreamOK
        <3>2. UNCHANGED worker \/ Start(w, S)
            BY <1>3 DEF ClaimStale
        <3> HIDE DEF S
        <3> QED
            BY <1>0, <3>1, <3>2, WorkerSet DEF Start, Resting, WorkerRecord, Pcs, WorkerOK
    <2>3. BreakerOK' /\ SpoolOK' /\ FlagsOK' /\ RestOK'
        BY <1>0, <1>3 DEF ClaimStale, BreakerOK, SpoolOK, FlagsOK, RestOK, spoolVars, envVars
    <2> QED
        BY <2>1, <2>2, <2>3
<1>4. CASE Resolve(w)
    <2> DEFINE fresh == worker[w].todo \ tracked
    <2>0. worker[w].todo \subseteq Entries
        BY <1>0 DEF WorkerOK, WorkerRecord
    <2>1. StreamOK'
        BY <1>0, <1>4, <2>0 DEF Resolve, Xack, StreamOK
    <2>2. WorkerOK'
        <3> DEFINE seen == worker[w].todo \cap tracked
                   good == fresh \ Bad
        <3>1. seen \in SUBSET Entries /\ good \in SUBSET Entries
            BY <2>0
        <3>2. \/ worker' = [worker EXCEPT ![w] = [Resting EXCEPT !.pc = "ack", !.seen = seen]]
              \/ worker' = [worker EXCEPT ![w] = [pc |-> "spool", todo |-> good, seen |-> seen,
                                                 after |-> "circuit"]]
              \/ worker' = [worker EXCEPT ![w] = [pc |-> "insert", todo |-> good, seen |-> seen,
                                                 after |-> "none"]]
            BY <1>4 DEF Resolve
        <3> HIDE DEF seen, good
        <3>3. /\ [Resting EXCEPT !.pc = "ack", !.seen = seen] \in WorkerRecord
              /\ [pc |-> "spool", todo |-> good, seen |-> seen, after |-> "circuit"]
                    \in WorkerRecord
              /\ [pc |-> "insert", todo |-> good, seen |-> seen, after |-> "none"]
                    \in WorkerRecord
            BY <3>1 DEF Resting, WorkerRecord, Pcs
        <3> QED
            BY <1>0, <3>2, <3>3, WorkerSet
    <2>3. BreakerOK'
        <3>1. UNCHANGED breaker \/ Probe
            BY <1>4 DEF Resolve
        <3> QED
            BY <1>0, <3>1, BreakerTypes DEF BreakerOK
    <2>4. SpoolOK' /\ FlagsOK'
        BY <1>0, <1>4 DEF Resolve, SpoolOK, FlagsOK, spoolVars
    <2>5. RestOK'
        BY <1>0, <1>4 DEF Resolve, RestOK
    <2> QED
        BY <2>1, <2>2, <2>3, <2>4, <2>5
<1>5. CASE InsertOk(w)
    <2>1. WorkerOK' /\ StreamOK'
        BY <1>0, <1>5 DEF InsertOk, WorkerOK, WorkerRecord, Pcs, StreamOK, redisVars
    <2>2. BreakerOK'
        BY <1>0, <1>5, BreakerTypes DEF InsertOk
    <2>3. RestOK'
        BY <1>0, <1>5 DEF InsertOk, RestOK, WorkerOK, WorkerRecord, envVars
    <2>4. SpoolOK' /\ FlagsOK'
        BY <1>0, <1>5 DEF InsertOk, SpoolOK, FlagsOK, spoolVars
    <2> QED
        BY <2>1, <2>2, <2>3, <2>4
<1>6. CASE InsertFails(w)
    <2>1. StreamOK'
        BY <1>0, <1>6 DEF InsertFails, Xack, StreamOK
    <2>2. WorkerOK'
        BY <1>0, <1>6, AfterFailureTypes DEF InsertFails
    <2>3. BreakerOK'
        BY <1>0, <1>6, BreakerTypes DEF InsertFails
    <2>4. RestOK'
        BY <1>0, <1>6 DEF InsertFails, RestOK, WorkerOK, WorkerRecord
    <2>5. SpoolOK' /\ FlagsOK'
        BY <1>0, <1>6 DEF InsertFails, SpoolOK, FlagsOK, spoolVars
    <2> QED
        BY <2>1, <2>2, <2>3, <2>4, <2>5
<1>7. CASE Spool(w)
    <2>1. StreamOK' /\ WorkerOK'
        BY <1>0, <1>7 DEF Spool, WorkerOK, WorkerRecord, Pcs, StreamOK, redisVars
    <2>2. SpoolOK'
        BY <1>0, <1>7, SpoolTypes
    <2>3. RestOK'
        BY <1>0, <1>7 DEF Spool, Lose, Evicts, RestOK, SpoolOK, envVars
    <2>4. BreakerOK' /\ FlagsOK'
        BY <1>0, <1>7 DEF Spool, BreakerOK, FlagsOK
    <2> QED
        BY <2>1, <2>2, <2>3, <2>4
<1>8. CASE SpoolFails(w)
    <2>1. StreamOK'
        BY <1>0, <1>8 DEF SpoolFails, Xack, StreamOK
    <2>2. WorkerOK'
        BY <1>0, <1>8 DEF SpoolFails, Resting, WorkerOK, WorkerRecord, Pcs
    <2>3. RestOK'
        BY <1>0, <1>8 DEF SpoolFails, RestOK
    <2>4. BreakerOK' /\ SpoolOK' /\ FlagsOK'
        BY <1>0, <1>8 DEF SpoolFails, BreakerOK, SpoolOK, FlagsOK, spoolVars
    <2> QED
        BY <2>1, <2>2, <2>3, <2>4
<1>9. CASE Ack(w)
    <2>1. StreamOK'
        BY <1>0, <1>9 DEF Ack, Xack, StreamOK
    <2>2. WorkerOK'
        BY <1>0, <1>9 DEF Ack, Resting, WorkerOK, WorkerRecord, Pcs
    <2>3. RestOK'
        BY <1>0, <1>9 DEF Ack, RestOK, WorkerOK, WorkerRecord
    <2>4. BreakerOK' /\ SpoolOK' /\ FlagsOK'
        BY <1>0, <1>9 DEF Ack, BreakerOK, SpoolOK, FlagsOK, spoolVars
    <2> QED
        BY <2>1, <2>2, <2>3, <2>4
<1>10. CASE AckThrows(w)
    <2>1. StreamOK'
        BY <1>0, <1>10 DEF AckThrows, Xack, StreamOK
    <2>2. WorkerOK'
        <3>1. \/ AfterFailure(w)
              \/ worker' = [worker EXCEPT ![w].pc = "fail"]
              \/ worker' = [worker EXCEPT ![w] = Resting]
            BY <1>10 DEF AckThrows
        <3> QED
            BY <1>0, <3>1, AfterFailureTypes DEF Resting, WorkerOK, WorkerRecord, Pcs
    <2>3. BreakerOK'
        <3>1. UNCHANGED breaker \/ RecordFailure
            BY <1>10 DEF AckThrows
        <3> QED
            BY <1>0, <3>1, BreakerTypes DEF BreakerOK
    <2>4. RestOK'
        BY <1>0, <1>10 DEF AckThrows, RestOK
    <2>5. SpoolOK' /\ FlagsOK'
        BY <1>0, <1>10 DEF AckThrows, SpoolOK, FlagsOK, spoolVars
    <2> QED
        BY <2>1, <2>2, <2>3, <2>4, <2>5
<1>11. CASE HandleFailure(w)
    <2>1. StreamOK'
        BY <1>0, <1>11 DEF HandleFailure, Xack, StreamOK, WorkerOK, WorkerRecord
    <2>2. WorkerOK'
        <3>1. PICK e \in worker[w].todo :
                  worker' = [worker EXCEPT ![w] = IF @.todo = {e} THEN Resting
                                                  ELSE [@ EXCEPT !.todo = worker[w].todo \ {e}]]
            BY <1>11 DEF HandleFailure
        <3>2. Resting \in WorkerRecord
            BY DEF Resting, WorkerRecord, Pcs
        <3>3. [worker[w] EXCEPT !.todo = worker[w].todo \ {e}] \in WorkerRecord
            BY <1>0 DEF WorkerOK, WorkerRecord
        <3> DEFINE rest == IF worker[w].todo = {e} THEN Resting
                           ELSE [worker[w] EXCEPT !.todo = worker[w].todo \ {e}]
        <3>4. rest \in WorkerRecord
            BY <3>2, <3>3
        <3>5. worker' = [worker EXCEPT ![w] = rest]
            BY <3>1
        <3> HIDE DEF rest
        <3> QED
            BY <1>0, <3>4, <3>5, WorkerSet
    <2>3. RestOK'
        BY <1>0, <1>11 DEF HandleFailure, RestOK
    <2>4. BreakerOK' /\ SpoolOK' /\ FlagsOK'
        BY <1>0, <1>11 DEF HandleFailure, BreakerOK, SpoolOK, FlagsOK, spoolVars
    <2> QED
        BY <2>1, <2>2, <2>3, <2>4
<1> QED
    BY <1>1, <1>2, <1>3, <1>4, <1>5, <1>6, <1>7, <1>8, <1>9, <1>10, <1>11 DEF WorkerStep

(* The producer, the replayer, time and failures keep the types. *)
LEMMA NextTypes == TypeOK /\ ReplayOK /\ [Next]_vars => TypeOK'
<1> SUFFICES ASSUME TypeOK, ReplayOK, [Next]_vars PROVE TypeOK'
    OBVIOUS
<1>0. StreamOK /\ WorkerOK /\ BreakerOK /\ SpoolOK /\ FlagsOK /\ RestOK
    BY TypeParts
<1> DEFINE Parts == StreamOK /\ WorkerOK /\ BreakerOK /\ SpoolOK /\ FlagsOK /\ RestOK
<1>a. Parts' => TypeOK'
    BY TypeParts, PTL
<1>1. CASE Add
    <2>1. StreamOK'
        BY <1>0, <1>1, ConfigAssumption, LimitsAssumption DEF Add, StreamOK
    <2>2. RestOK'
        BY <1>0, <1>1 DEF Add, Lose, RestOK, envVars
    <2>3. WorkerOK' /\ BreakerOK' /\ SpoolOK' /\ FlagsOK'
        BY <1>0, <1>1 DEF Add, WorkerOK, BreakerOK, SpoolOK, FlagsOK, spoolVars
    <2> QED
        BY <1>a, <2>1, <2>2, <2>3
<1>2. CASE \E w \in Workers : WorkerStep(w)
    BY <1>2, WorkerTypes
<1>3. CASE ReplayRead
    <2>1. SpoolOK'
        BY <1>0, <1>3 DEF ReplayRead, SpoolOK
    <2>2. StreamOK' /\ WorkerOK' /\ BreakerOK' /\ FlagsOK' /\ RestOK'
        BY <1>0, <1>3 DEF ReplayRead, StreamOK, WorkerOK, BreakerOK, FlagsOK, RestOK, redisVars,
           envVars
    <2> QED
        BY <1>a, <2>1, <2>2
<1>4. CASE ReplayUnlink
    <2>0. Tail(files) \in Seq(SUBSET Entries) /\ files[1] \in SUBSET Entries
        BY <1>0, <1>4 DEF ReplayUnlink, ReplayOK, SpoolOK
    <2>1. SpoolOK'
        BY <1>0, <1>4, <2>0 DEF ReplayUnlink, SpoolOK, NoReplay
    <2>2. FlagsOK'
        BY <1>0, <1>4, Zenon DEF ReplayUnlink, FlagsOK
    <2>3. RestOK'
        BY <1>0, <1>4, <2>0 DEF ReplayUnlink, Lose, RestOK, SpoolOK, envVars
    <2>4. StreamOK' /\ WorkerOK' /\ BreakerOK'
        BY <1>0, <1>4 DEF ReplayUnlink, StreamOK, WorkerOK, BreakerOK, redisVars
    <2> QED
        BY <1>a, <2>1, <2>2, <2>3, <2>4
<1>5. CASE ReplayMissing
    <2>1. SpoolOK'
        BY <1>0, <1>5 DEF ReplayMissing, SpoolOK, NoReplay
    <2>2. StreamOK' /\ WorkerOK' /\ BreakerOK' /\ FlagsOK' /\ RestOK'
        BY <1>0, <1>5 DEF ReplayMissing, StreamOK, WorkerOK, BreakerOK, FlagsOK, RestOK,
           redisVars, envVars
    <2> QED
        BY <1>a, <2>1, <2>2
<1>6. ASSUME NEW e \in Entries, ReplayInsert(e) PROVE TypeOK'
    <2>1. BreakerOK'
        BY <1>0, <1>6, BreakerTypes DEF ReplayInsert
    <2>2. RestOK'
        BY <1>0, <1>6 DEF ReplayInsert, Lose, RestOK
    <2>3. StreamOK' /\ WorkerOK' /\ SpoolOK' /\ FlagsOK'
        BY <1>0, <1>6 DEF ReplayInsert, StreamOK, WorkerOK, SpoolOK, FlagsOK, redisVars
    <2> QED
        BY <1>a, <2>1, <2>2, <2>3
<1>7. ASSUME NEW e \in Entries, Age(e) PROVE TypeOK'
    <2>1. StreamOK'
        BY <1>0, <1>7 DEF Age, StreamOK
    <2>2. WorkerOK' /\ BreakerOK' /\ SpoolOK' /\ FlagsOK' /\ RestOK'
        BY <1>0, <1>7 DEF Age, WorkerOK, BreakerOK, SpoolOK, FlagsOK, RestOK, spoolVars, envVars
    <2> QED
        BY <1>a, <2>1, <2>2
<1>8. CASE Cool
    <2>1. BreakerOK'
        BY <1>0, <1>8 DEF Cool, BreakerOK, BreakerRecord
    <2>2. StreamOK' /\ WorkerOK' /\ SpoolOK' /\ FlagsOK' /\ RestOK'
        BY <1>0, <1>8 DEF Cool, StreamOK, WorkerOK, SpoolOK, FlagsOK, RestOK, redisVars,
           spoolVars, envVars
    <2> QED
        BY <1>a, <2>1, <2>2
<1>9. CASE DbFails \/ DbReturns
    <2>1. FlagsOK'
        BY <1>0, <1>9 DEF DbFails, DbReturns, FlagsOK, spoolVars
    <2>2. RestOK'
        BY <1>0, <1>9 DEF DbFails, DbReturns, RestOK, envVars
    <2>3. StreamOK' /\ WorkerOK' /\ BreakerOK' /\ SpoolOK'
        BY <1>0, <1>9 DEF DbFails, DbReturns, StreamOK, WorkerOK, BreakerOK, SpoolOK, redisVars,
           spoolVars
    <2> QED
        BY <1>a, <2>1, <2>2, <2>3
<1>10. CASE Crash
    <2>1. WorkerOK'
        BY <1>10 DEF Crash, Resting, WorkerOK, WorkerRecord, Pcs
    <2>2. BreakerOK' /\ SpoolOK' /\ FlagsOK'
        BY <1>0, <1>10 DEF Crash, Closed, NoReplay, BreakerOK, BreakerRecord, SpoolOK, FlagsOK
    <2>3. StreamOK' /\ RestOK'
        BY <1>0, <1>10 DEF Crash, Lose, StreamOK, RestOK, SpoolOK, redisVars
    <2> QED
        BY <1>a, <2>1, <2>2, <2>3
<1>11. CASE UNCHANGED vars
    BY <1>11 DEF TypeOK, vars, redisVars, spoolVars, envVars
<1> QED
    BY <1>1, <1>2, <1>3, <1>4, <1>5, <1>6, <1>7, <1>8, <1>9, <1>10, <1>11 DEF Next, ReplayStep

LEMMA NextReplay == TypeOK /\ ReplayOK /\ [Next]_vars => ReplayOK'
<1> SUFFICES ASSUME TypeOK, ReplayOK, [Next]_vars PROVE ReplayOK'
    OBVIOUS
<1>1. CASE UNCHANGED <<files, replay>>
    BY <1>1 DEF ReplayOK
<1>2. ASSUME NEW w \in Workers, Spool(w) PROVE ReplayOK'
    <2>1. files' # <<>>
        <3>1. Kept(w) \in Seq(SUBSET Entries) /\ worker[w].todo \in SUBSET Entries
            BY DEF TypeOK, Kept, Evicts
        <3>2. PICK full \in BOOLEAN :
                  files' = IF openFile /\ ~full /\ Kept(w) # <<>>
                           THEN [Kept(w) EXCEPT ![Len(Kept(w))] = @ \cup worker[w].todo]
                           ELSE Append(Kept(w), worker[w].todo)
            BY <1>2 DEF Spool
        <3>3. CASE openFile /\ ~full /\ Kept(w) # <<>>
            BY <3>1, <3>2, <3>3
        <3>4. CASE ~(openFile /\ ~full /\ Kept(w) # <<>>)
            BY <3>1, <3>2, <3>4
        <3> QED
            BY <3>3, <3>4
    <2> QED
        BY <2>1 DEF ReplayOK
<1>3. CASE ReplayRead
    BY <1>3 DEF ReplayRead, ReplayOK
<1>4. CASE ReplayUnlink \/ ReplayMissing \/ Crash
    BY <1>4 DEF ReplayUnlink, ReplayMissing, Crash, NoReplay, ReplayOK
<1>5. ASSUME NEW w \in Workers, WorkerStep(w) PROVE Spool(w) \/ UNCHANGED <<files, replay>>
    BY <1>5 DEF WorkerStep, Read, ReadThenRetire, ReadGroup, ClaimStale, Resolve, InsertOk,
       InsertFails, SpoolFails, Ack, AckThrows, HandleFailure, spoolVars
<1>6. ASSUME NEW e \in Entries, ReplayInsert(e) \/ Age(e) PROVE UNCHANGED <<files, replay>>
    BY <1>6 DEF ReplayInsert, Age, spoolVars
<1>7. CASE Add \/ Cool \/ DbFails \/ DbReturns \/ UNCHANGED vars
    BY <1>1, <1>7 DEF Add, Cool, DbFails, DbReturns, vars, spoolVars
<1> QED
    BY <1>1, <1>2, <1>3, <1>4, <1>5, <1>6, <1>7 DEF Next, ReplayStep

LEMMA TypeInvariant == Spec => [](TypeOK /\ ReplayOK)
<1>1. Init => TypeOK /\ ReplayOK
    BY InitTypes DEF Init, NoReplay, ReplayOK
<1> QED
    BY <1>1, NextTypes, NextReplay, PTL DEF Spec

(* Every variable keeps its type, whatever the workers, the replayer, Redis, the *)
(* database and the disk do.                                                     *)
THEOREM TypeCorrect == Spec => []TypeOK
BY TypeInvariant, PTL
-----------------------------------------------------------------------------
(* What is safe stays safe *)

(* Facts about the union of a sequence of sets. *)
LEMMA UnionOfTail ==
    ASSUME NEW X, NEW s \in Seq(SUBSET X), s # <<>>
    PROVE  UNION {s[k] : k \in DOMAIN s}
             = s[1] \cup UNION {Tail(s)[k] : k \in DOMAIN Tail(s)}
<1>1. ASSUME NEW k \in DOMAIN s PROVE s[k] \subseteq s[1] \cup UNION {Tail(s)[j] : j \in DOMAIN Tail(s)}
    <2>1. CASE k = 1
        BY <2>1
    <2>2. CASE k # 1
        <3>1. k - 1 \in DOMAIN Tail(s) /\ Tail(s)[k - 1] = s[k]
            BY <2>2
        <3> QED
            BY <3>1
    <2> QED
        BY <2>1, <2>2
<1>2. ASSUME NEW k \in DOMAIN Tail(s) PROVE k + 1 \in DOMAIN s /\ s[k + 1] = Tail(s)[k]
    OBVIOUS
<1>3. 1 \in DOMAIN s
    OBVIOUS
<1> QED
    BY <1>1, <1>2, <1>3

LEMMA UnionOfAppend ==
    ASSUME NEW X, NEW s \in Seq(SUBSET X), NEW x \in SUBSET X
    PROVE  UNION {Append(s, x)[k] : k \in DOMAIN Append(s, x)} = x \cup UNION {s[k] : k \in DOMAIN s}
<1> DEFINE t == Append(s, x)
<1>1. DOMAIN t = DOMAIN s \cup {Len(s) + 1} /\ t[Len(s) + 1] = x
    OBVIOUS
<1>2. \A k \in DOMAIN s : t[k] = s[k]
    OBVIOUS
<1> HIDE DEF t
<1> QED
    BY <1>1, <1>2 DEF t

LEMMA UnionOfGrown ==
    ASSUME NEW X, NEW s \in Seq(SUBSET X), NEW x \in SUBSET X, NEW n \in DOMAIN s
    PROVE  LET t == [s EXCEPT ![n] = @ \cup x]
           IN  UNION {t[k] : k \in DOMAIN t} = x \cup UNION {s[k] : k \in DOMAIN s}
OBVIOUS

(* What spooling does to the entries in the files. *)
LEMMA SpoolFiles ==
    ASSUME TypeOK, NEW w \in Workers, Spool(w)
    PROVE  /\ worker[w].todo \subseteq Spooled'
           /\ Spooled' \subseteq Spooled \cup worker[w].todo
           /\ Spooled \subseteq Spooled' \cup Done' \cup lost'
<1> DEFINE U(s) == UNION {s[k] : k \in DOMAIN s}
<1>1. worker[w].todo \in SUBSET Entries
    BY DEF TypeOK
<1>2. Kept(w) \in Seq(SUBSET Entries)
    BY DEF Kept, Evicts, TypeOK
<1>3. U(files') = U(Kept(w)) \cup worker[w].todo
    <2>1. PICK full \in BOOLEAN :
              files' = IF openFile /\ ~full /\ Kept(w) # <<>>
                       THEN [Kept(w) EXCEPT ![Len(Kept(w))] = @ \cup worker[w].todo]
                       ELSE Append(Kept(w), worker[w].todo)
        BY DEF Spool
    <2>2. CASE openFile /\ ~full /\ Kept(w) # <<>>
        <3>1. Len(Kept(w)) \in DOMAIN Kept(w)
            BY <1>2, <2>2
        <3>2. files' = [Kept(w) EXCEPT ![Len(Kept(w))] = @ \cup worker[w].todo]
            BY <2>1, <2>2
        <3> QED
            BY <1>1, <1>2, <3>1, <3>2, UnionOfGrown
    <2>3. CASE ~(openFile /\ ~full /\ Kept(w) # <<>>)
        <3>1. files' = Append(Kept(w), worker[w].todo)
            BY <2>1, <2>3
        <3> QED
            BY <1>1, <1>2, <3>1, UnionOfAppend
    <2> QED
        BY <2>2, <2>3
<1>4. CASE Evicts(w)
    <2>1. U(files) = files[1] \cup U(Kept(w))
        <3>1. files # <<>> /\ files \in Seq(SUBSET Entries) /\ Kept(w) = Tail(files)
            BY <1>4 DEF Evicts, Kept, TypeOK
        <3>2. U(files) = files[1] \cup U(Tail(files))
            BY <3>1, UnionOfTail
        <3> QED
            BY <3>1, <3>2
    <2>2. files[1] \subseteq lost' \cup Done
        BY <1>4 DEF Spool, Lose
    <2>3. Done' = Done
        BY DEF Spool, Done, redisVars
    <2> QED
        BY <1>3, <2>1, <2>2, <2>3 DEF Spooled
<1>5. CASE ~Evicts(w)
    BY <1>3, <1>5 DEF Kept, Spooled
<1> QED
    BY <1>4, <1>5

(* What deleting the replayed file does to them. *)
LEMMA UnlinkFiles ==
    ASSUME TypeOK, ReplayOK, ReplayUnlink
    PROVE  /\ Spooled' \subseteq Spooled
           /\ Spooled \subseteq Spooled' \cup inflight' \cup Done' \cup lost'
           /\ files[1] \subseteq Spooled
<1>1. files # <<>> /\ files \in Seq(SUBSET Entries) /\ files' = Tail(files)
    BY DEF ReplayUnlink, ReplayOK, TypeOK
<1>2. Spooled = files[1] \cup Spooled'
    BY <1>1, UnionOfTail DEF Spooled
<1>3. files[1] \subseteq inflight' \cup lost' \cup Done
    BY DEF ReplayUnlink, Lose
<1>4. Done' = Done
    BY DEF ReplayUnlink, Done, redisVars
<1> QED
    BY <1>2, <1>3, <1>4

(* No step takes an entry out of what is safe. *)
LEMMA SafeGrows ==
    ASSUME TypeOK, ReplayOK, [Next]_vars
    PROVE  Safe \subseteq Safe'
<1>1. Done \subseteq Done' /\ lost \subseteq lost'
    BY DEF Next, WorkerStep, ReplayStep, Add, Read, ReadThenRetire, ReadGroup, ClaimStale, Resolve,
       InsertOk, InsertFails, Spool, SpoolFails, Ack, AckThrows, HandleFailure, ReplayRead,
       ReplayUnlink, ReplayMissing, ReplayInsert, Age, Cool, DbFails, DbReturns, Crash, Lose,
       Done, vars, redisVars
<1>2. ASSUME UNCHANGED <<files, inflight>> PROVE Safe \subseteq Safe'
    BY <1>1, <1>2 DEF Safe, Spooled
<1>3. ASSUME NEW w \in Workers, Spool(w) PROVE Safe \subseteq Safe'
    <2>1. inflight' = inflight
        BY <1>3 DEF Spool
    <2> QED
        BY <1>1, <1>3, <2>1, SpoolFiles DEF Safe
<1>4. CASE ReplayUnlink
    <2>1. inflight \subseteq inflight'
        BY <1>4 DEF ReplayUnlink
    <2> QED
        BY <1>1, <1>4, <2>1, UnlinkFiles DEF Safe
<1>5. ASSUME NEW e \in Entries, ReplayInsert(e) PROVE Safe \subseteq Safe'
    <2>1. Spooled' = Spooled /\ inflight' = inflight \ {e}
        BY <1>5 DEF ReplayInsert, Spooled
    <2>2. e \in Done' \cup lost'
        BY <1>1, <1>5 DEF ReplayInsert, Lose, Done, redisVars
    <2> QED
        BY <1>1, <2>1, <2>2 DEF Safe
<1>6. CASE Crash
    <2>1. Spooled' = Spooled /\ inflight \subseteq Done' \cup lost'
        BY <1>1, <1>6 DEF Crash, Lose, Spooled
    <2> QED
        BY <1>1, <2>1 DEF Safe
<1>7. ASSUME NEW w \in Workers, WorkerStep(w) PROVE Spool(w) \/ UNCHANGED <<files, inflight>>
    BY <1>7 DEF WorkerStep, Read, ReadThenRetire, ReadGroup, ClaimStale, Resolve, InsertOk,
       InsertFails, SpoolFails, Ack, AckThrows, HandleFailure, spoolVars
<1>8. CASE Add \/ ReplayRead \/ ReplayMissing \/ Cool \/ DbFails \/ DbReturns \/ UNCHANGED vars
           \/ \E e \in Entries : Age(e)
    <2>1. UNCHANGED <<files, inflight>>
        BY <1>8 DEF Add, ReplayRead, ReplayMissing, Cool, DbFails, DbReturns, Age, vars, spoolVars
    <2> QED
        BY <1>2, <2>1
<1> QED
    BY <1>2, <1>3, <1>4, <1>5, <1>6, <1>7, <1>8 DEF Next, ReplayStep
-----------------------------------------------------------------------------
(* Where entries are *)

LEMMA InitSafety == Init => RangeInv /\ SafetyInv
BY DEF Init, RangeInv, SafetyInv, Spooled, NoReplay, Resting, Entries

LEMMA SpooledEntries == TypeOK => Spooled \subseteq Entries
BY DEF TypeOK, Spooled

(* Where a worker's step moves copies that are there already. *)
LEMMA WorkerMoves ==
    ASSUME TypeOK, NEW w \in Workers, WorkerStep(w), ~Read(w), ~ReadThenRetire(w)
    PROVE  /\ UNCHANGED <<added, first, cursor, inflight>>
           /\ replay'.snap = replay.snap /\ replay'.pc = replay.pc
           /\ pel' \subseteq pel /\ Spooled' \subseteq Spooled \cup worker[w].todo
           /\ \A v \in Workers : worker'[v].todo \subseteq worker[v].todo \cup pel
<1>1. CASE ClaimStale(w)
    <2>1. \A v \in Workers : worker'[v].todo \subseteq worker[v].todo \cup pel
        <3> DEFINE S == {e \in Stale : first <= e}
        <3>1. S \subseteq pel
            BY DEF Stale, TypeOK
        <3>2. UNCHANGED worker \/ Start(w, S)
            BY <1>1 DEF ClaimStale
        <3> HIDE DEF S
        <3>3. CASE UNCHANGED worker
            BY <3>3
        <3>4. CASE Start(w, S)
            BY <3>1, <3>4, WorkerAt, TypeParts DEF Start, Resting
        <3> QED
            BY <3>2, <3>3, <3>4
    <2> QED
        BY <1>1, <2>1 DEF ClaimStale, spoolVars, Spooled
<1>2. CASE Resolve(w)
    <2> DEFINE seen == worker[w].todo \cap tracked
               good == (worker[w].todo \ tracked) \ Bad
    <2>1. \/ worker' = [worker EXCEPT ![w] = [Resting EXCEPT !.pc = "ack", !.seen = seen]]
          \/ worker' = [worker EXCEPT ![w] = [pc |-> "spool", todo |-> good, seen |-> seen,
                                             after |-> "circuit"]]
          \/ worker' = [worker EXCEPT ![w] = [pc |-> "insert", todo |-> good, seen |-> seen,
                                             after |-> "none"]]
        BY <1>2 DEF Resolve
    <2>2. \A v \in Workers : worker'[v].todo \subseteq worker[v].todo
        <3>1. good \subseteq worker[w].todo /\ WorkerOK
            BY TypeParts
        <3> HIDE DEF seen, good
        <3>2. PICK r : worker' = [worker EXCEPT ![w] = r] /\ r.todo \subseteq worker[w].todo
            BY <2>1, <3>1 DEF Resting
        <3> QED
            BY <3>1, <3>2, WorkerAt
    <2> QED
        BY <1>2, <2>2 DEF Resolve, Xack, spoolVars, Spooled
<1>3. CASE Spool(w)
    <2>1. \A v \in Workers : worker'[v].todo = worker[v].todo
        BY <1>3 DEF Spool, TypeOK
    <2>2. replay'.snap = replay.snap /\ replay'.pc = replay.pc
        BY <1>3 DEF Spool, TypeOK
    <2> QED
        BY <1>3, <2>1, <2>2, SpoolFiles DEF Spool, redisVars
<1>4. CASE InsertOk(w) \/ InsertFails(w) \/ SpoolFails(w) \/ Ack(w) \/ AckThrows(w)
    <2>2. \A v \in Workers : worker'[v].todo \subseteq worker[v].todo
        <3>1. CASE InsertOk(w)
            BY <3>1 DEF InsertOk, TypeOK
        <3>2. CASE AfterFailure(w)
            BY <3>2 DEF AfterFailure, TypeOK
        <3>3. CASE worker' = [worker EXCEPT ![w] = Resting]
            BY <3>3 DEF Resting, TypeOK
        <3>4. CASE worker' = [worker EXCEPT ![w].pc = "fail"]
            BY <3>4 DEF TypeOK
        <3>5. CASE SpoolFails(w)
            BY <3>5 DEF SpoolFails, Resting, TypeOK
        <3> QED
            BY <1>4, <3>1, <3>2, <3>3, <3>4, <3>5 DEF InsertFails, Ack, AckThrows
    <2>3. UNCHANGED <<added, first, cursor, files, replay, inflight>> /\ pel' \subseteq pel
        BY <1>4 DEF InsertOk, InsertFails, SpoolFails, Ack, AckThrows, Xack, redisVars, spoolVars
    <2> QED
        BY <2>2, <2>3 DEF Spooled
<1>5. CASE HandleFailure(w)
    <2>1. \A v \in Workers : worker'[v].todo \subseteq worker[v].todo
        BY <1>5 DEF HandleFailure, Resting, TypeOK
    <2>2. UNCHANGED <<added, first, cursor, files, replay, inflight>> /\ pel' \subseteq pel
        BY <1>5 DEF HandleFailure, Xack, spoolVars
    <2> QED
        BY <2>1, <2>2 DEF Spooled
<1> QED
    BY <1>1, <1>2, <1>3, <1>4, <1>5 DEF WorkerStep

LEMMA NextRange ==
    ASSUME TypeOK, ReplayOK, RangeInv, [Next]_vars
    PROVE  RangeInv'
<1> USE DEF RangeInv
<1>1. CASE Add
    <2>1. Spooled' = Spooled /\ inflight' = inflight /\ replay' = replay
        BY <1>1 DEF Add, spoolVars, Spooled
    <2> QED
        BY <1>1, <2>1, LimitsAssumption DEF Add, TypeOK
<1>2. ASSUME NEW w \in Workers, Read(w) PROVE RangeInv'
    <2>1. Spooled' = Spooled /\ inflight' = inflight /\ replay' = replay
        BY <1>2 DEF Read, ReadGroup, spoolVars, Spooled
    <2>2. cursor < cursor' /\ cursor' <= added' /\ cursor' \in Nat
        BY <1>2, NextBatch, TypeParts DEF Read, ReadGroup, StreamOK
    <2>3. \A e \in NextEntry .. LastRead : e <= cursor'
        BY <1>2 DEF Read, ReadGroup
    <2>4. \A v \in Workers : \A e \in worker'[v].todo : e <= cursor'
        <3> SUFFICES ASSUME NEW v \in Workers, NEW e \in worker'[v].todo PROVE e <= cursor'
            OBVIOUS
        <3>1. CASE v = w
            BY <1>2, <2>3, <3>1 DEF Read, Start, Resting, TypeOK
        <3>2. CASE v # w
            <4>1. e \in worker[v].todo /\ e \in Nat
                BY <1>2, <3>2 DEF Read, Start, TypeOK, Entries
            <4> QED
                BY <2>2, <4>1 DEF TypeOK
        <3> QED
            BY <3>1, <3>2
    <2>5. \A e \in pel' \cup Spooled' \cup inflight' \cup replay'.snap : e <= cursor'
        <3>1. \A e \in pel \cup Spooled \cup inflight \cup replay.snap : e \in Nat
            BY SpooledEntries DEF TypeOK, Entries
        <3>2. pel' = pel \cup NextEntry .. LastRead
            BY <1>2 DEF Read, ReadGroup
        <3> QED
            BY <2>1, <2>2, <2>3, <3>1, <3>2 DEF TypeOK
    <2>6. first' = first /\ added' = added
        BY <1>2 DEF Read, ReadGroup
    <2> QED
        BY <2>2, <2>4, <2>5, <2>6
<1>3. ASSUME NEW w \in Workers, ReadThenRetire(w) PROVE RangeInv'
    <2>1. Spooled' = Spooled /\ inflight' = inflight /\ replay' = replay /\ worker' = worker
        BY <1>3 DEF ReadThenRetire, ReadGroup, spoolVars, Spooled
    <2>2. cursor < cursor' /\ cursor' <= added' /\ cursor' \in Nat
        BY <1>3, NextBatch, TypeParts DEF ReadThenRetire, ReadGroup, StreamOK
    <2>3. first' = first /\ added' = added /\ pel' = pel \cup NextEntry .. LastRead
        BY <1>3 DEF ReadThenRetire, ReadGroup
    <2>4. \A e \in NextEntry .. LastRead : e <= cursor'
        BY <1>3 DEF ReadThenRetire, ReadGroup
    <2>5. \A e \in Entries : e <= cursor => e <= cursor'
        BY <2>2 DEF TypeOK, Entries
    <2>6. \A w1 \in Workers : worker[w1].todo \subseteq Entries
        BY DEF TypeOK
    <2>7. pel \cup Spooled \cup inflight \cup replay.snap \subseteq Entries
        BY SpooledEntries DEF TypeOK
    <2> QED
        BY <2>1, <2>2, <2>3, <2>4, <2>5, <2>6, <2>7
<1>4. ASSUME NEW w \in Workers, WorkerStep(w), ~Read(w), ~ReadThenRetire(w) PROVE RangeInv'
    BY <1>4, WorkerMoves
<1>5. CASE ReplayRead
    <2>1. replay'.snap \subseteq Spooled /\ Spooled' = Spooled
        BY <1>5 DEF ReplayRead, Spooled, TypeOK
    <2> QED
        BY <1>5, <2>1 DEF ReplayRead, redisVars
<1>6. CASE ReplayUnlink
    <2>1. inflight' = inflight \cup replay.snap /\ replay'.snap = {}
        BY <1>6 DEF ReplayUnlink, NoReplay
    <2> QED
        BY <1>6, <2>1, UnlinkFiles DEF ReplayUnlink, redisVars
<1>7. CASE ReplayMissing \/ Crash
    <2>1. Spooled' = Spooled /\ replay'.snap = {} /\ inflight' \subseteq inflight
        BY <1>7 DEF ReplayMissing, Crash, NoReplay, Spooled
    <2>2. \A w \in Workers : worker'[w].todo \subseteq worker[w].todo
        BY <1>7 DEF ReplayMissing, Crash, Resting
    <2> QED
        BY <1>7, <2>1, <2>2 DEF ReplayMissing, Crash, redisVars
<1>8. CASE \/ \E e \in Entries : ReplayInsert(e) \/ Age(e)
           \/ Cool \/ DbFails \/ DbReturns \/ UNCHANGED vars
    <2>1. /\ UNCHANGED <<added, first, cursor, pel, worker, files, replay>>
          /\ inflight' \subseteq inflight
        BY <1>8 DEF ReplayInsert, Age, Cool, DbFails, DbReturns, vars, redisVars, spoolVars
    <2> QED
        BY <2>1 DEF Spooled
<1> QED
    BY <1>1, <1>2, <1>3, <1>4, <1>5, <1>6, <1>7, <1>8 DEF Next, ReplayStep

(* A worker acknowledges, and the tracker learns, only entries that are safe. *)
LEMMA AcksAreSafe ==
    ASSUME TypeOK, ReplayOK, SafetyInv, NEW w \in Workers, WorkerStep(w), Safe \subseteq Safe'
    PROVE  /\ pel \subseteq pel' \cup Safe'
           /\ tracked \subseteq tracked' /\ tracked' \subseteq Safe'
<1>0. worker[w].seen \subseteq Safe /\ (worker[w].pc = "ack" => worker[w].todo \subseteq Safe)
    BY DEF SafetyInv
<1>1. pel \subseteq pel' \cup Safe'
    <2>1. CASE Read(w) \/ ReadThenRetire(w) \/ InsertOk(w) \/ Spool(w)
        BY <2>1 DEF Read, ReadThenRetire, ReadGroup, InsertOk, Spool, redisVars
    <2>2. CASE ClaimStale(w)
        <3>1. pel' = pel \ (Stale \ {e \in Stale : first <= e})
            BY <2>2 DEF ClaimStale
        <3>2. \A e \in Entries : ~(first <= e) => e < first
            BY DEF TypeOK, Entries
        <3> QED
            BY <3>1, <3>2 DEF SafetyInv, TypeOK
    <2>3. CASE Resolve(w)
        <3> DEFINE bad == (worker[w].todo \ tracked) \cap Bad
        <3>1. pel' = pel \/ (pel' = pel \ bad /\ bad \subseteq dlq')
            BY <2>3 DEF Resolve, Xack
        <3> QED
            BY <3>1 DEF Safe, Done
    <2>4. CASE InsertFails(w) \/ SpoolFails(w) \/ AckThrows(w)
        <3>1. pel' = pel \/ pel' = pel \ worker[w].seen
            BY <2>4 DEF InsertFails, SpoolFails, AckThrows, Xack
        <3> QED
            BY <1>0, <3>1
    <2>5. CASE Ack(w)
        BY <1>0, <2>5 DEF Ack, Xack
    <2>6. CASE HandleFailure(w)
        BY <2>6 DEF HandleFailure, Xack, Safe, Done
    <2> QED
        BY <2>1, <2>2, <2>3, <2>4, <2>5, <2>6 DEF WorkerStep
<1>2. tracked \subseteq tracked' /\ tracked' \subseteq tracked \cup Safe
    BY <1>0 DEF WorkerStep, Read, ReadThenRetire, ReadGroup, ClaimStale, Resolve, InsertOk,
       InsertFails, Spool, SpoolFails, Ack, AckThrows, HandleFailure
<1> QED
    BY <1>1, <1>2 DEF SafetyInv

(* A worker that is about to acknowledge holds safe entries, and what it set aside *)
(* as seen is tracked.                                                             *)
LEMMA WorkersAreSafe ==
    ASSUME TypeOK, ReplayOK, SafetyInv, NEW w \in Workers, WorkerStep(w), Safe \subseteq Safe',
           tracked \subseteq tracked'
    PROVE  /\ \A v \in Workers : worker'[v].seen \subseteq tracked'
           /\ \A v \in Workers : worker'[v].pc = "ack" => worker'[v].todo \subseteq Safe'
<1> DEFINE OK(r) == r.seen \subseteq tracked' /\ (r.pc = "ack" => r.todo \subseteq Safe')
<1>0. \A v \in Workers : OK(worker[v])
    BY DEF SafetyInv
<1>1. WorkerOK /\ worker[w] \in WorkerRecord
    BY TypeParts DEF WorkerOK
<1>2. \A r : worker' = [worker EXCEPT ![w] = r] /\ OK(r) => \A v \in Workers : OK(worker'[v])
    BY <1>0, <1>1, WorkerAt
<1>3. OK(Resting)
    BY DEF Resting
<1> SUFFICES \A v \in Workers : OK(worker'[v])
    OBVIOUS
<1>4. CASE UNCHANGED worker
    BY <1>0, <1>4
<1>5. ASSUME NEW S, Start(w, S) PROVE \A v \in Workers : OK(worker'[v])
    <2>1. OK([Resting EXCEPT !.pc = "resolve", !.todo = S])
        BY DEF Resting
    <2> HIDE DEF OK
    <2> QED
        BY <1>2, <1>5, <2>1 DEF Start
<1>6. CASE Resolve(w)
    <2> DEFINE seen == worker[w].todo \cap tracked
               good == (worker[w].todo \ tracked) \ Bad
    <2>1. \/ worker' = [worker EXCEPT ![w] = [Resting EXCEPT !.pc = "ack", !.seen = seen]]
          \/ worker' = [worker EXCEPT ![w] = [pc |-> "spool", todo |-> good, seen |-> seen,
                                             after |-> "circuit"]]
          \/ worker' = [worker EXCEPT ![w] = [pc |-> "insert", todo |-> good, seen |-> seen,
                                             after |-> "none"]]
        BY <1>6 DEF Resolve
    <2>2. seen \subseteq tracked'
        OBVIOUS
    <2> HIDE DEF seen, good
    <2>3. /\ OK([Resting EXCEPT !.pc = "ack", !.seen = seen])
          /\ OK([pc |-> "spool", todo |-> good, seen |-> seen, after |-> "circuit"])
          /\ OK([pc |-> "insert", todo |-> good, seen |-> seen, after |-> "none"])
        BY <2>2 DEF Resting
    <2> HIDE DEF OK
    <2> QED
        BY <1>2, <2>1, <2>3
<1>7. CASE InsertOk(w)
    <2>1. worker[w].todo \subseteq Safe'
        BY <1>1, <1>7 DEF InsertOk, Safe, Done, WorkerRecord, Malformed
    <2>2. worker' = [worker EXCEPT ![w].pc = "ack", ![w].after = "insert"]
        BY <1>7 DEF InsertOk
    <2> QED
        BY <1>0, <1>1, <2>1, <2>2 DEF WorkerOK, WorkerRecord
<1>8. CASE Spool(w)
    <2>1. worker[w].todo \subseteq Safe'
        BY <1>8, SpoolFiles DEF Safe
    <2>2. worker' = [worker EXCEPT ![w].pc = "ack"]
        BY <1>8 DEF Spool
    <2> QED
        BY <1>0, <1>1, <2>1, <2>2 DEF WorkerOK, WorkerRecord
<1>9. CASE AfterFailure(w)
    <2>1. PICK p \in {"spool", "fail"} :
              worker' = [worker EXCEPT ![w].pc = p, ![w].after = "failure"]
        BY <1>9, Zenon DEF AfterFailure
    <2> QED
        BY <1>0, <1>1, <2>1 DEF WorkerOK, WorkerRecord
<1>10. CASE worker' = [worker EXCEPT ![w].pc = "fail"]
    BY <1>0, <1>1, <1>10 DEF WorkerOK, WorkerRecord
<1>11. CASE worker' = [worker EXCEPT ![w] = Resting]
    <2> HIDE DEF OK
    <2> QED
        BY <1>2, <1>3, <1>11
<1>12. CASE SpoolFails(w)
    <2>1. CASE worker[w].after = "circuit"
        BY <1>11, <1>12, <2>1 DEF SpoolFails
    <2>2. CASE worker[w].after # "circuit"
        <3>1. OK([worker[w] EXCEPT !.pc = "fail"])
            BY <1>0, <1>1 DEF WorkerRecord
        <3>2. worker' = [worker EXCEPT ![w] = [worker[w] EXCEPT !.pc = "fail"]]
            BY <1>12, <2>2 DEF SpoolFails
        <3> HIDE DEF OK
        <3> QED
            BY <1>2, <3>1, <3>2
    <2> QED
        BY <2>1, <2>2
<1>13. CASE HandleFailure(w)
    <2>1. PICK e \in worker[w].todo :
              /\ worker[w].pc = "fail"
              /\ worker' = [worker EXCEPT ![w] =
                               IF @.todo = {e} THEN Resting
                               ELSE [@ EXCEPT !.todo = worker[w].todo \ {e}]]
        BY <1>13 DEF HandleFailure
    <2> DEFINE rest == IF worker[w].todo = {e} THEN Resting
                       ELSE [worker[w] EXCEPT !.todo = worker[w].todo \ {e}]
    <2>2. OK(rest)
        BY <1>0, <1>1, <1>3, <2>1 DEF WorkerRecord
    <2>3. worker' = [worker EXCEPT ![w] = rest]
        BY <2>1
    <2> HIDE DEF OK, rest
    <2> QED
        BY <1>2, <2>2, <2>3
<1> HIDE DEF OK
<1> QED
    BY <1>4, <1>5, <1>6, <1>7, <1>8, <1>9, <1>10, <1>11, <1>12, <1>13
       DEF WorkerStep, Read, ReadThenRetire, ClaimStale, InsertFails, Ack, AckThrows

LEMMA NextSafety ==
    ASSUME TypeOK, ReplayOK, RangeInv, SafetyInv, [Next]_vars
    PROVE  SafetyInv'
<1>0. Safe \subseteq Safe'
    BY SafeGrows
<1>1. CASE Add
    <2>1. UNCHANGED <<cursor, pel, worker, tracked>> /\ added' = added + 1
        BY <1>1 DEF Add
    <2>2. PICK f \in 1 .. added + 2 :
              /\ f = first \/ first < f
              /\ first' = f
              /\ Lose({e \in Entries : first <= e /\ e < f /\ (cursor < e \/ e \in pel)})
        BY <1>1 DEF Add
    <2>3. \A e \in Entries : first <= e /\ e < f /\ (cursor < e \/ e \in pel) => e \in Safe'
        <3>1. Done \subseteq Done'
            BY <1>1 DEF Add, Done
        <3> QED
            BY <2>2, <3>1 DEF Lose, Safe
    <2>4. \A e \in pel' : e < first' => e \in Safe'
        <3> SUFFICES ASSUME NEW e \in pel, e < f PROVE e \in Safe'
            BY <2>1, <2>2
        <3>1. e \in Entries /\ e \in Nat /\ first \in Nat
            BY DEF TypeOK, Entries
        <3>2. CASE e < first
            BY <1>0, <3>2 DEF SafetyInv
        <3>3. CASE first <= e
            BY <2>3, <3>1, <3>3
        <3> QED
            BY <3>1, <3>2, <3>3
    <2>5. \A e \in Entries : e <= added' => e \in Undelivered' \cup pel' \cup Safe'
        <3> SUFFICES ASSUME NEW e \in Entries, e <= added + 1, ~(f <= e /\ cursor < e), e \notin pel
                     PROVE  e \in Safe'
            BY <2>1, <2>2 DEF Undelivered
        <3>1. e \in Nat /\ first \in Nat /\ f \in Nat /\ cursor \in Nat /\ added \in Nat
            BY DEF TypeOK, Entries
        <3>2. CASE e <= added /\ e \notin Undelivered
            BY <1>0, <3>2 DEF SafetyInv
        <3>3. CASE e = added + 1 \/ e \in Undelivered
            <4>1. cursor < e /\ first <= e
                BY <3>1, <3>3 DEF RangeInv, Undelivered
            <4> QED
                BY <2>3, <3>1, <4>1
        <3> QED
            BY <3>1, <3>2, <3>3
    <2> QED
        BY <1>0, <2>1, <2>4, <2>5 DEF SafetyInv
<1>2. ASSUME NEW w \in Workers, WorkerStep(w) PROVE SafetyInv'
    <2>1. pel \subseteq pel' \cup Safe' /\ tracked \subseteq tracked' /\ tracked' \subseteq Safe'
        BY <1>0, <1>2, AcksAreSafe
    <2>2. /\ \A v \in Workers : worker'[v].seen \subseteq tracked'
          /\ \A v \in Workers : worker'[v].pc = "ack" => worker'[v].todo \subseteq Safe'
        BY <1>0, <1>2, <2>1, WorkersAreSafe
    <2>3. CASE Read(w) \/ ReadThenRetire(w)
        <3>1. /\ NextEntry <= added /\ cursor' = LastRead
              /\ pel' = pel \cup NextEntry .. LastRead /\ UNCHANGED <<added, first>>
            BY <2>3 DEF Read, ReadThenRetire, ReadGroup
        <3>2. /\ LastRead \in NextEntry .. added /\ cursor < NextEntry /\ first <= NextEntry
              /\ NextEntry \in Nat
            BY <3>1, NextBatch, TypeParts
        <3>3. \A e \in pel' : e < first' => e \in Safe'
            BY <1>0, <3>1, <3>2 DEF SafetyInv, TypeOK
        <3>4. \A e \in Entries : e <= added' => e \in Undelivered' \cup pel' \cup Safe'
            <4> SUFFICES ASSUME NEW e \in Entries, e <= added, e \notin pel', e \notin Undelivered'
                         PROVE  e \in Safe'
                BY <3>1
            <4>1. e \in Nat /\ first \in Nat /\ cursor \in Nat /\ added \in Nat
                BY DEF TypeOK, Entries
            <4>2. e < NextEntry \/ LastRead < e
                BY <3>1, <3>2, <4>1
            <4>3. e \notin Undelivered
                <5>1. CASE LastRead < e
                    BY <3>1, <3>2, <4>1, <5>1 DEF Undelivered
                <5>2. CASE e < NextEntry
                    BY <4>1, <5>2 DEF Undelivered, NextEntry
                <5> QED
                    BY <4>2, <5>1, <5>2
            <4> QED
                BY <1>0, <3>1, <4>3 DEF SafetyInv
        <3> QED
            BY <2>1, <2>2, <3>3, <3>4 DEF SafetyInv
    <2>4. CASE ~(Read(w) \/ ReadThenRetire(w))
        <3>1. UNCHANGED <<added, first, cursor>> /\ pel' \subseteq pel
            BY <1>2, <2>4, WorkerMoves
        <3>2. Undelivered' = Undelivered
            BY <3>1 DEF Undelivered
        <3> QED
            BY <1>0, <2>1, <2>2, <3>1, <3>2 DEF SafetyInv
    <2> QED
        BY <2>3, <2>4
<1>3. CASE Crash
    <2>1. /\ UNCHANGED <<added, first, cursor, pel>> /\ tracked' = {}
          /\ \A w \in Workers : worker'[w] = Resting
        BY <1>3 DEF Crash, redisVars
    <2>2. Undelivered' = Undelivered
        BY <2>1 DEF Undelivered
    <2> QED
        BY <1>0, <2>1, <2>2 DEF SafetyInv, Resting
<1>4. CASE \/ \E e \in Entries : ReplayInsert(e) \/ Age(e)
           \/ ReplayRead \/ ReplayUnlink \/ ReplayMissing
           \/ Cool \/ DbFails \/ DbReturns \/ UNCHANGED vars
    <2>1. UNCHANGED <<added, first, cursor, pel, worker, tracked>>
        BY <1>4 DEF ReplayInsert, Age, ReplayRead, ReplayUnlink, ReplayMissing, Cool, DbFails,
           DbReturns, vars, redisVars
    <2>2. Undelivered' = Undelivered
        BY <2>1 DEF Undelivered
    <2> QED
        BY <1>0, <2>1, <2>2 DEF SafetyInv
<1> QED
    BY <1>1, <1>2, <1>3, <1>4 DEF Next, ReplayStep

LEMMA Invariant == Spec => [](TypeOK /\ ReplayOK /\ RangeInv /\ SafetyInv)
<1> DEFINE Inv == TypeOK /\ ReplayOK /\ RangeInv /\ SafetyInv
<1>1. Init => Inv
    BY InitTypes, InitSafety DEF Init, NoReplay, ReplayOK
<1>2. Inv /\ [Next]_vars => Inv'
    BY NextTypes, NextReplay, NextRange, NextSafety
<1> QED
    BY <1>1, <1>2, PTL DEF Spec

(* An entry that is acknowledged is stored, given to the dead-letter queue, passed *)
(* over, spooled, or went in a recorded window: no interleaving of workers, claims *)
(* and retries acknowledges one that is none of these.                             *)
THEOREM AcknowledgedKept == Spec => []AcknowledgedIsKept
<1>1. TypeOK /\ RangeInv /\ SafetyInv => AcknowledgedIsKept
    <2> SUFFICES ASSUME TypeOK, RangeInv, SafetyInv, NEW e \in Acknowledged PROVE e \in Safe
        BY DEF AcknowledgedIsKept
    <2>1. e \in Entries /\ e <= cursor /\ e \notin pel /\ e \in Nat
        BY DEF Acknowledged, Entries
    <2>2. e <= added /\ e \notin Undelivered
        BY <2>1 DEF RangeInv, Undelivered, TypeOK
    <2> QED
        BY <2>1, <2>2 DEF SafetyInv
<1> QED
    BY <1>1, Invariant, PTL

(* The tracker of recent ids never suppresses an entry that still needs work. *)
THEOREM TrackedProcessed == Spec => []TrackedIsProcessed
<1>1. SafetyInv => TrackedIsProcessed
    BY DEF SafetyInv, TrackedIsProcessed
<1> QED
    BY <1>1, Invariant, PTL
-----------------------------------------------------------------------------
(* The refinement of StoreAndForward *)

GivenUp == dlq \cup skipped \cup lost
New == {e \in Entries : added < e /\ e <= added'}

(* Only entries of which there is a copy are stored or given up, *)
LEMMA SettledWasHeld ==
    ASSUME TypeOK, ReplayOK, [Next]_vars
    PROVE  /\ db \subseteq db' /\ db' \subseteq db \cup Backlog
           /\ GivenUp \subseteq GivenUp' /\ GivenUp' \subseteq GivenUp \cup Backlog \cup New
<1>1. ASSUME NEW w \in Workers, WorkerStep(w)
      PROVE  /\ db \subseteq db' /\ db' \subseteq db \cup Working
             /\ GivenUp \subseteq GivenUp' /\ GivenUp' \subseteq GivenUp \cup Working \cup Spooled
    <2>1. worker[w].todo \subseteq Working
        BY DEF Working
    <2>2. files # <<>> => files[1] \subseteq Spooled
        BY DEF TypeOK, Spooled
    <2>3. db \subseteq db' /\ db' \subseteq db \cup worker[w].todo
        BY <1>1 DEF WorkerStep, Read, ReadThenRetire, ReadGroup, ClaimStale, Resolve, InsertOk,
           InsertFails, Spool, SpoolFails, Ack, AckThrows, HandleFailure
    <2>4. skipped \subseteq skipped' /\ skipped' \subseteq skipped \cup worker[w].todo
        BY <1>1 DEF WorkerStep, Read, ReadThenRetire, ReadGroup, ClaimStale, Resolve, InsertOk,
           InsertFails, Spool, SpoolFails, Ack, AckThrows, HandleFailure
    <2>5. dlq \subseteq dlq' /\ dlq' \subseteq dlq \cup worker[w].todo
        BY <1>1 DEF WorkerStep, Read, ReadThenRetire, ReadGroup, ClaimStale, Resolve, InsertOk,
           InsertFails, Spool, SpoolFails, Ack, AckThrows, HandleFailure, redisVars
    <2>6. lost \subseteq lost' /\ lost' \subseteq lost \cup Spooled
        BY <1>1, <2>2 DEF WorkerStep, Read, ReadThenRetire, ReadGroup, ClaimStale, Resolve,
           InsertOk, InsertFails, Spool, Evicts, Lose, SpoolFails, Ack, AckThrows, HandleFailure
    <2> QED
        BY <2>1, <2>3, <2>4, <2>5, <2>6 DEF GivenUp
<1>2. CASE Add
    <2>1. UNCHANGED <<db, dlq, skipped>> /\ lost \subseteq lost' /\ added' = added + 1
        BY <1>2 DEF Add, Lose
    <2>2. ASSUME NEW e \in lost' \ lost PROVE e \in Backlog \cup New
        <3>1. PICK f \in 1 .. added + 2 :
                  Lose({d \in Entries : first <= d /\ d < f /\ (cursor < d \/ d \in pel)})
            BY <1>2 DEF Add
        <3>2. e \in Entries /\ first <= e /\ e < f /\ (cursor < e \/ e \in pel)
            BY <2>2, <3>1 DEF Lose
        <3>3. e \in Nat /\ e <= added + 1 /\ added \in Nat
            BY <3>2 DEF Entries, TypeOK
        <3> QED
            BY <2>1, <3>2, <3>3 DEF Backlog, Undelivered, New
    <2> QED
        BY <2>1, <2>2 DEF GivenUp
<1>3. CASE ReplayUnlink
    <2>1. UNCHANGED <<db, dlq, skipped>> /\ lost \subseteq lost' /\ lost' \subseteq lost \cup files[1]
        BY <1>3 DEF ReplayUnlink, Lose, redisVars
    <2> QED
        BY <1>3, <2>1, UnlinkFiles DEF GivenUp, Backlog
<1>4. ASSUME NEW e \in Entries, ReplayInsert(e)
      PROVE  /\ db \subseteq db' /\ db' \subseteq db \cup inflight
             /\ GivenUp \subseteq GivenUp' /\ GivenUp' \subseteq GivenUp \cup inflight
    BY <1>4 DEF ReplayInsert, Lose, GivenUp, redisVars
<1>5. CASE Crash
    BY <1>5 DEF Crash, Lose, GivenUp, Backlog, redisVars
<1>6. CASE \/ \E e \in Entries : Age(e)
           \/ ReplayRead \/ ReplayMissing \/ Cool \/ DbFails \/ DbReturns \/ UNCHANGED vars
    <2>1. UNCHANGED <<db, dlq, skipped, lost>>
        BY <1>6 DEF Age, ReplayRead, ReplayMissing, Cool, DbFails, DbReturns, vars, redisVars
    <2> QED
        BY <2>1 DEF GivenUp
<1> QED
    BY <1>1, <1>2, <1>3, <1>4, <1>5, <1>6 DEF Next, ReplayStep, Backlog

(* copies are made only of entries of which there is one, *)
LEMMA HeldWasHeld ==
    ASSUME TypeOK, ReplayOK, [Next]_vars
    PROVE  Backlog' \subseteq Backlog \cup New
<1>1. CASE Add
    <2>1. UNCHANGED <<cursor, pel, worker, files, replay, inflight>> /\ added' = added + 1
        BY <1>1 DEF Add, spoolVars
    <2>2. first <= first'
        BY <1>1 DEF Add, TypeOK
    <2>3. Undelivered' \subseteq Undelivered \cup New
        <3> SUFFICES ASSUME NEW e \in Entries, cursor < e, first' <= e, e <= added + 1,
                            ~(added < e)
                     PROVE  first <= e /\ e <= added
            BY <2>1 DEF Undelivered, New
        <3>1. e \in Nat /\ added \in Nat /\ first \in Nat /\ first' \in Nat
            BY <1>1 DEF TypeOK, Entries, Add
        <3> QED
            BY <2>2, <3>1
    <2>4. Working' = Working /\ Spooled' = Spooled /\ Reading' = Reading
        BY <2>1 DEF Working, Spooled, Reading
    <2> QED
        BY <2>1, <2>3, <2>4 DEF Backlog
<1>2. ASSUME NEW w \in Workers, Read(w) \/ ReadThenRetire(w) PROVE Backlog' \subseteq Backlog
    <2>1. /\ NextEntry <= added /\ cursor' = LastRead
          /\ pel' = pel \cup NextEntry .. LastRead
          /\ UNCHANGED <<added, first, files, replay, inflight>>
        BY <1>2 DEF Read, ReadThenRetire, ReadGroup, spoolVars
    <2>2. /\ LastRead \in NextEntry .. added /\ cursor < NextEntry /\ first <= NextEntry
          /\ NextEntry \in Nat /\ NextEntry .. LastRead \subseteq Entries
        BY <2>1, NextBatch, TypeParts
    <2>3. NextEntry .. LastRead \subseteq Undelivered /\ Undelivered' \subseteq Undelivered
        BY <2>1, <2>2 DEF Undelivered, TypeOK, Entries
    <2>4. Working' \subseteq Working \cup NextEntry .. LastRead
        <3>1. \A v \in Workers : worker'[v].todo \subseteq worker[v].todo \cup NextEntry .. LastRead
            <4>1. UNCHANGED worker \/ Start(w, NextEntry .. LastRead)
                BY <1>2 DEF Read, ReadThenRetire
            <4>2. CASE Start(w, NextEntry .. LastRead)
                BY <4>2, WorkerAt, TypeParts DEF Start, Resting
            <4> QED
                BY <4>1, <4>2
        <3> QED
            BY <3>1 DEF Working
    <2>5. Spooled' = Spooled /\ Reading' = Reading
        BY <2>1 DEF Spooled, Reading
    <2> QED
        BY <2>1, <2>3, <2>4, <2>5 DEF Backlog
<1>3. ASSUME NEW w \in Workers, WorkerStep(w), ~Read(w), ~ReadThenRetire(w)
      PROVE  Backlog' \subseteq Backlog
    <2>1. /\ UNCHANGED <<added, first, cursor, inflight>>
          /\ replay'.snap = replay.snap /\ replay'.pc = replay.pc
          /\ pel' \subseteq pel /\ Spooled' \subseteq Spooled \cup worker[w].todo
          /\ \A v \in Workers : worker'[v].todo \subseteq worker[v].todo \cup pel
        BY <1>3, WorkerMoves
    <2>2. Undelivered' = Undelivered /\ Reading' = Reading
        BY <2>1 DEF Undelivered, Reading
    <2>3. Working' \subseteq Working \cup pel /\ worker[w].todo \subseteq Working
        BY <2>1 DEF Working
    <2> QED
        BY <2>1, <2>2, <2>3 DEF Backlog
<1>4. CASE ReplayRead
    <2>1. Reading' \subseteq Spooled /\ UNCHANGED <<Undelivered, pel, Working, Spooled, inflight>>
        BY <1>4 DEF ReplayRead, Reading, Spooled, Undelivered, Working, TypeOK, redisVars
    <2> QED
        BY <2>1 DEF Backlog
<1>5. CASE ReplayUnlink
    <2>1. /\ UNCHANGED <<Undelivered, pel, Working>> /\ Reading' = {}
          /\ inflight' = inflight \cup Reading
        BY <1>5 DEF ReplayUnlink, NoReplay, Reading, Undelivered, Working, redisVars
    <2> QED
        BY <1>5, <2>1, UnlinkFiles DEF Backlog
<1>6. CASE ReplayMissing \/ Crash
    <2>1. /\ UNCHANGED <<Undelivered, pel, Spooled>> /\ Reading' = {}
          /\ inflight' \subseteq inflight
        BY <1>6 DEF ReplayMissing, Crash, NoReplay, Reading, Undelivered, Spooled, redisVars
    <2>2. Working' \subseteq Working
        BY <1>6 DEF ReplayMissing, Crash, Working, Resting
    <2> QED
        BY <2>1, <2>2 DEF Backlog
<1>7. CASE \/ \E e \in Entries : ReplayInsert(e) \/ Age(e)
           \/ Cool \/ DbFails \/ DbReturns \/ UNCHANGED vars
    <2>1. /\ UNCHANGED <<added, first, cursor, pel, worker, files, replay>>
          /\ inflight' \subseteq inflight
        BY <1>7 DEF ReplayInsert, Age, Cool, DbFails, DbReturns, vars, redisVars, spoolVars
    <2> QED
        BY <2>1 DEF Backlog, Undelivered, Working, Spooled, Reading
<1> QED
    BY <1>1, <1>2, <1>3, <1>4, <1>5, <1>6, <1>7 DEF Next, ReplayStep

(* and nothing that came in is in none of the places. *)
Accounted ==
    /\ Backlog \subseteq 1 .. added
    /\ 1 .. added \subseteq Backlog \cup db \cup GivenUp

LEMMA AllAccounted == TypeOK /\ RangeInv /\ SafetyInv => Accounted
<1> SUFFICES ASSUME TypeOK, RangeInv, SafetyInv PROVE Accounted
    OBVIOUS
<1>1. Backlog \subseteq 1 .. added
    <2> SUFFICES ASSUME NEW e \in Backlog PROVE e \in 1 .. added
        OBVIOUS
    <2>1. e \in Entries
        BY SpooledEntries DEF Backlog, Undelivered, Working, Reading, TypeOK
    <2>2. e <= cursor \/ e <= added
        BY DEF Backlog, Undelivered, Working, Reading, RangeInv
    <2> QED
        BY <2>1, <2>2 DEF Entries, TypeOK, RangeInv
<1>2. 1 .. added \subseteq Backlog \cup db \cup GivenUp
    <2>1. \A e \in 1 .. added : e \in Entries
        BY ConfigAssumption DEF TypeOK, Entries
    <2> QED
        BY <2>1 DEF SafetyInv, Safe, Done, GivenUp, Backlog
<1> QED
    BY <1>1, <1>2 DEF Accounted

(* Every step of the service is a step of the abstract stage, or leaves it alone. *)
LEMMA NextRefines ==
    ASSUME TypeOK, ReplayOK, RangeInv, SafetyInv, [Next]_vars
    PROVE  SF!Next
<1>1. TypeOK' /\ RangeInv' /\ SafetyInv'
    BY NextTypes, NextRange, NextSafety
<1>2. Accounted /\ Accounted'
    BY <1>1, AllAccounted, PTL
<1>3. added <= added' /\ added \in Nat /\ added' \in Nat /\ added' <= MaxEntries
    <2>1. added' = added \/ added' = added + 1
        BY DEF Next, WorkerStep, ReplayStep, Add, Read, ReadThenRetire, ReadGroup, ClaimStale,
           Resolve, InsertOk, InsertFails, Spool, SpoolFails, Ack, AckThrows, HandleFailure,
           ReplayRead, ReplayUnlink, ReplayMissing, ReplayInsert, Age, Cool, DbFails, DbReturns,
           Crash, vars, redisVars
    <2> QED
        BY <1>1, <2>1 DEF TypeOK
<1>4. New = (1 .. added') \ (1 .. added) /\ 1 .. added \subseteq 1 .. added'
    BY <1>3, ConfigAssumption DEF New, Entries
<1>5. \E S \in SUBSET Entries : S \subseteq Entries \ (1 .. added) /\ 1 .. added' = (1 .. added) \cup S
    <2> WITNESS New \in SUBSET Entries
    <2> QED
        BY <1>4 DEF New
<1>6. \E S \in SUBSET Entries : S \subseteq Backlog /\ db' = db \cup S
    <2>1. db' \ db \in SUBSET Entries
        BY <1>1 DEF TypeOK
    <2> WITNESS db' \ db \in SUBSET Entries
    <2> QED
        BY SettledWasHeld
<1>7. \E S \in SUBSET Entries : S \subseteq Backlog \cup New /\ GivenUp' = GivenUp \cup S
    <2>1. GivenUp' \ GivenUp \in SUBSET Entries
        BY <1>1 DEF TypeOK, GivenUp
    <2> WITNESS GivenUp' \ GivenUp \in SUBSET Entries
    <2> QED
        BY SettledWasHeld
<1>8. Backlog' \subseteq Backlog \cup New
    BY HeldWasHeld
<1>9. Backlog \cup New \subseteq Backlog' \cup db' \cup GivenUp'
    BY <1>2, <1>4 DEF Accounted
<1>10. \E S \in SUBSET Entries : SF!Take(S)
    BY <1>5 DEF SF!Take
<1>11. \E S \in SUBSET Entries : SF!Deliver(S)
    BY <1>6 DEF SF!Deliver
<1>12. \E S \in SUBSET Entries : SF!GiveUp(S)
    BY <1>4, <1>7 DEF SF!GiveUp, GivenUp
<1>13. /\ Backlog' \subseteq Backlog \cup ((1 .. added') \ (1 .. added))
       /\ Backlog \cup ((1 .. added') \ (1 .. added))
            \subseteq Backlog' \cup db' \cup (dlq \cup skipped \cup lost)'
    BY <1>4, <1>8, <1>9 DEF GivenUp
<1> QED
    BY <1>10, <1>11, <1>12, <1>13 DEF SF!Next

(* The ingestion service implements the store-and-forward stage: every entry added *)
(* to the stream is held, stored or given up, and nothing given up is forgotten.   *)
THEOREM Refinement == Spec => ImplementsStoreAndForward
<1>1. Init => SF!Init
    <2> SUFFICES ASSUME Init PROVE SF!Init
        OBVIOUS
    <2>1. 1 .. added = {} /\ Undelivered = {}
        BY DEF Init, Undelivered, Entries
    <2>2. Working = {} /\ Spooled = {} /\ Reading = {}
        BY DEF Init, Working, Spooled, Reading, Resting, NoReplay
    <2> QED
        BY <2>1, <2>2 DEF Init, SF!Init, Backlog
<1>2. TypeOK /\ ReplayOK /\ RangeInv /\ SafetyInv /\ [Next]_vars => [SF!Next]_(SF!sfVars)
    BY NextRefines
<1> QED
    BY <1>1, <1>2, Invariant, PTL DEF Spec, ImplementsStoreAndForward, SF!Spec
-----------------------------------------------------------------------------
(* At least once *)

Calm == ~config.spool \/ outages + faults = 0

(* While nothing has failed, and always without the spool, nothing is spooled and *)
(* only trimmed entries are lost.                                                  *)
CalmInv ==
    Calm => /\ files = <<>> /\ inflight = {}
            /\ \A w \in Workers : worker[w].pc # "spool"
            /\ \A e \in lost : e < first
            /\ config.spool => dbUp = TRUE /\ breaker.state = "CLOSED"

(* Failures are counted; the configuration stays. *)
LEMMA FailuresCount ==
    ASSUME TypeOK, [Next]_vars
    PROVE  /\ config' = config
           /\ outages' = outages \/ outages' = outages + 1
           /\ faults' = faults \/ faults' = faults + 1
BY DEF Next, WorkerStep, ReplayStep, Add, Read, ReadThenRetire, ReadGroup, ClaimStale,
       Resolve, InsertOk, InsertFails, Spool, SpoolFails, Ack, AckThrows, HandleFailure,
       ReplayRead, ReplayUnlink, ReplayMissing, ReplayInsert, Age, Cool, DbFails, DbReturns,
       Crash, vars, envVars

LEMMA NextCalm == TypeOK /\ ReplayOK /\ CalmInv /\ [Next]_vars => CalmInv'
<1> SUFFICES ASSUME TypeOK, ReplayOK, CalmInv, [Next]_vars, Calm' PROVE CalmInv'
    BY DEF CalmInv
<1>1. Calm /\ (config.spool => outages' = outages /\ faults' = faults)
    <2>1. outages \in Nat /\ faults \in Nat
        BY DEF TypeOK
    <2>2. CASE ~config.spool
        BY <2>2 DEF Calm
    <2>3. CASE config.spool
        <3>1. outages' + faults' = 0
            BY <2>3, FailuresCount DEF Calm
        <3> QED
            BY <2>1, <3>1, FailuresCount DEF Calm
    <2> QED
        BY <2>2, <2>3
<1>2. /\ files = <<>> /\ inflight = {} /\ \A w \in Workers : worker[w].pc # "spool"
      /\ \A e \in lost : e < first
      /\ config.spool => dbUp = TRUE /\ breaker.state = "CLOSED"
    BY <1>1 DEF CalmInv
<1>3. config' = config
    BY FailuresCount
<1>4. \A e \in Nat : config.spool => faults' # faults + 1 /\ outages' # outages + 1
    BY <1>1 DEF TypeOK
<1>5. CASE Add
    <2>1. PICK f \in 1 .. added + 2 :
              /\ f = first \/ first < f
              /\ first' = f
              /\ Lose({e \in Entries : first <= e /\ e < f /\ (cursor < e \/ e \in pel)})
        BY <1>5 DEF Add
    <2>2. \A e \in lost' : e < first'
        <3> SUFFICES ASSUME NEW e \in lost' PROVE e < f
            BY <2>1
        <3>1. CASE e \in lost
            BY <1>2, <2>1, <3>1 DEF TypeOK, Entries
        <3>2. CASE e \notin lost
            BY <2>1, <3>2 DEF Lose
        <3> QED
            BY <3>1, <3>2
    <2>3. UNCHANGED <<files, inflight, worker, dbUp, breaker>>
        BY <1>5 DEF Add, spoolVars
    <2> QED
        BY <1>2, <1>3, <2>2, <2>3 DEF CalmInv
<1>6. ASSUME NEW w \in Workers, WorkerStep(w) PROVE CalmInv'
    <2>1. ~Spool(w) /\ ~SpoolFails(w)
        BY <1>2 DEF Spool, SpoolFails
    <2>2. UNCHANGED <<files, inflight, lost, first, dbUp>>
        BY <1>6, <2>1 DEF WorkerStep, Read, ReadThenRetire, ReadGroup, ClaimStale, Resolve,
           InsertOk, InsertFails, Ack, AckThrows, HandleFailure, redisVars, spoolVars
    <2>3. ASSUME config.spool PROVE ~InsertFails(w) /\ ~AckThrows(w)
        BY <1>2, <1>4, <2>3 DEF InsertFails, AckThrows
    <2>4. config.spool => breaker'.state = "CLOSED"
        <3> SUFFICES ASSUME config.spool PROVE breaker'.state = "CLOSED"
            OBVIOUS
        <3>1. UNCHANGED breaker \/ Probe \/ RecordSuccess
            BY <1>6, <2>1, <2>3 DEF WorkerStep, Read, ReadThenRetire, ReadGroup, ClaimStale,
               Resolve, InsertOk, Ack, HandleFailure
        <3>2. breaker.state = "CLOSED"
            BY <1>2
        <3>3. CASE Probe
            BY <3>2, <3>3 DEF Probe
        <3>4. CASE RecordSuccess
            BY <3>2, <3>4 DEF RecordSuccess, TypeOK
        <3> QED
            BY <3>1, <3>2, <3>3, <3>4
    <2>5. \A v \in Workers : worker'[v].pc # "spool"
        <3>0. WorkerOK /\ ~Refuses
            BY <1>2, TypeParts DEF Refuses
        <3>1. CASE UNCHANGED worker
            BY <1>2, <3>1
        <3>2. ASSUME NEW r, worker' = [worker EXCEPT ![w] = r], r.pc # "spool"
              PROVE  \A v \in Workers : worker'[v].pc # "spool"
            BY <1>2, <3>0, <3>2, WorkerAt
        <3>3. CASE Read(w) \/ ClaimStale(w)
            <4>1. ASSUME NEW S, Start(w, S)
                  PROVE  \A v \in Workers : worker'[v].pc # "spool"
                <5> DEFINE r == [Resting EXCEPT !.pc = "resolve", !.todo = S]
                <5>1. worker' = [worker EXCEPT ![w] = r]
                    BY <4>1 DEF Start
                <5>2. r.pc # "spool"
                    BY DEF Resting
                <5> HIDE DEF r
                <5> QED
                    BY <3>2, <5>1, <5>2
            <4>2. CASE Read(w)
                BY <4>1, <4>2 DEF Read
            <4>3. CASE ClaimStale(w)
                BY <3>1, <4>1, <4>3 DEF ClaimStale
            <4> QED
                BY <3>3, <4>2, <4>3
        <3>4. CASE Resolve(w)
            <4>1. \E r : worker' = [worker EXCEPT ![w] = r] /\ r.pc # "spool"
                BY <3>0, <3>4 DEF Resolve, Resting
            <4> QED
                BY <3>2, <4>1
        <3>5. CASE InsertOk(w)
            BY <1>2, <3>0, <3>5 DEF InsertOk, WorkerOK, WorkerRecord
        <3>6. CASE InsertFails(w) \/ AckThrows(w)
            <4>1. ~config.spool
                BY <2>3, <3>6
            <4>2. \/ AfterFailure(w)
                  \/ worker' = [worker EXCEPT ![w].pc = "fail"]
                  \/ worker' = [worker EXCEPT ![w] = Resting]
                BY <3>6 DEF InsertFails, AckThrows
            <4>3. CASE AfterFailure(w)
                <5>1. worker' = [worker EXCEPT ![w].pc = "fail", ![w].after = "failure"]
                    BY <4>1, <4>3 DEF AfterFailure
                <5> QED
                    BY <1>2, <3>0, <5>1 DEF WorkerOK, WorkerRecord
            <4>4. CASE worker' = [worker EXCEPT ![w].pc = "fail"]
                BY <1>2, <3>0, <4>4 DEF WorkerOK, WorkerRecord
            <4>5. CASE worker' = [worker EXCEPT ![w] = Resting]
                <5>1. Resting.pc # "spool"
                    BY DEF Resting
                <5> QED
                    BY <3>2, <4>5, <5>1
            <4> QED
                BY <4>2, <4>3, <4>4, <4>5
        <3>7. CASE Ack(w)
            <4>1. worker' = [worker EXCEPT ![w] = Resting]
                BY <3>7 DEF Ack
            <4>2. Resting.pc # "spool"
                BY DEF Resting
            <4> QED
                BY <3>2, <4>1, <4>2
        <3>8. CASE HandleFailure(w)
            BY <1>2, <3>0, <3>8 DEF HandleFailure, Resting, WorkerOK, WorkerRecord
        <3> QED
            BY <1>6, <2>1, <3>1, <3>3, <3>4, <3>5, <3>6, <3>7, <3>8
               DEF WorkerStep, ReadThenRetire
    <2> QED
        BY <1>2, <1>3, <2>2, <2>4, <2>5 DEF CalmInv
<1>7. CASE ReplayUnlink
    BY <1>2, <1>7 DEF ReplayUnlink, ReplayOK
<1>8. ASSUME NEW e \in Entries, ReplayInsert(e) PROVE CalmInv'
    BY <1>2, <1>8 DEF ReplayInsert
<1>9. CASE Crash
    <2>1. UNCHANGED <<files, first, dbUp>> /\ inflight' = {} /\ lost' = lost
        BY <1>2, <1>9 DEF Crash, Lose, redisVars
    <2>2. ~config.spool
        BY <1>4, <1>9 DEF Crash
    <2>3. \A w \in Workers : worker'[w].pc # "spool"
        BY <1>9 DEF Crash, Resting
    <2> QED
        BY <1>2, <1>3, <2>1, <2>2, <2>3 DEF CalmInv
<1>10. CASE DbFails \/ DbReturns \/ Cool
    <2>1. UNCHANGED <<files, inflight, worker, lost, first>>
        BY <1>10 DEF DbFails, DbReturns, Cool, redisVars, spoolVars
    <2>2. ~config.spool
        BY <1>2, <1>4, <1>10 DEF DbFails, DbReturns, Cool
    <2> QED
        BY <1>2, <1>3, <2>1, <2>2 DEF CalmInv
<1>11. CASE ReplayRead \/ ReplayMissing \/ (\E e \in Entries : Age(e)) \/ UNCHANGED vars
    <2>1. UNCHANGED <<files, inflight, worker, lost, first, dbUp, breaker>>
        BY <1>11 DEF ReplayRead, ReplayMissing, Age, vars, redisVars, spoolVars
    <2> QED
        BY <1>2, <1>3, <2>1 DEF CalmInv
<1> QED
    BY <1>5, <1>6, <1>7, <1>8, <1>9, <1>10, <1>11 DEF Next, ReplayStep

(* Without the spool, and with it as long as nothing has failed, an acknowledged *)
(* entry is in the database or the dead-letter queue or passed over, or Redis    *)
(* trimmed it from the stream before it was read.                                *)
THEOREM DeliveredAtLeastOnce == Spec => []AtLeastOnce
<1>1. Init => CalmInv
    BY DEF Init, CalmInv, Resting, Closed
<1>2. Spec => []CalmInv
    BY <1>1, NextCalm, TypeInvariant, PTL DEF Spec
<1>3. CalmInv /\ AcknowledgedIsKept => AtLeastOnce
    <2> SUFFICES ASSUME CalmInv, AcknowledgedIsKept, Calm, NEW e \in Acknowledged
                 PROVE  e \in Done \/ (e < first /\ e \in lost)
        BY DEF AtLeastOnce, Calm
    <2>1. Spooled = {} /\ inflight = {}
        BY DEF CalmInv, Spooled
    <2> QED
        BY <2>1 DEF CalmInv, AcknowledgedIsKept, Safe
<1> QED
    BY <1>2, <1>3, AcknowledgedKept, PTL
=============================================================================
