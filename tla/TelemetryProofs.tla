-------------------------- MODULE TelemetryProofs --------------------------
(***************************************************************************)
(* What Telemetry guarantees for any number of readings, events and faults *)
(* and every quota.  The argument: who works on a row holds its lock, so a *)
(* row keeps its readings until its worker settles it; and every place     *)
(* that drops a copy of a reading drops one of a reading that is kept      *)
(* elsewhere, delivered or counted.                                        *)
(***************************************************************************)
EXTENDS Telemetry, TLAPS, FiniteSetTheorems, SequenceTheorems

PubRecord == [pc : {"idle", "building", "claimed", "sending"}, data : SUBSET Readings,
              row : Nat, arrived : BOOLEAN]
FlushRecord == [pc : {"idle", "sending", "more"}, todo : SUBSET Nat, ok : SUBSET Nat,
                failed : SUBSET Nat, handled : Nat]

(* TypeOK in groups of variables that the same actions change. *)
BatchOK == batch \subseteq Readings /\ pub \in PubRecord
PluginOK ==
    /\ needStop \in BOOLEAN /\ plugin \in {"none", "idle", "running"}
    /\ orphans \in [DOMAIN orphans -> BOOLEAN] /\ DOMAIN orphans \subseteq Nat
LinkOK ==
    /\ connected \in BOOLEAN /\ mode \in {"direct", "buffer"}
    /\ bufferSync \in {"off", "waiting", "started"}
QueueOK == pending \in Seq(Payloads) /\ draining \in BOOLEAN
Table(t) == t \in [DOMAIN t -> Rows]
TableOK == nextId \in Nat \ {0} /\ Table(table) /\ Ids \subseteq 1 .. nextId - 1
FlushOK == flush \in FlushRecord
CountsOK == events \in Nat /\ faults \in Nat
HistoryOK ==
    /\ taken \subseteq Readings /\ delivered \subseteq Readings /\ garbled \subseteq Readings
    /\ dropped \subseteq Readings /\ lost \subseteq Readings

LEMMA TypeParts ==
    TypeOK <=> /\ BatchOK /\ PluginOK /\ LinkOK /\ QueueOK
               /\ TableOK /\ FlushOK /\ CountsOK /\ HistoryOK
BY DEF TypeOK, BatchOK, PubRecord, PluginOK, LinkOK, QueueOK, TableOK, Table, Ids, FlushOK,
       FlushRecord, CountsOK, HistoryOK
-----------------------------------------------------------------------------
(* The operators on the table *)

LEMMA InDataOf ==
    ASSUME NEW t, NEW S, NEW r
    PROVE  r \in DataOf(t, S) <=> \E i \in S : r \in t[i].data
BY DEF DataOf

LEMMA WithoutRows ==
    ASSUME NEW t, NEW S
    PROVE  /\ DOMAIN Without(t, S) = DOMAIN t \ S
           /\ \A i \in DOMAIN t \ S : Without(t, S)[i] = t[i]
           /\ Table(t) => Table(Without(t, S))
BY DEF Without, Table

LEMMA RowType ==
    ASSUME NEW data \in SUBSET Readings, NEW enc \in {"json", "garbled"},
           NEW status \in {"queued", "sending"}
    PROVE  /\ Row(data, enc, status) \in Rows
           /\ Row(data, enc, status).data = data
           /\ Row(data, enc, status).status = status
           /\ status = "sending" => Row(data, enc, status).locked = "fresh"
<1>1. CASE status = "queued"
    BY <1>1 DEF Row, Rows
<1>2. CASE status = "sending"
    BY <1>2 DEF Row, Rows
<1> QED
    BY <1>1, <1>2

LEMMA InsertedRows ==
    ASSUME TableOK, NEW r \in Rows
    PROVE  /\ DOMAIN Inserted(r) = Ids \cup {nextId}
           /\ nextId \notin Ids
           /\ Inserted(r)[nextId] = r
           /\ \A i \in Ids : Inserted(r)[i] = table[i]
           /\ Table(Inserted(r))
BY DEF TableOK, Table, Inserted, Ids

LEMMA MarkedRows ==
    ASSUME NEW t, Table(t), NEW S, NEW later \in BOOLEAN
    PROVE  LET m == MarkRetryFailed(t, S, later)
           IN  /\ DOMAIN m = DOMAIN t
               /\ \A i \in DOMAIN t : m[i].data = t[i].data
               /\ \A i \in DOMAIN t \ S : m[i] = t[i]
               /\ \A i \in DOMAIN t \cap S : m[i].status = "queued"
               /\ Table(m)
<1> DEFINE m == MarkRetryFailed(t, S, later)
           Failed(i) == [t[i] EXCEPT !.retries = @ + 1, !.due = ~later,
                                     !.status = "queued", !.locked = "none"]
<1>1. DOMAIN m = DOMAIN t /\ \A i \in DOMAIN t : m[i] = IF i \in S THEN Failed(i) ELSE t[i]
    BY DEF MarkRetryFailed
<1>2. ASSUME NEW i \in DOMAIN t
      PROVE  Failed(i) \in Rows /\ Failed(i).data = t[i].data /\ Failed(i).status = "queued"
    <2>1. t[i] \in Rows /\ t[i].retries + 1 \in Nat
        BY DEF Table, Rows
    <2>2. CASE later
        BY <2>1, <2>2 DEF Rows
    <2>3. CASE ~later
        BY <2>1, <2>3 DEF Rows
    <2> QED
        BY <2>2, <2>3
<1> QED
    BY <1>1, <1>2 DEF Table, MarkRetryFailed

LEMMA ClaimedRows ==
    ASSUME NEW t, Table(t), NEW S
    PROVE  LET c == Claimed(t, S)
           IN  /\ DOMAIN c = DOMAIN t
               /\ \A i \in DOMAIN t : c[i].data = t[i].data
               /\ \A i \in DOMAIN t \ S : c[i] = t[i]
               /\ \A i \in DOMAIN t \cap S : c[i].status = "sending" /\ c[i].locked = "fresh"
               /\ Table(c)
BY DEF Claimed, Table, Rows

(* Enforcing the quota drops queued rows only. *)
LEMMA ExcessRows ==
    ASSUME NEW t
    PROVE  Excess(t) \subseteq {i \in DOMAIN t : t[i].status = "queued"}
BY DEF Excess, Oldest, Queued

(* insertRecord adds one row; what the quota costs is queued and counted. *)
LEMMA InsertEffect ==
    ASSUME TableOK, NEW r \in Rows, InsertRecord(r)
    PROVE  /\ TableOK' /\ nextId' = nextId + 1 /\ Ids' \subseteq Ids \cup {nextId}
           /\ \A i \in Ids \cap Ids' : table'[i] = table[i]
           /\ nextId \in Ids' => table'[nextId] = r
           /\ \A i \in Ids \ Ids' : table[i].status = "queued" /\ table[i].data \subseteq dropped'
           /\ nextId \notin Ids' => r.status = "queued" /\ r.data \subseteq dropped'
           /\ dropped \subseteq dropped' /\ dropped' \subseteq dropped \cup r.data \cup Durable
<1> DEFINE t == Inserted(r)
           X == Excess(t)
<1>1. /\ DOMAIN t = Ids \cup {nextId} /\ nextId \notin Ids /\ t[nextId] = r
      /\ \A i \in Ids : t[i] = table[i]
      /\ Table(t)
    BY InsertedRows
<1>2. table' = Without(t, X) /\ nextId' = nextId + 1 /\ dropped' = dropped \cup DataOf(t, X)
    BY DEF InsertRecord
<1>3. X \subseteq {i \in DOMAIN t : t[i].status = "queued"}
    BY ExcessRows
<1> HIDE DEF t, X
<1>4. /\ DOMAIN table' = DOMAIN t \ X
      /\ \A i \in DOMAIN t \ X : table'[i] = t[i]
      /\ Table(table')
    <2>1. /\ DOMAIN Without(t, X) = DOMAIN t \ X
          /\ \A i \in DOMAIN t \ X : Without(t, X)[i] = t[i]
        BY WithoutRows
    <2>2. Table(Without(t, X))
        BY <1>1, WithoutRows
    <2> QED
        BY <1>2, <2>1, <2>2
<1>5. \A d : d \in DataOf(t, X) <=> \E i \in X : d \in t[i].data
    BY InDataOf
<1>6. \A d : d \in Durable <=> \E i \in Ids : d \in table[i].data
    BY InDataOf DEF Durable
<1>7. TableOK'
    BY <1>1, <1>2, <1>4 DEF TableOK, Table, Ids
<1>8. \A i \in Ids \ Ids' : table[i].status = "queued" /\ table[i].data \subseteq dropped'
    BY <1>1, <1>2, <1>3, <1>4, <1>5 DEF Ids
<1>9. nextId \notin Ids' => r.status = "queued" /\ r.data \subseteq dropped'
    BY <1>1, <1>2, <1>3, <1>4, <1>5 DEF Ids
<1>10. dropped' \subseteq dropped \cup r.data \cup Durable
    BY <1>1, <1>2, <1>3, <1>5, <1>6
<1> QED
    BY <1>1, <1>2, <1>4, <1>7, <1>8, <1>9, <1>10 DEF Ids

LEMMA FiniteIds ==
    ASSUME TableOK
    PROVE  IsFiniteSet(Ids) /\ Cardinality(Ids) \in Nat
<1>1. IsFiniteSet(1 .. nextId - 1)
    BY FS_Interval DEF TableOK
<1> QED
    BY <1>1, FS_Subset, FS_CardinalityType DEF TableOK

(* A row that was admitted costs no other row its place. *)
LEMMA AdmittedRows ==
    ASSUME TableOK, NEW r \in Rows, ~(Cardinality(Ids) + 1 > MaxRecords)
    PROVE  LET t == Inserted(r)
           IN  Without(t, Excess(t)) = t /\ DataOf(t, Excess(t)) = {}
<1> DEFINE t == Inserted(r)
<1>1. DOMAIN t = Ids \cup {nextId} /\ nextId \notin Ids /\ Table(t)
    BY InsertedRows
<1>2. Cardinality(Ids \cup {nextId}) = Cardinality(Ids) + 1
    BY <1>1, FiniteIds, FS_AddElement
<1> HIDE DEF t
<1>3. Excess(t) = {}
    BY <1>1, <1>2 DEF Excess
<1>4. Without(t, {}) = t
    BY <1>1 DEF Without, Table
<1>5. DataOf(t, {}) = {}
    BY DEF DataOf
<1> QED
    BY <1>3, <1>4, <1>5 DEF t

(* handlePublish adds a row, or counts the payload as dropped; besides only the   *)
(* rows that it replaces go.                                                      *)
LEMMA BufferEffect ==
    ASSUME TableOK, NEW data \in SUBSET Readings, NEW enc, NEW gone,
           nextId \notin gone, BufferPublish(data, enc, gone)
    PROVE  /\ TableOK' /\ nextId' \in {nextId, nextId + 1}
           /\ Ids \ gone \subseteq Ids' /\ Ids' \subseteq (Ids \ gone) \cup {nextId}
           /\ \A i \in Ids \cap Ids' : table'[i] = table[i]
           /\ \/ nextId \in Ids' /\ table'[nextId].data = data /\ nextId' = nextId + 1
              \/ nextId \notin Ids' /\ data \subseteq dropped'
           /\ dropped \subseteq dropped' /\ dropped' \subseteq dropped \cup data
<1> DEFINE r == Row(data, Stored(enc), "queued")
<1>1. r \in Rows /\ r.data = data
    BY RowType DEF Stored
<1> HIDE DEF r
<1>2. nextId \notin Ids /\ nextId \in Nat
    BY DEF TableOK
<1>3. CASE /\ dropped' = dropped \cup data
           /\ table' = Without(table, gone) /\ nextId' = nextId
    <2>1. /\ DOMAIN table' = Ids \ gone
          /\ \A i \in Ids \ gone : table'[i] = table[i]
          /\ Table(table')
        BY <1>3, WithoutRows DEF TableOK, Ids
    <2>2. TableOK'
        BY <1>3, <2>1 DEF TableOK, Ids
    <2> QED
        BY <1>2, <1>3, <2>1, <2>2 DEF Ids
<1>4. CASE /\ table' = Without(Inserted(r), gone)
           /\ nextId' = nextId + 1 /\ dropped' = dropped
    <2> DEFINE u == Inserted(r)
    <2>1. /\ DOMAIN u = Ids \cup {nextId}
          /\ u[nextId] = r
          /\ \A i \in Ids : u[i] = table[i]
          /\ Table(u)
        BY <1>1, InsertedRows
    <2>0. table' = Without(u, gone)
        BY <1>4
    <2> HIDE DEF u
    <2>2. /\ DOMAIN table' = DOMAIN u \ gone
          /\ \A i \in DOMAIN u \ gone : table'[i] = u[i]
          /\ Table(table')
        <3>1. /\ DOMAIN Without(u, gone) = DOMAIN u \ gone
              /\ \A i \in DOMAIN u \ gone : Without(u, gone)[i] = u[i]
            BY WithoutRows
        <3>2. Table(Without(u, gone))
            BY <2>1, WithoutRows
        <3> QED
            BY <2>0, <3>1, <3>2
    <2>3. TableOK'
        BY <1>4, <2>1, <2>2 DEF TableOK, Ids
    <2> QED
        BY <1>1, <1>2, <1>4, <2>1, <2>2, <2>3 DEF Ids
<1>5. CASE Cardinality(Ids) + 1 > MaxRecords
    BY <1>3, <1>5 DEF BufferPublish
<1>6. CASE ~(Cardinality(Ids) + 1 > MaxRecords)
    <2> DEFINE t == Inserted(r)
    <2>1. /\ dropped' = dropped \cup DataOf(t, Excess(t))
          /\ table' = Without(Without(t, Excess(t)), gone) /\ nextId' = nextId + 1
        BY <1>6 DEF BufferPublish, r
    <2>2. Without(t, Excess(t)) = t /\ DataOf(t, Excess(t)) = {}
        BY <1>1, <1>6, AdmittedRows
    <2> QED
        BY <1>4, <2>1, <2>2
<1> QED
    BY <1>5, <1>6

(* Rows are taken out, or only change their bookkeeping. *)
LEMMA WithoutEffect ==
    ASSUME TableOK, NEW S, table' = Without(table, S), nextId' = nextId
    PROVE  TableOK' /\ Ids' = Ids \ S /\ \A i \in Ids' : table'[i] = table[i]
<1>1. /\ DOMAIN table' = Ids \ S
      /\ \A i \in Ids \ S : table'[i] = table[i]
      /\ Table(table')
    BY WithoutRows DEF TableOK, Ids
<1> QED
    BY <1>1 DEF TableOK, Ids

LEMMA MarkEffect ==
    ASSUME TableOK, NEW S, NEW later \in BOOLEAN,
           table' = MarkRetryFailed(table, S, later), nextId' = nextId
    PROVE  /\ TableOK' /\ Ids' = Ids
           /\ \A i \in Ids : table'[i].data = table[i].data
           /\ \A i \in Ids \ S : table'[i] = table[i]
           /\ \A i \in Ids \cap S : table'[i].status = "queued"
<1>1. /\ DOMAIN table' = Ids
      /\ \A i \in Ids : table'[i].data = table[i].data
      /\ \A i \in Ids \ S : table'[i] = table[i]
      /\ \A i \in Ids \cap S : table'[i].status = "queued"
      /\ Table(table')
    BY MarkedRows DEF TableOK, Ids
<1> QED
    BY <1>1 DEF TableOK, Ids

LEMMA SettleEffect ==
    ASSUME TableOK, NEW S, NEW F, NEW later \in BOOLEAN,
           table' = MarkRetryFailed(Without(table, S), F, later), nextId' = nextId
    PROVE  /\ TableOK' /\ Ids' = Ids \ S
           /\ \A i \in Ids' : table'[i].data = table[i].data
           /\ \A i \in Ids' \ F : table'[i] = table[i]
           /\ \A i \in Ids' \cap F : table'[i].status = "queued"
<1> DEFINE w == Without(table, S)
<1>1. DOMAIN w = Ids \ S /\ (\A i \in Ids \ S : w[i] = table[i]) /\ Table(w)
    BY WithoutRows DEF TableOK, Ids
<1> HIDE DEF w
<1>2. /\ DOMAIN table' = DOMAIN w
      /\ \A i \in DOMAIN w : table'[i].data = w[i].data
      /\ \A i \in DOMAIN w \ F : table'[i] = w[i]
      /\ \A i \in DOMAIN w \cap F : table'[i].status = "queued"
      /\ Table(table')
    BY <1>1, MarkedRows DEF w
<1> QED
    BY <1>1, <1>2 DEF TableOK, Ids

LEMMA ClaimEffect ==
    ASSUME TableOK, FlushOK, NEW handled \in Nat, Claim(handled), nextId' = nextId
    PROVE  /\ TableOK' /\ FlushOK' /\ Ids' = Ids
           /\ flush'.pc = "sending" /\ flush'.ok = {} /\ flush'.failed = {}
           /\ flush'.todo \subseteq {i \in Ids : table[i].status = "queued" \/ table[i].locked = "stale"}
           /\ \A i \in Ids : table'[i].data = table[i].data
           /\ \A i \in Ids \ flush'.todo : table'[i] = table[i]
           /\ \A i \in flush'.todo : table'[i].status = "sending" /\ table'[i].locked = "fresh"
<1> DEFINE S == Oldest(Ready(table), FlushBatch)
<1>1. S \subseteq {i \in Ids : table[i].status = "queued" \/ table[i].locked = "stale"}
    BY DEF Oldest, Ready, Ids
<1>2. /\ table' = Claimed(table, S)
      /\ flush' = [NoFlush EXCEPT !.pc = "sending", !.todo = S, !.handled = handled]
    BY DEF Claim
<1> HIDE DEF S
<1>3. S \subseteq Nat
    BY <1>1 DEF TableOK
<1>4. FlushOK' /\ flush'.pc = "sending" /\ flush'.todo = S /\ flush'.ok = {} /\ flush'.failed = {}
    BY <1>2, <1>3 DEF FlushOK, FlushRecord, NoFlush
<1>5. /\ DOMAIN table' = Ids
      /\ \A i \in Ids : table'[i].data = table[i].data
      /\ \A i \in Ids \ S : table'[i] = table[i]
      /\ \A i \in Ids \cap S : table'[i].status = "sending" /\ table'[i].locked = "fresh"
      /\ Table(table')
    BY <1>2, ClaimedRows DEF TableOK, Ids
<1>6. TableOK'
    BY <1>5 DEF TableOK, Ids
<1> QED
    BY <1>1, <1>4, <1>5, <1>6 DEF Ids

(* Time passes for one row. *)
LEMMA AgeEffect ==
    ASSUME TableOK, NEW i \in Ids, LockAges(i) \/ RetryDue(i) \/ Expire(i)
    PROVE  /\ TableOK' /\ Ids' = Ids
           /\ \A j \in Ids : table'[j].data = table[j].data /\ table'[j].status = table[j].status
           /\ \A j \in Ids : j \in Held => table'[j].locked = table[j].locked
<1>1. CASE LockAges(i)
    <2>1. table' = [table EXCEPT ![i].locked = "stale"] /\ nextId' = nextId /\ i \notin Held
        BY <1>1 DEF LockAges
    <2> QED
        BY <2>1 DEF TableOK, Table, Rows, Ids
<1>2. CASE RetryDue(i)
    <2> DEFINE r == [table[i] EXCEPT !.due = TRUE]
    <2>1. table' = [table EXCEPT ![i] = r] /\ nextId' = nextId
        BY <1>2 DEF RetryDue
    <2>2. /\ r \in Rows /\ r.data = table[i].data /\ r.status = table[i].status
          /\ r.locked = table[i].locked
        BY DEF TableOK, Table, Rows, Ids
    <2> HIDE DEF r
    <2>3. /\ DOMAIN table' = Ids /\ table'[i] = r
          /\ \A j \in Ids : j # i => table'[j] = table[j]
          /\ Table(table')
        BY <2>1, <2>2 DEF TableOK, Table, Ids
    <2> QED
        BY <2>1, <2>2, <2>3 DEF TableOK, Ids
<1>3. CASE Expire(i)
    <2> DEFINE r == [table[i] EXCEPT !.expired = TRUE]
    <2>1. table' = [table EXCEPT ![i] = r] /\ nextId' = nextId
        BY <1>3 DEF Expire
    <2>2. /\ r \in Rows /\ r.data = table[i].data /\ r.status = table[i].status
          /\ r.locked = table[i].locked
        BY DEF TableOK, Table, Rows, Ids
    <2> HIDE DEF r
    <2>3. /\ DOMAIN table' = Ids /\ table'[i] = r
          /\ \A j \in Ids : j # i => table'[j] = table[j]
          /\ Table(table')
        BY <2>1, <2>2 DEF TableOK, Table, Ids
    <2> QED
        BY <2>1, <2>2, <2>3 DEF TableOK, Ids
<1> QED
    BY <1>1, <1>2, <1>3

LEMMA CleanupEffect ==
    ASSUME TableOK, CleanupExpired
    PROVE  /\ TableOK' /\ Ids' = Ids \ Doomed
           /\ \A i \in Ids' : table'[i].data = table[i].data
           /\ \A i \in Ids' : table[i].locked # "stale" => table'[i] = table[i]
           /\ \A i \in Ids' : table'[i].status = "sending" => table[i].status = "sending"
           /\ dropped' = dropped \cup DataOf(table, Doomed)
<1> DEFINE Lifted(i) == [table[i] EXCEPT !.status = "queued", !.locked = "none"]
<1>1. ASSUME NEW i \in Ids
      PROVE  /\ table[i] \in Rows /\ Lifted(i) \in Rows
             /\ Lifted(i).data = table[i].data /\ Lifted(i).status = "queued"
    BY DEF TableOK, Table, Rows, Ids
<1>2. /\ table' = [i \in Ids \ Doomed |-> IF table[i].locked = "stale" THEN Lifted(i) ELSE table[i]]
      /\ nextId' = nextId /\ dropped' = dropped \cup DataOf(table, Doomed)
    BY DEF CleanupExpired
<1> HIDE DEF Lifted
<1>3. TableOK' /\ Ids' = Ids \ Doomed
    BY <1>1, <1>2 DEF TableOK, Table, Ids
<1> QED
    BY <1>1, <1>2, <1>3
-----------------------------------------------------------------------------
(* The inductive invariants *)

\* The memory queue belongs to an agent without a buffer service, and it is drained
\* only while there is something in it.
QueueInv ==
    /\ bufferSync # "off" => pending = <<>>
    /\ draining => pending # <<>>

FlushRows == flush.todo \cup flush.ok \cup flush.failed

\* Who works on a row has its lock, and nobody else works on it.
WorkInv ==
    /\ pub.pc \in {"idle", "building"} => pub.row = 0
    /\ pub.pc \in {"claimed", "sending"} => pub.row \in 1 .. nextId - 1
    /\ flush.pc # "sending" => FlushRows = {}
    /\ FlushRows \subseteq Ids /\ pub.row \notin FlushRows
    /\ \A i \in FlushRows \cup {pub.row} :
          i \in Ids => table[i].status = "sending" /\ table[i].locked = "fresh"

\* The same for the publishes that stopped managers left behind; such a row is deleted
\* only if the broker has its readings.
OrphanInv ==
    /\ DOMAIN orphans \subseteq 1 .. nextId - 1
    /\ pub.row \notin DOMAIN orphans /\ FlushRows \cap DOMAIN orphans = {}
    /\ \A i \in DOMAIN orphans \cap Ids :
          /\ table[i].status = "sending" /\ table[i].locked = "fresh"
          /\ orphans[i] => table[i].data \subseteq delivered \cup garbled

\* The readings that are safe without the rows which the flush is about to delete.
Kept ==
    delivered \cup garbled \cup dropped \cup DataOf(table, Ids \ flush.ok)
        \cup (IF bufferSync = "off" THEN Waiting \cup lost ELSE {})

\* The row of a publish has its payload, until it is dropped and counted; a payload is
\* in the batch as long as its publish is under way; and a row counts as flushed only
\* when its readings are safe elsewhere.
DataInv ==
    /\ pub.pc = "idle" => pub.data = {}
    /\ pub.data \subseteq batch
    /\ pub.pc \in {"claimed", "sending"} =>
          IF pub.row \in Ids THEN table[pub.row].data = pub.data ELSE pub.data \subseteq dropped
    /\ pub.arrived => pub.data \subseteq delivered \cup garbled
    /\ \A i \in flush.ok : table[i].data \subseteq Kept
-----------------------------------------------------------------------------
(* Types *)

LEMMA ResetType ==
    ASSUME BatchOK, Reset
    PROVE  BatchOK' /\ pub'.data = {} /\ pub'.row = 0 /\ pub'.pc = "idle" /\ ~pub'.arrived
BY DEF BatchOK, Reset, NoPub, PubRecord

\* No publish was left behind.
LEMMA NoOrphans ==
    ASSUME NEW f, f = << >>
    PROVE  f \in [DOMAIN f -> BOOLEAN] /\ DOMAIN f \subseteq Nat /\ DOMAIN f = {}
OBVIOUS

\* Counting what happened keeps the counters.
LEMMA CountsType ==
    ASSUME CountsOK, Event \/ Fault
    PROVE  CountsOK'
BY DEF CountsOK, Event, Fault

\* What the broker gets are readings.
LEMMA ReceiveType ==
    ASSUME HistoryOK, NEW data \in SUBSET Readings, NEW enc, Receive(data, enc)
    PROVE  /\ delivered' \subseteq Readings /\ garbled' \subseteq Readings
           /\ delivered \subseteq delivered' /\ garbled \subseteq garbled'
           /\ data \subseteq delivered' \cup garbled'
           /\ delivered' \subseteq delivered \cup data /\ garbled' \subseteq garbled \cup data
<1>1. CASE enc = "garbled"
    BY <1>1 DEF HistoryOK, Receive
<1>2. CASE enc # "garbled"
    BY <1>2 DEF HistoryOK, Receive
<1> QED
    BY <1>1, <1>2

\* The head of a queue that is not empty, and what is left of it.
LEMMA QueueHead ==
    ASSUME NEW q \in Seq(Payloads), q # <<>>
    PROVE  /\ q[1] \in Payloads /\ q[1].data \subseteq Readings
           /\ Tail(q) \in Seq(Payloads) /\ 1 \in DOMAIN q
           /\ \A k \in DOMAIN Tail(q) : k + 1 \in DOMAIN q /\ Tail(q)[k] = q[k + 1]
           /\ \A k \in DOMAIN q : k # 1 => k - 1 \in DOMAIN Tail(q) /\ Tail(q)[k - 1] = q[k]
<1>1. Len(q) \in Nat /\ Len(q) > 0 /\ DOMAIN q = 1 .. Len(q)
    OBVIOUS
<1>2. q[1] \in Payloads /\ q[1].data \subseteq Readings
    <2>1. q[1] \in Payloads
        BY <1>1
    <2> QED
        BY <2>1 DEF Payloads
<1>3. Tail(q) \in Seq(Payloads) /\ Len(Tail(q)) = Len(q) - 1
    BY HeadTailProperties
<1>4. /\ DOMAIN Tail(q) = 1 .. Len(q) - 1
      /\ \A k \in 1 .. Len(q) - 1 : Tail(q)[k] = q[k + 1]
    <2>1. DOMAIN Tail(q) = 1 .. Len(q) - 1
        BY <1>3, LenProperties
    <2>2. \A k \in 1 .. Len(q) - 1 : Tail(q)[k] = q[k + 1]
        BY <1>1
    <2> QED
        BY <2>1, <2>2
<1>5. \A k \in DOMAIN Tail(q) : k + 1 \in DOMAIN q /\ Tail(q)[k] = q[k + 1]
    BY <1>1, <1>4
<1>6. ASSUME NEW k \in DOMAIN q, k # 1
      PROVE  k - 1 \in DOMAIN Tail(q) /\ Tail(q)[k - 1] = q[k]
    <2>1. k - 1 \in 1 .. Len(q) - 1 /\ (k - 1) + 1 = k
        BY <1>1, <1>6
    <2> QED
        BY <1>4, <2>1
<1> QED
    BY <1>1, <1>2, <1>3, <1>5, <1>6

\* The readings of a queue.
WaitingIn(q) == UNION {q[k].data : k \in DOMAIN q}

LEMMA QueueData ==
    ASSUME NEW q \in Seq(Payloads)
    PROVE  /\ WaitingIn(q) \subseteq Readings
           /\ q # <<>> => /\ WaitingIn(q) = q[1].data \cup WaitingIn(Tail(q))
           /\ \A p \in Payloads : /\ Append(q, p) \in Seq(Payloads) /\ Append(q, p) # <<>>
                                  /\ WaitingIn(Append(q, p)) = WaitingIn(q) \cup p.data
<1>1. WaitingIn(q) \subseteq Readings
    <2>1. ASSUME NEW k \in DOMAIN q
          PROVE  q[k].data \subseteq Readings
        <3>1. q[k] \in Payloads
            OBVIOUS
        <3> QED
            BY <3>1 DEF Payloads
    <2> QED
        BY <2>1 DEF WaitingIn
<1>2. ASSUME q # <<>>
      PROVE  WaitingIn(q) = q[1].data \cup WaitingIn(Tail(q))
    <2>1. ASSUME NEW r \in WaitingIn(q)
          PROVE  r \in q[1].data \cup WaitingIn(Tail(q))
        <3>1. PICK k \in DOMAIN q : r \in q[k].data
            BY <2>1 DEF WaitingIn
        <3>2. CASE k = 1
            BY <3>1, <3>2
        <3>3. CASE k # 1
            <4>1. k - 1 \in DOMAIN Tail(q) /\ Tail(q)[k - 1] = q[k]
                BY <1>2, <3>3, QueueHead
            <4> QED
                BY <3>1, <4>1 DEF WaitingIn
        <3> QED
            BY <3>2, <3>3
    <2>2. q[1].data \subseteq WaitingIn(q)
        BY <1>2, QueueHead DEF WaitingIn
    <2>3. ASSUME NEW r \in WaitingIn(Tail(q))
          PROVE  r \in WaitingIn(q)
        <3>1. PICK k \in DOMAIN Tail(q) : r \in Tail(q)[k].data
            BY <2>3 DEF WaitingIn
        <3>2. k + 1 \in DOMAIN q /\ Tail(q)[k] = q[k + 1]
            BY <1>2, QueueHead
        <3> QED
            BY <3>1, <3>2 DEF WaitingIn
    <2> QED
        BY <2>1, <2>2, <2>3
<1>3. ASSUME NEW p \in Payloads
      PROVE  /\ Append(q, p) \in Seq(Payloads) /\ Append(q, p) # <<>>
             /\ WaitingIn(Append(q, p)) = WaitingIn(q) \cup p.data
    <2> DEFINE a == Append(q, p)
    <2>1. /\ a \in Seq(Payloads) /\ a # <<>> /\ Len(a) = Len(q) + 1
          /\ a[Len(q) + 1] = p
          /\ \A k \in 1 .. Len(q) : a[k] = q[k]
        BY AppendProperties
    <2>2. Len(q) \in Nat /\ DOMAIN q = 1 .. Len(q)
        BY LenProperties
    <2> HIDE DEF a
    <2>3. DOMAIN a = 1 .. Len(q) + 1
        BY <2>1, LenProperties
    <2>4. DOMAIN a = DOMAIN q \cup {Len(q) + 1}
        BY <2>2, <2>3
    <2>5. WaitingIn(a) = WaitingIn(q) \cup p.data
        BY <2>1, <2>2, <2>4 DEF WaitingIn
    <2> QED
        BY <2>1, <2>5 DEF a
<1> QED
    BY <1>1, <1>2, <1>3

\* enqueuePending keeps what was waiting, but for the message it evicts.
LEMMA EnqueueEffect ==
    ASSUME QueueOK, NEW data \in SUBSET Readings, NEW enc \in {"json", "binary", "garbled"},
           NEW gone, EnqueuePending(data, enc, gone)
    PROVE  /\ pending' \in Seq(Payloads) /\ pending' # <<>>
           /\ data \subseteq Waiting' /\ Waiting' \subseteq Waiting \cup data
           /\ Waiting \subseteq Waiting' \cup Evicted \cup delivered
           /\ Evicted \subseteq Waiting
           /\ bufferSync = "off" /\ table' = Without(table, gone) /\ nextId' = nextId
<1> DEFINE p == [data |-> data, enc |-> enc]
           rest == IF Len(pending) >= MaxPending THEN Tail(pending) ELSE pending
<1>1. p \in Payloads /\ p.data = data
    BY DEF Payloads
<1>2. pending' = Append(rest, p) /\ bufferSync = "off" /\ table' = Without(table, gone)
      /\ nextId' = nextId
    BY DEF EnqueuePending
<1>3. Waiting = WaitingIn(pending) /\ Waiting' = WaitingIn(pending')
    BY DEF Waiting, WaitingIn
<1>4. /\ rest \in Seq(Payloads) /\ WaitingIn(rest) \subseteq Waiting
      /\ Waiting \subseteq WaitingIn(rest) \cup Evicted \cup delivered
      /\ Evicted \subseteq Waiting
    <2>1. CASE Len(pending) >= MaxPending
        <3>1. pending # <<>>
            BY <2>1, LimitsAssumption DEF QueueOK
        <3>2. Waiting = pending[1].data \cup WaitingIn(Tail(pending))
            BY <3>1, <1>3, QueueData DEF QueueOK
        <3>3. Tail(pending) \in Seq(Payloads)
            BY <3>1, QueueHead DEF QueueOK
        <3> QED
            BY <2>1, <3>2, <3>3 DEF Evicted
    <2>2. CASE ~(Len(pending) >= MaxPending)
        BY <2>2, <1>3 DEF QueueOK, Evicted
    <2> QED
        BY <2>1, <2>2
<1> HIDE DEF rest, p
<1>5. /\ Append(rest, p) \in Seq(Payloads) /\ Append(rest, p) # <<>>
      /\ WaitingIn(Append(rest, p)) = WaitingIn(rest) \cup p.data
    BY <1>1, <1>4, QueueData
<1> QED
    BY <1>1, <1>2, <1>3, <1>4, <1>5

\* A group of variables that a step leaves alone keeps its types.
LEMMA Frames ==
    /\ BatchOK /\ UNCHANGED <<batch, pub>> => BatchOK'
    /\ PluginOK /\ UNCHANGED <<needStop, orphans, plugin>> => PluginOK'
    /\ LinkOK /\ UNCHANGED <<connected, mode, bufferSync>> => LinkOK'
    /\ QueueOK /\ UNCHANGED <<pending, draining>> => QueueOK'
    /\ TableOK /\ UNCHANGED <<table, nextId>> => TableOK'
    /\ FlushOK /\ UNCHANGED flush => FlushOK'
    /\ CountsOK /\ UNCHANGED <<events, faults>> => CountsOK'
    /\ HistoryOK /\ UNCHANGED <<taken, delivered, garbled, dropped, lost>> => HistoryOK'
BY DEF BatchOK, PluginOK, LinkOK, QueueOK, TableOK, Table, Ids, FlushOK, CountsOK, HistoryOK

\* The row that the flush publishes is in the table.
LEMMA RowOfFlush ==
    ASSUME TableOK, FlushRows \subseteq Ids, NEW i \in FlushRows
    PROVE  /\ i \in Ids /\ table[i].data \in SUBSET Readings
           /\ table[i].enc \in {"json", "binary", "garbled"}
BY DEF TableOK, Table, Ids, Rows

\* One row more was published.
LEMMA SentEffect ==
    ASSUME FlushOK, NEW i \in flush.todo, NEW ok \in BOOLEAN, Sent(i, ok)
    PROVE  /\ FlushOK' /\ FlushRows' = FlushRows /\ flush'.pc = flush.pc
           /\ flush'.ok = IF ok THEN flush.ok \cup {i} ELSE flush.ok
<1>1. CASE ok
    BY <1>1 DEF FlushOK, FlushRecord, Sent, FlushRows
<1>2. CASE ~ok
    BY <1>2 DEF FlushOK, FlushRecord, Sent, FlushRows
<1> QED
    BY <1>1, <1>2

\* No flush is under way.
LEMMA IdleFlush ==
    ASSUME flush' = NoFlush
    PROVE  FlushOK' /\ FlushRows' = {} /\ flush'.ok = {} /\ flush'.pc = "idle"
BY DEF FlushOK, NoFlush, FlushRecord, FlushRows

\* How many rows a flush has handled is a number.
LEMMA SettledFlush ==
    ASSUME TableOK, FlushOK, FlushRows \subseteq Ids, FlushSettle
    PROVE  FlushOK' /\ FlushRows' = {} /\ flush'.ok = {} /\ flush'.pc = "more"
<1> DEFINE n == Cardinality(flush.ok \cup flush.failed)
<1>1. flush.ok \cup flush.failed \subseteq 1 .. nextId - 1
    BY DEF TableOK, FlushRows
<1>2. IsFiniteSet(1 .. nextId - 1)
    BY FS_Interval DEF TableOK
<1>3. n \in Nat
    BY <1>1, <1>2, FS_Subset, FS_CardinalityType
<1> HIDE DEF n
<1>4. flush.handled + n \in Nat
    BY <1>3 DEF FlushOK, FlushRecord
<1>5. flush' = [NoFlush EXCEPT !.pc = "more", !.handled = flush.handled + n]
    BY DEF FlushSettle, n
<1> QED
    BY <1>4, <1>5 DEF FlushOK, NoFlush, FlushRecord, FlushRows

\* The steps of the publisher that change no row.
LEMMA PublisherTypes ==
    ASSUME BatchOK, HistoryOK, CountsOK,
           \/ \E r \in Readings : AddMessage(r)
           \/ PublishBatch \/ DiscardUnbound
           \/ \E enc \in Encodings : PublishLive(enc)
           \/ DeleteFails \/ PersistFails \/ MarkFails
    PROVE  BatchOK' /\ HistoryOK' /\ CountsOK'
<1> USE DEF pubVars, envVars, histVars
<1>1. Wiped \subseteq Readings
    BY DEF Wiped, BatchOK
<1>2. ASSUME NEW r \in Readings, AddMessage(r)
      PROVE  BatchOK' /\ HistoryOK' /\ CountsOK'
    BY <1>2 DEF AddMessage, BatchOK, HistoryOK, CountsOK
<1>3. CASE PublishBatch
    BY <1>3, Frames DEF PublishBatch, BatchOK, PubRecord, NoPub
<1>4. CASE DiscardUnbound
    BY <1>1, <1>4, ResetType, Frames DEF DiscardUnbound, HistoryOK
<1>5. CASE PersistFails \/ MarkFails
    <2>1. /\ batch' = batch /\ pub' = NoPub
          /\ UNCHANGED <<taken, delivered, garbled, dropped, lost>>
          /\ Fault \/ UNCHANGED <<events, faults>>
        BY <1>5 DEF PersistFails, MarkFails
    <2>2. BatchOK'
        BY <2>1 DEF BatchOK, PubRecord, NoPub
    <2> QED
        BY <2>1, <2>2, Frames, CountsType
<1>6. ASSUME NEW enc \in Encodings, PublishLive(enc)
      PROVE  BatchOK' /\ HistoryOK' /\ CountsOK'
    <2>1. BatchOK'
        BY <1>6 DEF PublishLive, BatchOK, PubRecord
    <2>2. HistoryOK'
        BY <1>6, ReceiveType DEF PublishLive, BatchOK, PubRecord, HistoryOK
    <2> QED
        BY <1>6, <2>1, <2>2, Frames DEF PublishLive
<1>7. CASE DeleteFails
    BY <1>1, <1>7, ResetType, CountsType DEF DeleteFails, HistoryOK
<1> QED
    BY <1>2, <1>3, <1>4, <1>5, <1>6, <1>7

\* The steps of the publisher that change a row.
LEMMA PublisherRowTypes ==
    ASSUME BatchOK, QueueOK, TableOK, CountsOK, HistoryOK, WorkInv,
           \/ PublishOffline \/ PersistClaimedBatch \/ PersistRetried \/ PublishInterrupted
           \/ \E enc \in Encodings : PublishBuffered(enc) \/ PublishQueued(enc)
           \/ PublishRejected \/ PublishConfirmed \/ PublishFailed
    PROVE  BatchOK' /\ QueueOK' /\ TableOK' /\ CountsOK' /\ HistoryOK'
<1> USE DEF pubVars, queueVars, tableVars, envVars, histVars
<1>1. Wiped \subseteq Readings /\ pub.data \in SUBSET Readings /\ pub.row \in Nat
    BY DEF Wiped, BatchOK, PubRecord
<1>2. Durable \subseteq Readings
    BY InDataOf DEF Durable, TableOK, Table, Ids, Rows
<1>3. /\ Row(pub.data, "json", "queued") \in Rows
      /\ Row(pub.data, "json", "sending") \in Rows
      /\ Row(pub.data, "json", "queued").data = pub.data
      /\ Row(pub.data, "json", "sending").data = pub.data
    BY <1>1, RowType
<1>4. CASE PublishOffline \/ PersistRetried
    <2>1. /\ InsertRecord(Row(pub.data, "json", "queued"))
          /\ Reset /\ lost' = lost \cup Wiped
          /\ Fault \/ UNCHANGED <<events, faults>>
          /\ UNCHANGED <<pending, draining, taken, delivered, garbled>>
        BY <1>4 DEF PublishOffline, PersistRetried
    <2>2. TableOK' /\ dropped' \subseteq Readings
        BY <1>1, <1>2, <1>3, <2>1, InsertEffect DEF HistoryOK
    <2> QED
        BY <1>1, <2>1, <2>2, ResetType, CountsType, Frames DEF HistoryOK
<1>5. CASE PersistClaimedBatch
    <2>1. /\ InsertRecord(Row(pub.data, "json", "sending"))
          /\ pub' = [pub EXCEPT !.pc = "claimed", !.row = nextId] /\ batch' = batch
          /\ UNCHANGED <<pending, draining, events, faults, taken, delivered, garbled, lost>>
        BY <1>5 DEF PersistClaimedBatch
    <2>2. TableOK' /\ dropped' \subseteq Readings
        BY <1>1, <1>2, <1>3, <2>1, InsertEffect DEF HistoryOK
    <2>3. BatchOK'
        BY <2>1 DEF BatchOK, PubRecord, TableOK
    <2> QED
        BY <2>1, <2>2, <2>3, Frames DEF HistoryOK
<1>6. CASE PublishInterrupted \/ PublishRejected \/ PublishFailed
    <2>1. /\ table' = MarkRetryFailed(table, {pub.row}, FALSE) /\ nextId' = nextId
          /\ Reset /\ lost' = lost \cup Wiped
          /\ Fault \/ UNCHANGED <<events, faults>>
          /\ UNCHANGED <<pending, draining, taken, delivered, garbled, dropped>>
        BY <1>6 DEF PublishInterrupted, PublishRejected, BufferRejects, PublishFailed
    <2>2. TableOK'
        BY <2>1, MarkEffect
    <2> QED
        BY <1>1, <2>1, <2>2, ResetType, CountsType, Frames DEF HistoryOK
<1>7. ASSUME NEW enc \in Encodings, PublishBuffered(enc)
      PROVE  BatchOK' /\ QueueOK' /\ TableOK' /\ CountsOK' /\ HistoryOK'
    <2> DEFINE gone == {pub.row}
    <2>1. /\ pub.pc = "claimed" /\ BufferPublish(pub.data, enc, gone)
          /\ Reset /\ lost' = lost \cup Wiped
          /\ UNCHANGED <<pending, draining, events, faults, taken, delivered, garbled>>
        BY <1>7 DEF PublishBuffered
    <2>2. nextId \notin gone
        BY <2>1 DEF WorkInv, TableOK
    <2> HIDE DEF gone
    <2>3. TableOK' /\ dropped' \subseteq dropped \cup pub.data
        BY <1>1, <2>1, <2>2, BufferEffect
    <2> QED
        BY <1>1, <2>1, <2>3, ResetType, Frames DEF HistoryOK
<1>8. ASSUME NEW enc \in Encodings, PublishQueued(enc)
      PROVE  BatchOK' /\ QueueOK' /\ TableOK' /\ CountsOK' /\ HistoryOK'
    <2>1. /\ EnqueuePending(pub.data, enc, {pub.row})
          /\ Reset /\ lost' = lost \cup Wiped \cup Evicted
          /\ UNCHANGED <<draining, events, faults, taken, delivered, garbled, dropped>>
        BY <1>8 DEF PublishQueued
    <2>2. enc \in {"json", "binary", "garbled"}
        BY EncodingsAssumption
    <2>3. /\ pending' \in Seq(Payloads) /\ Evicted \subseteq Waiting
          /\ table' = Without(table, {pub.row}) /\ nextId' = nextId
        BY <1>1, <2>1, <2>2, EnqueueEffect
    <2>4. Waiting \subseteq Readings
        BY QueueData DEF Waiting, WaitingIn, QueueOK
    <2>5. TableOK'
        BY <2>3, WithoutEffect
    <2> QED
        BY <1>1, <2>1, <2>3, <2>4, <2>5, ResetType, Frames DEF HistoryOK, QueueOK
<1>9. CASE PublishConfirmed
    <2>1. /\ table' = Without(table, {pub.row}) /\ nextId' = nextId
          /\ Reset /\ lost' = lost \cup Wiped
          /\ UNCHANGED <<pending, draining, events, faults, taken, delivered, garbled, dropped>>
        BY <1>9 DEF PublishConfirmed
    <2>2. TableOK'
        BY <2>1, WithoutEffect
    <2> QED
        BY <1>1, <2>1, <2>2, ResetType, Frames DEF HistoryOK
<1> QED
    BY <1>4, <1>5, <1>6, <1>7, <1>8, <1>9

\* The steps of the endpoint and the link.
LEMMA LinkTypes ==
    ASSUME PluginOK, LinkOK, QueueOK, CountsOK,
           \/ Start \/ ReloadBindings \/ Connect \/ Disconnect \/ SetPublishMode
    PROVE  PluginOK' /\ LinkOK' /\ QueueOK' /\ CountsOK'
<1> USE DEF pubVars, queueVars, envVars
<1>1. CASE Start
    <2>1. plugin' \in {"none", "running"} /\ needStop' = FALSE /\ orphans' = orphans
        BY <1>1 DEF Start
    <2> QED
        BY <1>1, <2>1, Frames DEF Start, PluginOK, linkVars
<1>2. CASE ReloadBindings
    <2>1. /\ StopPlugin /\ Event /\ plugin' \in {"none", "idle", "running"}
          /\ UNCHANGED <<needStop, orphans, mode, pending>>
        BY <1>2 DEF ReloadBindings
    <2>2. /\ connected' \in {FALSE, connected} /\ draining' \in {FALSE, draining}
          /\ bufferSync' \in {"off", bufferSync}
        BY <2>1 DEF StopPlugin
    <2> QED
        BY <2>1, <2>2, CountsType DEF PluginOK, LinkOK, QueueOK
<1>3. CASE Connect
    <2>1. /\ connected' = TRUE /\ draining' \in BOOLEAN /\ bufferSync' \in {"started", bufferSync}
          /\ UNCHANGED <<needStop, orphans, plugin, mode, pending, events, faults>>
        BY <1>3 DEF Connect
    <2> QED
        BY <2>1, Frames DEF LinkOK, QueueOK
<1>4. CASE Disconnect \/ SetPublishMode
    <2>1. /\ Event /\ connected' \in {FALSE, connected} /\ draining' \in {FALSE, draining}
          /\ mode' \in {mode, "direct", "buffer"}
          /\ UNCHANGED <<needStop, orphans, plugin, bufferSync, pending>>
        BY <1>4 DEF Disconnect, SetPublishMode
    <2> QED
        BY <2>1, CountsType DEF PluginOK, LinkOK, QueueOK
<1> QED
    BY <1>1, <1>2, <1>3, <1>4

\* A stopped manager leaves its publish behind.
LEMMA StopTypes ==
    ASSUME BatchOK, PluginOK, LinkOK, QueueOK, CountsOK, HistoryOK, Stop
    PROVE  BatchOK' /\ PluginOK' /\ LinkOK' /\ QueueOK' /\ CountsOK' /\ HistoryOK'
<1>1. /\ Event /\ StopPlugin /\ needStop' = TRUE /\ plugin' = "none"
      /\ batch' = {} /\ pub' = NoPub /\ UNCHANGED <<mode, pending>>
      /\ UNCHANGED <<taken, delivered, garbled, dropped>>
      /\ lost' \subseteq lost \cup batch
    BY DEF Stop
<1>2. BatchOK'
    BY <1>1 DEF BatchOK, PubRecord, NoPub
<1>3. LinkOK' /\ QueueOK'
    <2>1. /\ connected' \in {FALSE, connected} /\ draining' \in {FALSE, draining}
          /\ bufferSync' \in {"off", bufferSync}
        BY <1>1 DEF StopPlugin
    <2> QED
        BY <1>1, <2>1 DEF LinkOK, QueueOK
<1>4. PluginOK'
    <2>1. orphans' \in [DOMAIN orphans' -> BOOLEAN] /\ DOMAIN orphans' \subseteq Nat
        <3>1. CASE pub.row = 0
            BY <3>1 DEF Stop, PluginOK
        <3>2. CASE pub.row # 0
            <4>1. /\ orphans' = [i \in DOMAIN orphans \cup {pub.row} |->
                                   IF i = pub.row THEN pub.arrived ELSE orphans[i]]
                  /\ pub.row \in Nat /\ pub.arrived \in BOOLEAN
                BY <3>2 DEF Stop, BatchOK, PubRecord
            <4> QED
                BY <4>1 DEF PluginOK
        <3> QED
            BY <3>1, <3>2
    <2> QED
        BY <1>1, <2>1 DEF PluginOK
<1>5. CountsOK' /\ HistoryOK'
    BY <1>1, CountsType DEF HistoryOK, BatchOK
<1> QED
    BY <1>2, <1>3, <1>4, <1>5

\* Such a publish ends.
LEMMA OrphanTypes ==
    ASSUME PluginOK, TableOK, CountsOK,
           \E i \in DOMAIN orphans : OrphanEnds(i) \/ OrphanFails(i)
    PROVE  PluginOK' /\ TableOK' /\ CountsOK'
<1> USE DEF tableVars, envVars
<1>1. PICK i \in DOMAIN orphans : OrphanEnds(i) \/ OrphanFails(i)
    OBVIOUS
<1> DEFINE S == {i}
<1>2. /\ orphans' = Without(orphans, S) /\ UNCHANGED <<needStop, plugin, nextId>>
      /\ Fault \/ UNCHANGED <<events, faults>>
      /\ \/ table' = table \/ table' = MarkRetryFailed(table, S, FALSE)
         \/ table' = Without(table, S)
    BY <1>1 DEF OrphanEnds, OrphanFails
<1> HIDE DEF S
<1>3. PluginOK'
    BY <1>2 DEF PluginOK, Without
<1>4. TableOK'
    BY <1>2, MarkEffect, WithoutEffect, Frames
<1> QED
    BY <1>2, <1>3, <1>4, CountsType, Frames

\* The queue in memory is drained.
LEMMA DrainTypes ==
    ASSUME QueueOK, QueueInv, HistoryOK, DrainDone \/ DrainLate
    PROVE  QueueOK' /\ HistoryOK'
<1>1. /\ Receive(pending[1].data, pending[1].enc) /\ UNCHANGED <<taken, dropped, lost>>
      /\ pending # <<>>
    BY DEF DrainDone, DrainLate, QueueInv
<1>2. pending[1].data \in SUBSET Readings /\ Tail(pending) \in Seq(Payloads)
    BY <1>1, QueueHead DEF QueueOK
<1>3. pending' \in {pending, Tail(pending)} /\ draining' \in BOOLEAN
    BY DEF DrainDone, DrainLate, queueVars, QueueOK
<1> QED
    BY <1>1, <1>2, <1>3, ReceiveType DEF QueueOK, HistoryOK

\* The steps of the flush.
LEMMA FlushTypes ==
    ASSUME QueueOK, TableOK, FlushOK, CountsOK, HistoryOK, FlushRows \subseteq Ids,
           \/ FlushBuffer \/ FlushSettle \/ FlushMore \/ FlushEnds \/ FlushAborts
           \/ \E i \in flush.todo : \/ FlushLive(i) \/ FlushBuffered(i) \/ FlushQueued(i)
                                    \/ FlushRejected(i)
    PROVE  QueueOK' /\ TableOK' /\ FlushOK' /\ CountsOK' /\ HistoryOK'
<1> USE DEF pubVars, queueVars, tableVars, envVars, histVars
<1>1. CASE FlushBuffer \/ FlushMore
    <2>1. PICK n \in Nat : Claim(n)
        BY <1>1 DEF FlushBuffer, FlushMore, FlushOK, FlushRecord
    <2>2. TableOK' /\ FlushOK'
        BY <1>1, <2>1, ClaimEffect DEF FlushBuffer, FlushMore
    <2> QED
        BY <1>1, <2>2, Frames DEF FlushBuffer, FlushMore
<1>2. CASE FlushSettle
    <2>1. TableOK'
        BY <1>2, SettleEffect DEF FlushSettle
    <2>2. FlushOK'
        BY <1>2, SettledFlush
    <2> QED
        BY <1>2, <2>1, <2>2, Frames DEF FlushSettle
<1>3. CASE FlushEnds
    BY <1>3, IdleFlush, Frames DEF FlushEnds
<1>4. CASE FlushAborts
    <2>1. /\ Fault /\ flush' = NoFlush /\ nextId' = nextId
          /\ \/ table' = table
             \/ \E S : table' = MarkRetryFailed(Without(table, flush.ok), S, TRUE)
          /\ UNCHANGED <<pending, draining, taken, delivered, garbled, dropped, lost>>
        BY <1>4 DEF FlushAborts
    <2>2. TableOK'
        BY <2>1, SettleEffect, Frames
    <2> QED
        BY <2>1, <2>2, IdleFlush, CountsType, Frames
<1>5. ASSUME NEW i \in flush.todo,
             FlushLive(i) \/ FlushBuffered(i) \/ FlushQueued(i) \/ FlushRejected(i)
      PROVE  QueueOK' /\ TableOK' /\ FlushOK' /\ CountsOK' /\ HistoryOK'
    <2>1. table[i].data \in SUBSET Readings /\ table[i].enc \in {"json", "binary", "garbled"}
        BY RowOfFlush DEF FlushRows
    <2>2. FlushOK'
        BY <1>5, SentEffect DEF FlushLive, FlushBuffered, FlushQueued, FlushRejected
    <2>3. CASE FlushLive(i)
        <3>1. HistoryOK'
            BY <2>1, <2>3, ReceiveType DEF FlushLive, HistoryOK
        <3> QED
            BY <2>2, <2>3, <3>1, Frames DEF FlushLive
    <2>4. CASE FlushBuffered(i)
        <3> DEFINE data == table[i].data
                   enc == table[i].enc
                   gone == {}
        <3>1. /\ data \in SUBSET Readings /\ nextId \notin gone
              /\ BufferPublish(data, enc, gone)
            BY <2>1, <2>4 DEF FlushBuffered
        <3> HIDE DEF data, enc, gone
        <3>2. TableOK' /\ dropped' \subseteq dropped \cup data
            BY <3>1, BufferEffect
        <3> QED
            BY <2>2, <2>4, <3>1, <3>2, Frames DEF FlushBuffered, HistoryOK
    <2>5. CASE FlushQueued(i)
        <3> DEFINE gone == {}
        <3>1. EnqueuePending(table[i].data, table[i].enc, gone) /\ lost' = lost \cup Evicted
            BY <2>5 DEF FlushQueued
        <3> HIDE DEF gone
        <3>2. /\ pending' \in Seq(Payloads) /\ Evicted \subseteq Waiting
              /\ table' = Without(table, gone) /\ nextId' = nextId
            BY <2>1, <3>1, EnqueueEffect
        <3>3. Waiting \subseteq Readings
            BY QueueData DEF Waiting, WaitingIn, QueueOK
        <3>4. TableOK'
            BY <3>2, WithoutEffect
        <3> QED
            BY <2>2, <2>5, <3>1, <3>2, <3>3, <3>4, Frames DEF FlushQueued, HistoryOK, QueueOK
    <2>6. CASE FlushRejected(i)
        BY <2>2, <2>6, CountsType, Frames DEF FlushRejected, BufferRejects
    <2> QED
        BY <1>5, <2>3, <2>4, <2>5, <2>6
<1> QED
    BY <1>1, <1>2, <1>3, <1>4, <1>5

\* Every step keeps the types.
LEMMA TypeStep ==
    ASSUME TypeOK, QueueInv, WorkInv, Next
    PROVE  TypeOK'
<1> USE DEF pubVars, linkVars, queueVars, tableVars, envVars, histVars
<1>1. /\ BatchOK /\ PluginOK /\ LinkOK /\ QueueOK
      /\ TableOK /\ FlushOK /\ CountsOK /\ HistoryOK
    BY TypeParts
<1>2. SUFFICES (/\ BatchOK /\ PluginOK /\ LinkOK /\ QueueOK
                /\ TableOK /\ FlushOK /\ CountsOK /\ HistoryOK)'
    BY TypeParts, PTL
<1>4. CASE \/ \E r \in Readings : AddMessage(r)
           \/ PublishBatch \/ DiscardUnbound
           \/ \E enc \in Encodings : PublishLive(enc)
           \/ DeleteFails \/ PersistFails \/ MarkFails
    <2>1. (BatchOK /\ HistoryOK /\ CountsOK)'
        BY <1>1, <1>4, PublisherTypes
    <2> QED
        BY <1>1, <1>4, <2>1, Frames
           DEF AddMessage, PublishBatch, DiscardUnbound, Reset, PublishLive,
               DeleteFails, PersistFails, MarkFails
<1>5. CASE \/ PublishOffline \/ PersistClaimedBatch \/ PersistRetried \/ PublishInterrupted
           \/ \E enc \in Encodings : PublishBuffered(enc) \/ PublishQueued(enc)
           \/ PublishRejected \/ PublishConfirmed \/ PublishFailed
    <2>1. (BatchOK /\ QueueOK /\ TableOK /\ CountsOK /\ HistoryOK)'
        BY <1>1, <1>5, PublisherRowTypes
    <2> QED
        BY <1>1, <1>5, <2>1, Frames
           DEF PublishOffline, PersistClaimedBatch, PersistRetried, PublishInterrupted,
               PublishBuffered, PublishQueued, PublishRejected, PublishConfirmed,
               PublishFailed, Reset
<1>6. CASE \/ Start \/ ReloadBindings \/ Connect \/ Disconnect \/ SetPublishMode
    <2>1. (PluginOK /\ LinkOK /\ QueueOK /\ CountsOK)'
        BY <1>1, <1>6, LinkTypes
    <2> QED
        BY <1>1, <1>6, <2>1, Frames
           DEF Start, ReloadBindings, Connect, Disconnect, SetPublishMode
<1>7. CASE DrainDone \/ DrainLate
    BY <1>1, <1>7, DrainTypes, Frames DEF DrainDone, DrainLate
<1>8. CASE \/ FlushBuffer \/ FlushSettle \/ FlushMore \/ FlushEnds \/ FlushAborts
           \/ \E i \in flush.todo : \/ FlushLive(i) \/ FlushBuffered(i) \/ FlushQueued(i)
                                    \/ FlushRejected(i)
    <2>1. FlushRows \subseteq Ids
        BY DEF WorkInv
    <2>2. (QueueOK /\ TableOK /\ FlushOK /\ CountsOK /\ HistoryOK)'
        BY <1>1, <1>8, <2>1, FlushTypes
    <2> QED
        BY <1>1, <1>8, <2>2, Frames
           DEF FlushBuffer, FlushSettle, FlushMore, FlushEnds, FlushAborts, FlushLive,
               FlushBuffered, FlushQueued, FlushRejected
<1>9. CASE CleanupExpired
    <2>1. TableOK' /\ dropped' = dropped \cup DataOf(table, Doomed)
        BY <1>1, <1>9, CleanupEffect
    <2>2. DataOf(table, Doomed) \subseteq Readings
        BY <1>1, InDataOf DEF Doomed, TableOK, Table, Ids, Rows
    <2> QED
        BY <1>1, <1>9, <2>1, <2>2, Frames DEF CleanupExpired, HistoryOK
<1>10. CASE \E i \in Ids : LockAges(i) \/ RetryDue(i) \/ Expire(i)
    <2>1. TableOK'
        BY <1>1, <1>10, AgeEffect
    <2> QED
        BY <1>1, <1>10, <2>1, Frames DEF LockAges, RetryDue, Expire
<1>11. CASE Crash
    <2>1. BatchOK' /\ LinkOK'
        BY <1>11 DEF Crash, BatchOK, NoPub, PubRecord, LinkOK
    <2>5. PluginOK'
        BY <1>11, NoOrphans DEF Crash, PluginOK
    <2>2. FlushOK' /\ TableOK' /\ CountsOK'
        BY <1>1, <1>11, IdleFlush, CountsType, Frames DEF Crash
    <2>4. QueueOK'
        <3>1. pending' = <<>> /\ draining' = FALSE
            BY <1>11 DEF Crash
        <3> QED
            BY <3>1, EmptySeq DEF QueueOK
    <2>3. Volatile \subseteq Readings
        <3>1. Waiting \subseteq Readings
            BY <1>1, QueueData DEF Waiting, WaitingIn, QueueOK
        <3> QED
            BY <1>1, <3>1 DEF Volatile, BatchOK
    <2> QED
        BY <1>1, <1>11, <2>1, <2>2, <2>3, <2>4, <2>5 DEF Crash, HistoryOK
<1>12. CASE Stop
    BY <1>1, <1>12, StopTypes, Frames DEF Stop
<1>13. CASE \E i \in DOMAIN orphans : OrphanEnds(i) \/ OrphanFails(i)
    <2>1. (PluginOK /\ TableOK /\ CountsOK)'
        BY <1>1, <1>13, OrphanTypes
    <2> QED
        BY <1>1, <1>13, <2>1, Frames DEF OrphanEnds, OrphanFails
<1> QED
    BY <1>4, <1>5, <1>6, <1>7, <1>8, <1>9, <1>10, <1>11, <1>12, <1>13
       DEF Next, PublishStep, FlushStep
-----------------------------------------------------------------------------
(* Locks *)

\* The memory queue is used only without a buffer service, whose end is final until a
\* restart empties the queue.
LEMMA QueueStep ==
    ASSUME TypeOK, QueueInv, WorkInv, Next
    PROVE  QueueInv'
<1> USE DEF pubVars, linkVars, queueVars
<1>1. BatchOK /\ QueueOK /\ TableOK
    BY TypeParts
<1>2. ASSUME NEW enc \in Encodings, PublishQueued(enc)
      PROVE  QueueInv'
    <2> DEFINE gone == {pub.row}
    <2>1. /\ EnqueuePending(pub.data, enc, gone) /\ bufferSync' = bufferSync
          /\ pub.data \in SUBSET Readings /\ enc \in {"json", "binary", "garbled"}
        BY <1>1, <1>2, EncodingsAssumption DEF PublishQueued, BatchOK, PubRecord
    <2> HIDE DEF gone
    <2>2. pending' # <<>> /\ bufferSync = "off"
        BY <1>1, <2>1, EnqueueEffect
    <2> QED
        BY <2>1, <2>2 DEF QueueInv
<1>3. ASSUME NEW i \in flush.todo, FlushQueued(i)
      PROVE  QueueInv'
    <2> DEFINE data == table[i].data
               enc == table[i].enc
               gone == {}
    <2>1. data \in SUBSET Readings /\ enc \in {"json", "binary", "garbled"}
        BY <1>1, RowOfFlush DEF FlushRows, WorkInv
    <2>2. EnqueuePending(data, enc, gone) /\ bufferSync' = bufferSync
        BY <1>3 DEF FlushQueued
    <2> HIDE DEF data, enc, gone
    <2>3. pending' # <<>> /\ bufferSync = "off"
        BY <1>1, <2>1, <2>2, EnqueueEffect
    <2> QED
        BY <2>2, <2>3 DEF QueueInv
<1>4. CASE Stop \/ ReloadBindings
    <2>1. StopPlugin /\ pending' = pending
        BY <1>4 DEF Stop, ReloadBindings
    <2>2. CASE plugin = "running"
        BY <2>1, <2>2 DEF StopPlugin, QueueInv
    <2>3. CASE plugin # "running"
        BY <2>1, <2>3 DEF StopPlugin, QueueInv
    <2> QED
        BY <2>2, <2>3
<1>5. CASE Connect
    <2>1. /\ draining' = (pending # <<>>) /\ pending' = pending
          /\ bufferSync = "off" => bufferSync' = "off"
        BY <1>5 DEF Connect
    <2> QED
        BY <2>1 DEF QueueInv
<1>6. CASE Disconnect
    BY <1>6 DEF Disconnect, QueueInv
<1>7. CASE DrainDone
    <2>1. draining /\ draining' = (pending' # <<>>) /\ bufferSync' = bufferSync
        BY <1>7 DEF DrainDone
    <2>2. bufferSync' = "off"
        BY <2>1 DEF QueueInv
    <2> QED
        BY <2>1, <2>2 DEF QueueInv
<1>8. CASE Crash
    BY <1>8 DEF Crash, QueueInv
<1>9. CASE UNCHANGED <<bufferSync, pending, draining>>
    BY <1>9 DEF QueueInv
<1>10. \/ \E enc \in Encodings : PublishQueued(enc)
       \/ \E i \in flush.todo : FlushQueued(i)
       \/ Stop \/ ReloadBindings \/ Connect \/ Disconnect \/ DrainDone \/ Crash
       \/ UNCHANGED <<bufferSync, pending, draining>>
    BY DEF Next, PublishStep, FlushStep, AddMessage, PublishBatch, DiscardUnbound, Reset,
           PublishOffline, PersistClaimedBatch, PublishInterrupted,
           PublishBuffered, PublishLive, PublishConfirmed, PublishFailed, PersistFails,
           PersistRetried, PublishRejected, DeleteFails, MarkFails, Start, OrphanEnds,
           OrphanFails, SetPublishMode, DrainLate, FlushBuffer, FlushSettle, FlushMore, FlushEnds, FlushLive,
           FlushBuffered, FlushRejected, FlushAborts, CleanupExpired, LockAges, RetryDue,
           Expire
<1> QED
    BY <1>2, <1>3, <1>4, <1>5, <1>6, <1>7, <1>8, <1>9, <1>10

\* The locks survive a step that hands out no row and touches none that is held.
LEMMA LocksStay ==
    ASSUME BatchOK, TableOK, TableOK', WorkInv, nextId <= nextId',
           \/ pub'.row = 0 /\ pub'.pc \in {"idle", "building"}
           \/ pub'.row = pub.row /\ pub'.pc = pub.pc
           \/ pub'.row = pub.row /\ pub.pc = "claimed" /\ pub'.pc = "sending",
           FlushRows' = {} \/ (FlushRows' = FlushRows /\ flush'.pc = flush.pc),
           FlushRows' \subseteq Ids',
           \A i \in Ids' : i \in Ids \/ i = nextId,
           \A i \in Ids \cap Ids' : i \in FlushRows' \cup {pub'.row} =>
              table'[i].status = table[i].status /\ table'[i].locked = table[i].locked
    PROVE  WorkInv'
<1>1. 0 \notin Ids /\ 0 \notin Ids' /\ nextId \in Nat \ {0} /\ nextId' \in Nat \ {0}
    BY DEF TableOK
<1>2. nextId \notin Ids
    BY DEF TableOK
<1>3. pub.pc \in {"idle", "building", "claimed", "sending"}
    BY DEF BatchOK, PubRecord
<1>4. pub'.row = 0 \/ (pub'.row = pub.row /\ pub.row # nextId)
    BY <1>1, <1>3 DEF WorkInv
<1>5. /\ pub'.pc \in {"idle", "building"} => pub'.row = 0
      /\ pub'.pc \in {"claimed", "sending"} => pub'.row \in 1 .. nextId' - 1
    BY <1>1, <1>3 DEF WorkInv
<1>6. /\ flush'.pc # "sending" => FlushRows' = {}
      /\ FlushRows' \subseteq FlushRows /\ FlushRows' \subseteq Ids
    BY DEF WorkInv
<1>7. pub'.row \notin FlushRows'
    BY <1>1, <1>4, <1>6 DEF WorkInv
<1>8. ASSUME NEW i \in FlushRows' \cup {pub'.row}, i \in Ids'
      PROVE  table'[i].status = "sending" /\ table'[i].locked = "fresh"
    <2>1. i # 0 /\ i \in FlushRows \cup {pub.row}
        BY <1>1, <1>4, <1>6, <1>8
    <2>2. i \in Ids
        BY <1>4, <1>6, <1>8, <2>1
    <2> QED
        BY <1>8, <2>1, <2>2 DEF WorkInv
<1> QED
    BY <1>5, <1>6, <1>7, <1>8 DEF WorkInv

\* A step that leaves the table and the flush alone, and gives the publisher no row.
LEMMA PublisherMoves ==
    ASSUME BatchOK, TableOK, WorkInv, UNCHANGED <<table, nextId, flush>>,
           \/ pub'.row = 0 /\ pub'.pc \in {"idle", "building"}
           \/ pub'.row = pub.row /\ pub'.pc = pub.pc
           \/ pub'.row = pub.row /\ pub.pc = "claimed" /\ pub'.pc = "sending"
    PROVE  WorkInv'
<1>1. /\ nextId <= nextId' /\ TableOK'
    BY Frames DEF TableOK
<1>2. FlushRows' = FlushRows /\ flush'.pc = flush.pc /\ FlushRows' \subseteq Ids'
    BY DEF FlushRows, WorkInv, Ids
<1>3. Ids' = Ids /\ \A i \in Ids : table'[i] = table[i]
    BY DEF Ids
<1> QED
    BY <1>1, <1>2, <1>3, LocksStay

\* The row of a publish is settled: the publisher lets go of it and does to it what it
\* wants, while the rows of the flush stay.
LEMMA PublisherSettles ==
    ASSUME BatchOK, TableOK, TableOK', FlushOK, WorkInv, Reset, flush' = flush,
           nextId <= nextId', \A i \in Ids' : i \in Ids \/ i = nextId,
           \A i \in FlushRows : i \in Ids' /\ table'[i] = table[i]
    PROVE  WorkInv'
<1>1. pub'.row = 0 /\ pub'.pc = "idle"
    BY ResetType
<1>2. FlushRows' = FlushRows /\ flush'.pc = flush.pc /\ FlushRows' \subseteq Ids'
    BY DEF FlushRows
<1>3. 0 \notin Ids'
    BY DEF TableOK
<1> QED
    BY <1>1, <1>2, <1>3, LocksStay

\* The publisher's steps that settle its row.
LEMMA SettlingWork ==
    ASSUME BatchOK, QueueOK, TableOK, TableOK', FlushOK, WorkInv,
           \/ PublishOffline \/ PersistRetried \/ PublishInterrupted
           \/ \E enc \in Encodings : PublishBuffered(enc) \/ PublishQueued(enc)
           \/ PublishRejected \/ PublishConfirmed \/ PublishFailed
    PROVE  WorkInv'
<1> USE DEF pubVars, tableVars
<1>1. pub.data \in SUBSET Readings /\ nextId \in Nat
    BY DEF BatchOK, PubRecord, TableOK
<1>2. \A i \in FlushRows : i \in Ids /\ table[i].status = "sending" /\ i # pub.row
    BY DEF WorkInv
<1>3. CASE PublishOffline \/ PersistRetried
    <2> DEFINE r == Row(pub.data, "json", "queued")
    <2>1. InsertRecord(r) /\ Reset /\ flush' = flush /\ r \in Rows
        BY <1>1, <1>3, RowType DEF PublishOffline, PersistRetried
    <2> HIDE DEF r
    <2>2. /\ nextId' = nextId + 1 /\ Ids' \subseteq Ids \cup {nextId}
          /\ \A i \in Ids \cap Ids' : table'[i] = table[i]
          /\ \A i \in Ids \ Ids' : table[i].status = "queued"
        BY <2>1, InsertEffect
    <2>3. nextId <= nextId'
        BY <1>1, <2>2
    <2> QED
        BY <1>2, <2>1, <2>2, <2>3, PublisherSettles
<1>4. CASE PublishInterrupted \/ PublishRejected \/ PublishFailed
    <2> DEFINE S == {pub.row}
    <2>1. /\ table' = MarkRetryFailed(table, S, FALSE) /\ nextId' = nextId
          /\ Reset /\ flush' = flush /\ \A i \in FlushRows : i \notin S
        BY <1>2, <1>4 DEF PublishInterrupted, PublishRejected, BufferRejects, PublishFailed
    <2> HIDE DEF S
    <2>2. Ids' = Ids /\ \A i \in Ids \ S : table'[i] = table[i]
        BY <2>1, MarkEffect
    <2>3. nextId <= nextId'
        BY <1>1, <2>1
    <2>4. \A i \in FlushRows : i \in Ids' /\ table'[i] = table[i]
        BY <1>2, <2>1, <2>2
    <2> QED
        BY <2>1, <2>2, <2>3, <2>4, PublisherSettles
<1>5. ASSUME NEW enc \in Encodings, PublishBuffered(enc)
      PROVE  WorkInv'
    <2> DEFINE gone == {pub.row}
    <2>1. /\ BufferPublish(pub.data, enc, gone) /\ Reset /\ flush' = flush
          /\ \A i \in FlushRows : i \notin gone
        BY <1>2, <1>5 DEF PublishBuffered
    <2>2. nextId \notin gone
        BY <1>5 DEF PublishBuffered, WorkInv, TableOK
    <2> HIDE DEF gone
    <2>3. /\ nextId' \in {nextId, nextId + 1}
          /\ Ids \ gone \subseteq Ids' /\ Ids' \subseteq (Ids \ gone) \cup {nextId}
          /\ \A i \in Ids \cap Ids' : table'[i] = table[i]
        BY <1>1, <2>1, <2>2, BufferEffect
    <2>4. nextId <= nextId'
        BY <1>1, <2>3
    <2> QED
        BY <1>2, <2>1, <2>3, <2>4, PublisherSettles
<1>6. CASE PublishConfirmed \/ \E enc \in Encodings : PublishQueued(enc)
    <2> DEFINE gone == {pub.row}
    <2>1. /\ table' = Without(table, gone) /\ nextId' = nextId
          /\ Reset /\ flush' = flush /\ \A i \in FlushRows : i \notin gone
        BY <1>2, <1>6 DEF PublishConfirmed, PublishQueued, EnqueuePending
    <2> HIDE DEF gone
    <2>2. Ids' = Ids \ gone /\ \A i \in Ids' : table'[i] = table[i]
        BY <2>1, WithoutEffect
    <2> QED
        BY <1>1, <1>2, <2>1, <2>2, PublisherSettles
<1> QED
    BY <1>3, <1>4, <1>5, <1>6

\* publishOnline locks a row of its own.
LEMMA ClaimedBatchWork ==
    ASSUME BatchOK, TableOK, TableOK', WorkInv, PersistClaimedBatch
    PROVE  WorkInv'
<1> DEFINE r == Row(pub.data, "json", "sending")
<1>1. pub.data \in SUBSET Readings /\ nextId \in Nat \ {0}
    BY DEF BatchOK, PubRecord, TableOK
<1>2. /\ InsertRecord(r) /\ flush' = flush
      /\ r \in Rows /\ r.status = "sending" /\ r.locked = "fresh"
      /\ pub' = [pub EXCEPT !.pc = "claimed", !.row = nextId]
    BY <1>1, RowType DEF PersistClaimedBatch
<1> HIDE DEF r
<1>3. /\ nextId' = nextId + 1 /\ Ids' \subseteq Ids \cup {nextId}
      /\ \A i \in Ids \cap Ids' : table'[i] = table[i]
      /\ nextId \in Ids' => table'[nextId] = r
      /\ \A i \in Ids \ Ids' : table[i].status = "queued"
    BY <1>2, InsertEffect
<1>4. pub'.pc = "claimed" /\ pub'.row = nextId
    BY <1>2 DEF BatchOK, PubRecord
<1>5. nextId \in 1 .. nextId' - 1 /\ nextId \notin Ids
    BY <1>1, <1>3 DEF TableOK
<1>6. /\ FlushRows' = FlushRows /\ flush'.pc = flush.pc
      /\ \A i \in FlushRows : i \in Ids /\ table[i].status = "sending" /\ table[i].locked = "fresh"
    BY <1>2 DEF FlushRows, WorkInv
<1>7. FlushRows' \subseteq Ids' /\ pub'.row \notin FlushRows'
    BY <1>3, <1>4, <1>5, <1>6
<1>8. ASSUME NEW i \in FlushRows' \cup {pub'.row}, i \in Ids'
      PROVE  table'[i].status = "sending" /\ table'[i].locked = "fresh"
    BY <1>2, <1>3, <1>4, <1>6, <1>8
<1>9. flush'.pc # "sending" => FlushRows' = {}
    BY <1>6 DEF WorkInv
<1> QED
    BY <1>4, <1>5, <1>7, <1>8, <1>9 DEF WorkInv

\* flushBuffer claims rows that nobody holds.
LEMMA ClaimWork ==
    ASSUME TableOK, TableOK', FlushOK, WorkInv, FlushBuffer \/ FlushMore
    PROVE  WorkInv'
<1>1. PICK n \in Nat : Claim(n)
    BY DEF FlushBuffer, FlushMore, FlushOK, FlushRecord
<1>2. pub' = pub /\ nextId' = nextId
    BY DEF FlushBuffer, FlushMore, pubVars
<1>3. /\ FlushOK' /\ Ids' = Ids /\ flush'.pc = "sending" /\ flush'.ok = {} /\ flush'.failed = {}
      /\ flush'.todo \subseteq {i \in Ids : table[i].status = "queued" \/ table[i].locked = "stale"}
      /\ \A i \in Ids \ flush'.todo : table'[i] = table[i]
      /\ \A i \in flush'.todo : table'[i].status = "sending" /\ table'[i].locked = "fresh"
    BY <1>1, <1>2, ClaimEffect
<1>4. FlushRows' = flush'.todo
    BY <1>3 DEF FlushRows
<1>5. pub.row \notin flush'.todo
    BY <1>3 DEF WorkInv
<1> QED
    BY <1>2, <1>3, <1>4, <1>5 DEF WorkInv

\* The other steps of the flush, and those of time.
LEMMA FlushWork ==
    ASSUME BatchOK, QueueOK, TableOK, TableOK', FlushOK, WorkInv, pub' = pub,
           \/ FlushSettle \/ FlushEnds \/ FlushAborts
           \/ \E i \in flush.todo : \/ FlushLive(i) \/ FlushBuffered(i) \/ FlushQueued(i)
                                    \/ FlushRejected(i)
           \/ CleanupExpired
           \/ \E i \in Ids : LockAges(i) \/ RetryDue(i) \/ Expire(i)
    PROVE  WorkInv'
<1> USE DEF tableVars
<1>1. nextId \in Nat /\ pub.row \notin FlushRows /\ FlushRows \subseteq Ids
    BY DEF TableOK, WorkInv
<1>2. CASE FlushSettle \/ FlushAborts
    <2>1. FlushRows' = {} /\ nextId' = nextId
        BY <1>1, <1>2, SettledFlush, IdleFlush DEF FlushSettle, FlushAborts
    <2>2. \/ table' = table
          \/ \E F \in SUBSET flush.failed :
                table' = MarkRetryFailed(Without(table, flush.ok), F, TRUE)
        BY <1>2 DEF FlushSettle, FlushAborts
    <2>3. Ids' \subseteq Ids /\ \A i \in Ids' \ FlushRows : table'[i] = table[i]
        <3>1. CASE table' = table
            BY <3>1 DEF Ids
        <3>2. CASE table' # table
            <4>1. PICK F \in SUBSET flush.failed :
                     table' = MarkRetryFailed(Without(table, flush.ok), F, TRUE)
                BY <2>2, <3>2
            <4>2. Ids' = Ids \ flush.ok /\ \A i \in Ids' \ F : table'[i] = table[i]
                BY <2>1, <4>1, SettleEffect
            <4> QED
                BY <4>2 DEF FlushRows
        <3> QED
            BY <3>1, <3>2
    <2> QED
        BY <1>1, <2>1, <2>3, LocksStay
<1>3. CASE FlushEnds
    <2>1. FlushRows' = {} /\ nextId' = nextId /\ table' = table
        BY <1>3, IdleFlush DEF FlushEnds
    <2> QED
        BY <1>1, <2>1, LocksStay DEF Ids
<1>4. ASSUME NEW i \in flush.todo,
             FlushLive(i) \/ FlushBuffered(i) \/ FlushQueued(i) \/ FlushRejected(i)
      PROVE  WorkInv'
    <2>1. FlushRows' = FlushRows /\ flush'.pc = flush.pc
        BY <1>4, SentEffect DEF FlushLive, FlushBuffered, FlushQueued, FlushRejected
    <2>2. /\ nextId <= nextId' /\ Ids \subseteq Ids' /\ Ids' \subseteq Ids \cup {nextId}
          /\ \A j \in Ids : table'[j] = table[j]
        <3>1. CASE FlushLive(i) \/ FlushRejected(i)
            <4>1. table' = table /\ nextId' = nextId
                BY <3>1 DEF FlushLive, FlushRejected
            <4> QED
                BY <1>1, <4>1 DEF Ids
        <3>2. CASE FlushBuffered(i)
            <4> DEFINE data == table[i].data
                       enc == table[i].enc
                       gone == {}
            <4>1. data \in SUBSET Readings /\ nextId \notin gone
                BY <1>1, RowOfFlush DEF FlushRows
            <4>2. BufferPublish(data, enc, gone) /\ Ids \ gone = Ids
                BY <3>2 DEF FlushBuffered
            <4> HIDE DEF data, enc, gone
            <4>3. /\ nextId' \in {nextId, nextId + 1}
                  /\ Ids \ gone \subseteq Ids' /\ Ids' \subseteq (Ids \ gone) \cup {nextId}
                  /\ \A j \in Ids \cap Ids' : table'[j] = table[j]
                BY <4>1, <4>2, BufferEffect
            <4>4. nextId <= nextId'
                BY <1>1, <4>3
            <4> QED
                BY <4>2, <4>3, <4>4
        <3>3. CASE FlushQueued(i)
            <4> DEFINE gone == {}
            <4>1. table' = Without(table, gone) /\ nextId' = nextId /\ Ids \ gone = Ids
                BY <3>3 DEF FlushQueued, EnqueuePending
            <4> HIDE DEF gone
            <4>2. Ids' = Ids \ gone /\ \A j \in Ids' : table'[j] = table[j]
                BY <4>1, WithoutEffect
            <4> QED
                BY <1>1, <4>1, <4>2
        <3> QED
            BY <1>4, <3>1, <3>2, <3>3
    <2> QED
        BY <1>1, <2>1, <2>2, LocksStay
<1>5. CASE CleanupExpired
    <2>1. /\ Ids' \subseteq Ids /\ flush' = flush /\ nextId' = nextId /\ flush.pc = "idle"
          /\ \A i \in Ids' : table[i].locked # "stale" => table'[i] = table[i]
        BY <1>5, CleanupEffect DEF CleanupExpired
    <2>2. FlushRows' = FlushRows /\ flush'.pc = flush.pc /\ FlushRows = {}
        BY <2>1 DEF FlushRows, WorkInv
    <2>3. pub.row \in Ids' => table'[pub.row] = table[pub.row]
        BY <2>1 DEF WorkInv
    <2> QED
        BY <1>1, <2>1, <2>2, <2>3, LocksStay
<1>6. ASSUME NEW i \in Ids, LockAges(i) \/ RetryDue(i) \/ Expire(i)
      PROVE  WorkInv'
    <2>1. flush' = flush /\ nextId' = nextId
        BY <1>6 DEF LockAges, RetryDue, Expire
    <2>2. /\ Ids' = Ids
          /\ \A j \in Ids : table'[j].status = table[j].status
          /\ \A j \in Ids : j \in Held => table'[j].locked = table[j].locked
        BY <1>6, AgeEffect
    <2>3. FlushRows' = FlushRows /\ flush'.pc = flush.pc
        BY <2>1 DEF FlushRows
    <2>4. \A j \in Ids : j \in FlushRows \cup {pub.row} => j \in Held
        BY DEF FlushRows, Held, TableOK
    <2> QED
        BY <1>1, <2>1, <2>2, <2>3, <2>4, LocksStay
<1> QED
    BY <1>2, <1>3, <1>4, <1>5, <1>6

\* What a stopped manager does to the row of its publish: the row is queued, or goes.
LEMMA OrphanEffect ==
    ASSUME TableOK, NEW i \in DOMAIN orphans, OrphanEnds(i)
    PROVE  /\ nextId' = nextId /\ Ids \ {i} \subseteq Ids' /\ Ids' \subseteq Ids
           /\ \A j \in Ids' : table'[j].data = table[j].data
           /\ \A j \in Ids' : j # i => table'[j] = table[j]
           /\ i \in Ids /\ i \notin Ids' => orphans[i]
           /\ DOMAIN orphans' = DOMAIN orphans \ {i}
           /\ \A j \in DOMAIN orphans' : orphans'[j] = orphans[j]
<1> DEFINE S == {i}
<1>1. /\ nextId' = nextId /\ orphans' = Without(orphans, S)
      /\ \/ table' = MarkRetryFailed(table, S, FALSE)
         \/ orphans[i] /\ table' = Without(table, S)
      /\ \A j : j \in S <=> j = i
    BY DEF OrphanEnds
<1> HIDE DEF S
<1>2. /\ DOMAIN orphans' = DOMAIN orphans \ {i}
      /\ \A j \in DOMAIN orphans' : orphans'[j] = orphans[j]
    BY <1>1 DEF Without
<1>3. CASE table' = MarkRetryFailed(table, S, FALSE)
    <2>1. /\ Ids' = Ids
          /\ \A j \in Ids : table'[j].data = table[j].data
          /\ \A j \in Ids \ S : table'[j] = table[j]
        BY <1>1, <1>3, MarkEffect
    <2> QED
        BY <1>1, <1>2, <2>1
<1>4. CASE orphans[i] /\ table' = Without(table, S)
    <2>1. Ids' = Ids \ S /\ \A j \in Ids' : table'[j] = table[j]
        BY <1>1, <1>4, WithoutEffect
    <2> QED
        BY <1>1, <1>2, <1>4, <2>1
<1> QED
    BY <1>1, <1>3, <1>4

\* It touches no row of the publish under way or of the flush.
LEMMA OrphanWork ==
    ASSUME BatchOK, TableOK, TableOK', FlushOK, WorkInv, OrphanInv,
           \E i \in DOMAIN orphans : OrphanEnds(i)
    PROVE  WorkInv'
<1>1. PICK i \in DOMAIN orphans : OrphanEnds(i)
    OBVIOUS
<1>2. /\ nextId' = nextId /\ Ids \ {i} \subseteq Ids' /\ Ids' \subseteq Ids
      /\ \A j \in Ids' : j # i => table'[j] = table[j]
    BY <1>1, OrphanEffect
<1>3. pub' = pub /\ flush' = flush
    BY <1>1 DEF OrphanEnds
<1>4. FlushRows' = FlushRows /\ flush'.pc = flush.pc /\ FlushRows \subseteq Ids
    BY <1>3 DEF FlushRows, WorkInv
<1>5. i \notin FlushRows /\ i # pub.row
    BY DEF OrphanInv
<1>6. nextId <= nextId'
    BY <1>2 DEF TableOK
<1> QED
    BY <1>2, <1>3, <1>4, <1>5, <1>6, LocksStay

\* Every step keeps the locks.
LEMMA WorkStep ==
    ASSUME TypeOK, QueueInv, WorkInv, OrphanInv, Next
    PROVE  WorkInv'
<1> USE DEF pubVars, linkVars, queueVars, tableVars, envVars, histVars
<1>1. BatchOK /\ QueueOK /\ TableOK /\ FlushOK
    BY TypeParts
<1>2. BatchOK' /\ TableOK'
    BY TypeStep, TypeParts, PTL
<1>3. CASE \/ \E r \in Readings : AddMessage(r)
           \/ Start \/ ReloadBindings \/ \E i \in DOMAIN orphans : OrphanFails(i)
           \/ Connect \/ Disconnect \/ SetPublishMode \/ DrainDone \/ DrainLate
    <2>1. UNCHANGED <<table, nextId, flush, pub>>
        BY <1>3 DEF AddMessage, Start, ReloadBindings, OrphanFails, Connect, Disconnect,
                    SetPublishMode, DrainDone, DrainLate
    <2> QED
        BY <1>1, <2>1, PublisherMoves
<1>4. CASE \/ PublishBatch \/ DiscardUnbound
           \/ \E enc \in Encodings : PublishLive(enc)
           \/ PersistFails \/ DeleteFails \/ MarkFails
    <2>1. UNCHANGED <<table, nextId, flush>>
        BY <1>4 DEF PublishBatch, DiscardUnbound, PublishLive, PersistFails,
                    DeleteFails, MarkFails
    <2>2. ASSUME PublishBatch
          PROVE  \/ pub'.row = 0 /\ pub'.pc \in {"idle", "building"}
                 \/ pub.pc = "claimed" /\ pub'.pc = "sending" /\ pub'.row = pub.row
        BY <2>2 DEF PublishBatch, NoPub
    <2>3. ASSUME DiscardUnbound \/ PersistFails \/ DeleteFails \/ MarkFails
          PROVE  \/ pub'.row = 0 /\ pub'.pc \in {"idle", "building"}
                 \/ pub.pc = "claimed" /\ pub'.pc = "sending" /\ pub'.row = pub.row
        <3>1. pub' = NoPub
            BY <2>3 DEF DiscardUnbound, Reset, PersistFails, DeleteFails, MarkFails
        <3> QED
            BY <3>1 DEF NoPub
    <2>4. ASSUME \E enc \in Encodings : PublishLive(enc)
          PROVE  \/ pub'.row = 0 /\ pub'.pc \in {"idle", "building"}
                 \/ pub.pc = "claimed" /\ pub'.pc = "sending" /\ pub'.row = pub.row
        BY <1>1, <2>4 DEF PublishLive, BatchOK, PubRecord
    <2>5. \/ pub'.row = 0 /\ pub'.pc \in {"idle", "building"}
          \/ pub.pc = "claimed" /\ pub'.pc = "sending" /\ pub'.row = pub.row
        BY <1>4, <2>2, <2>3, <2>4
    <2> QED
        BY <1>1, <2>1, <2>5, PublisherMoves
<1>5. CASE \/ PublishOffline \/ PersistRetried \/ PublishInterrupted
           \/ \E enc \in Encodings : PublishBuffered(enc) \/ PublishQueued(enc)
           \/ PublishRejected \/ PublishConfirmed \/ PublishFailed
    BY <1>1, <1>2, <1>5, SettlingWork
<1>6. CASE PersistClaimedBatch
    BY <1>1, <1>2, <1>6, ClaimedBatchWork
<1>7. CASE FlushBuffer \/ FlushMore
    BY <1>1, <1>2, <1>7, ClaimWork
<1>8. CASE \/ FlushSettle \/ FlushEnds \/ FlushAborts
           \/ \E i \in flush.todo : \/ FlushLive(i) \/ FlushBuffered(i) \/ FlushQueued(i)
                                    \/ FlushRejected(i)
           \/ CleanupExpired
           \/ \E i \in Ids : LockAges(i) \/ RetryDue(i) \/ Expire(i)
    <2>1. pub' = pub
        BY <1>8 DEF FlushSettle, FlushEnds, FlushAborts, FlushLive, FlushBuffered, FlushQueued,
                    FlushRejected, CleanupExpired, LockAges, RetryDue, Expire
    <2> QED
        BY <1>1, <1>2, <1>8, <2>1, FlushWork
<1>9. CASE Crash
    <2>1. FlushRows' = {} /\ pub'.row = 0 /\ pub'.pc = "idle"
        BY <1>9, IdleFlush DEF Crash, NoPub
    <2>2. 0 \notin Ids'
        <3>1. Ids' = Ids
            BY <1>9 DEF Crash, Ids
        <3>2. 0 \notin Ids
            BY <1>1 DEF TableOK
        <3> QED
            BY <3>1, <3>2
    <2>3. \A i \in FlushRows' \cup {pub'.row} : i \notin Ids'
        BY <2>1, <2>2
    <2> QED
        BY <2>1, <2>3 DEF WorkInv
<1>10. CASE Stop
    <2>1. UNCHANGED <<table, nextId, flush>> /\ pub'.row = 0 /\ pub'.pc = "idle"
        BY <1>10 DEF Stop, NoPub
    <2> QED
        BY <1>1, <2>1, PublisherMoves
<1>11. CASE \E i \in DOMAIN orphans : OrphanEnds(i)
    BY <1>1, <1>2, <1>11, OrphanWork
<1> QED
    BY <1>3, <1>4, <1>5, <1>6, <1>7, <1>8, <1>9, <1>10, <1>11 DEF Next, PublishStep, FlushStep
-----------------------------------------------------------------------------
(* Where the readings go *)

\* DataInv in two halves: the publish under way, and the rows that were flushed.
PubData ==
    /\ pub.pc = "idle" => pub.data = {}
    /\ pub.data \subseteq batch
    /\ pub.pc \in {"claimed", "sending"} =>
          IF pub.row \in Ids THEN table[pub.row].data = pub.data ELSE pub.data \subseteq dropped
    /\ pub.arrived => pub.data \subseteq delivered \cup garbled
FlushData == \A i \in flush.ok : table[i].data \subseteq Kept

LEMMA DataParts ==
    DataInv <=> PubData /\ FlushData
BY DEF DataInv, PubData, FlushData

\* What a step other than a crash may do to the readings.
Moves ==
    /\ taken \subseteq taken' /\ taken' \subseteq taken \cup batch'
    /\ batch' \subseteq batch \cup (taken' \ taken)
    /\ Durable' \subseteq Copies /\ Waiting' \subseteq Copies
    /\ delivered \subseteq delivered' /\ delivered' \subseteq delivered \cup Copies
    /\ garbled \subseteq garbled' /\ garbled' \subseteq garbled \cup Copies
    /\ dropped \subseteq dropped' /\ dropped' \subseteq dropped \cup Copies
    /\ lost \subseteq lost' /\ lost' \subseteq lost \cup Copies
    /\ Kept \subseteq Kept'
    /\ Waiting \subseteq Waiting' \cup lost' \cup delivered' \cup garbled'
    /\ batch \subseteq batch' \cup Kept' \cup Waiting' \cup lost'

LEMMA KeptParts ==
    /\ delivered \cup garbled \cup dropped \subseteq Kept
    /\ \A i \in Ids \ flush.ok : table[i].data \subseteq Kept
    /\ bufferSync = "off" => Waiting \cup lost \subseteq Kept
    /\ \A r \in Kept : \/ r \in delivered \cup garbled \cup dropped
                       \/ \E i \in Ids \ flush.ok : r \in table[i].data
                       \/ bufferSync = "off" /\ r \in Waiting \cup lost
<1>1. \A r : r \in DataOf(table, Ids \ flush.ok) <=> \E i \in Ids \ flush.ok : r \in table[i].data
    BY InDataOf
<1>2. CASE bufferSync = "off"
    BY <1>1, <1>2 DEF Kept
<1>3. CASE bufferSync # "off"
    BY <1>1, <1>3 DEF Kept
<1> QED
    BY <1>2, <1>3

\* The same for the state a step leads to.
LEMMA KeptPartsNext ==
    /\ delivered' \cup garbled' \cup dropped' \subseteq Kept'
    /\ \A i \in Ids' \ flush'.ok : table'[i].data \subseteq Kept'
    /\ bufferSync' = "off" => Waiting' \cup lost' \subseteq Kept'
    /\ \A r \in Kept' : \/ r \in delivered' \cup garbled' \cup dropped'
                        \/ \E i \in Ids' \ flush'.ok : r \in table'[i].data
                        \/ bufferSync' = "off" /\ r \in Waiting' \cup lost'
<1>1. \A r : r \in DataOf(table', Ids' \ flush'.ok)
                 <=> \E i \in Ids' \ flush'.ok : r \in table'[i].data
    BY InDataOf
<1>2. CASE bufferSync' = "off"
    BY <1>1, <1>2 DEF Kept
<1>3. CASE bufferSync' # "off"
    BY <1>1, <1>3 DEF Kept
<1> QED
    BY <1>2, <1>3

LEMMA InDurable ==
    /\ \A i \in Ids : table[i].data \subseteq Durable
    /\ \A r \in Durable : \E i \in Ids : r \in table[i].data
    /\ \A i \in Ids' : table'[i].data \subseteq Durable'
    /\ \A r \in Durable' : \E i \in Ids' : r \in table'[i].data
<1>1. \A r : r \in Durable <=> \E i \in Ids : r \in table[i].data
    BY InDataOf DEF Durable
<1>2. \A r : r \in Durable' <=> \E i \in Ids' : r \in table'[i].data
    BY InDataOf DEF Durable
<1> QED
    BY <1>1, <1>2

\* Every row has its readings elsewhere when the flush is about to delete it.
LEMMA DurableIsKept ==
    ASSUME FlushData
    PROVE  Durable \subseteq Kept
<1>1. SUFFICES ASSUME NEW r \in Durable PROVE r \in Kept
    OBVIOUS
<1>2. PICK i \in Ids : r \in table[i].data
    BY InDurable
<1> QED
    BY <1>2, KeptParts DEF FlushData

\* What has to be looked at in a step: the rows that go or are flushed, the new rows,
\* and the readings that leave the batch or the memory queue.
LEMMA MovesBy ==
    ASSUME FlushData,
           taken \subseteq taken', taken' \subseteq taken \cup batch',
           batch' \subseteq batch \cup (taken' \ taken),
           delivered \subseteq delivered', delivered' \subseteq delivered \cup Copies,
           garbled \subseteq garbled', garbled' \subseteq garbled \cup Copies,
           dropped \subseteq dropped', dropped' \subseteq dropped \cup Copies,
           lost \subseteq lost', lost' \subseteq lost \cup Copies,
           bufferSync = "off" => bufferSync' = "off",
           Waiting \subseteq Waiting' \cup lost' \cup delivered' \cup garbled',
           Waiting' \subseteq Copies,
           batch \subseteq batch' \cup Kept' \cup Waiting' \cup lost',
           \A i \in Ids \ flush.ok : \/ i \in Ids' \ flush'.ok /\ table'[i].data = table[i].data
                                     \/ table[i].data \subseteq Kept',
           \A i \in Ids' : \/ i \in Ids /\ table'[i].data = table[i].data
                           \/ table'[i].data \subseteq Copies,
           \A i \in flush'.ok : \/ i \in flush.ok /\ table'[i].data = table[i].data
                                \/ table'[i].data \subseteq Kept'
    PROVE  Moves /\ FlushData'
<1>1. ASSUME NEW r \in Kept
      PROVE  r \in Kept'
    <2>1. CASE r \in delivered \cup garbled \cup dropped
        BY <2>1, KeptPartsNext
    <2>2. CASE \E i \in Ids \ flush.ok : r \in table[i].data
        BY <2>2, KeptPartsNext
    <2>3. CASE bufferSync = "off" /\ r \in Waiting \cup lost
        BY <2>3, KeptPartsNext
    <2> QED
        BY <2>1, <2>2, <2>3, KeptParts
<1>2. FlushData'
    BY <1>1 DEF FlushData
<1>3. ASSUME NEW r \in Durable'
      PROVE  r \in Copies
    <2>1. PICK i \in Ids' : r \in table'[i].data
        BY InDurable
    <2> QED
        BY <2>1, InDurable DEF Copies
<1> QED
    BY <1>1, <1>2, <1>3 DEF Moves

\* A step in which no reading changes hands.
LEMMA QuietMoves ==
    ASSUME FlushData, UNCHANGED <<pending, delivered, garbled, dropped, lost>>,
           bufferSync = "off" => bufferSync' = "off",
           \/ batch' = batch /\ taken' = taken
           \/ \E r : r \notin taken /\ batch' = batch \cup {r} /\ taken' = taken \cup {r},
           Ids' \subseteq Ids, \A i \in Ids' : table'[i].data = table[i].data,
           Ids \ flush.ok \subseteq Ids', flush'.ok \subseteq flush.ok, flush'.ok \subseteq Ids'
    PROVE  Moves /\ FlushData'
<1>1. Waiting' = Waiting
    BY DEF Waiting
<1>2. Waiting \subseteq Copies
    BY DEF Copies
<1>3. /\ taken \subseteq taken' /\ taken' \subseteq taken \cup batch'
      /\ batch \subseteq batch' /\ batch' \subseteq batch \cup (taken' \ taken)
    OBVIOUS
<1> QED
    BY <1>1, <1>2, <1>3, MovesBy

\* The publish under way, when its step is not the one that is taken.
LEMMA PubDataStays ==
    ASSUME PubData, pub' = pub, batch \subseteq batch', delivered \subseteq delivered',
           garbled \subseteq garbled', dropped \subseteq dropped',
           pub.pc \in {"claimed", "sending"} =>
              IF pub.row \in Ids'
              THEN pub.row \in Ids /\ table'[pub.row].data = table[pub.row].data
              ELSE pub.row \in Ids => table[pub.row].data \subseteq dropped'
    PROVE  PubData'
<1>1. pub.pc \in {"claimed", "sending"} =>
         IF pub.row \in Ids' THEN table'[pub.row].data = pub.data ELSE pub.data \subseteq dropped'
    BY DEF PubData
<1> QED
    BY <1>1 DEF PubData

\* No publish is under way.
LEMMA PubDataIdle ==
    ASSUME pub' = NoPub
    PROVE  PubData'
BY DEF PubData, NoPub

\* The endpoint, the link and the timers move no reading.
LEMMA QuietData ==
    ASSUME TypeOK, TypeOK', WorkInv, WorkInv', PubData, FlushData,
           \/ \E r \in Readings : AddMessage(r)
           \/ PublishBatch \/ PersistFails \/ MarkFails
           \/ Start \/ ReloadBindings \/ \E i \in DOMAIN orphans : OrphanFails(i)
           \/ Connect \/ Disconnect \/ SetPublishMode
    PROVE  Moves /\ PubData' /\ FlushData'
<1> USE DEF pubVars, linkVars, queueVars, tableVars, envVars, histVars
<1>1. BatchOK /\ TableOK /\ FlushOK
    BY TypeParts
<1>2. UNCHANGED <<pending, table, flush, delivered, garbled, dropped, lost>>
    BY DEF AddMessage, PublishBatch, PersistFails, MarkFails, Start, OrphanFails,
           ReloadBindings, Connect, Disconnect, SetPublishMode
<1>3. bufferSync = "off" => bufferSync' = "off"
    BY DEF AddMessage, PublishBatch, PersistFails, MarkFails, Start, OrphanFails,
           ReloadBindings, StopPlugin, Connect, Disconnect, SetPublishMode
<1>4. \/ batch' = batch /\ taken' = taken
      \/ \E r : r \notin taken /\ batch' = batch \cup {r} /\ taken' = taken \cup {r}
    BY DEF AddMessage, PublishBatch, PersistFails, MarkFails, Start, OrphanFails,
           ReloadBindings, Connect, Disconnect, SetPublishMode
<1>5. /\ Ids' = Ids /\ flush'.ok = flush.ok /\ flush.ok \subseteq Ids
      /\ \A i \in Ids : table'[i].data = table[i].data
    BY <1>2 DEF Ids, WorkInv, FlushRows
<1>6. Moves /\ FlushData'
    BY <1>2, <1>3, <1>4, <1>5, QuietMoves
<1>7. PubData'
    <2>1. CASE PublishBatch
        BY <2>1 DEF PublishBatch, NoPub, PubData
    <2>2. CASE PersistFails \/ MarkFails
        BY <2>2, PubDataIdle DEF PersistFails, MarkFails
    <2>3. CASE \/ \E r \in Readings : AddMessage(r)
               \/ Start \/ ReloadBindings \/ \E i \in DOMAIN orphans : OrphanFails(i)
               \/ Connect \/ Disconnect \/ SetPublishMode
        <3>1. pub' = pub /\ batch \subseteq batch'
            BY <2>3 DEF AddMessage, Start, ReloadBindings, OrphanFails, Connect, Disconnect,
                        SetPublishMode
        <3> QED
            BY <1>2, <1>5, <3>1, PubDataStays
    <2> QED
        BY <2>1, <2>2, <2>3
<1> QED
    BY <1>6, <1>7

\* A flush that claims, settles or ends, and the passing of time, move no reading.
LEMMA QuietFlushData ==
    ASSUME TypeOK, TypeOK', WorkInv, WorkInv', PubData, FlushData,
           \/ FlushBuffer \/ FlushMore \/ FlushSettle \/ FlushEnds \/ FlushAborts
           \/ \E i \in flush.todo : FlushRejected(i)
           \/ \E i \in Ids : LockAges(i) \/ RetryDue(i) \/ Expire(i)
    PROVE  Moves /\ PubData' /\ FlushData'
<1> USE DEF pubVars, linkVars, queueVars, tableVars, envVars, histVars
<1>1. BatchOK /\ TableOK /\ FlushOK
    BY TypeParts
<1>2. UNCHANGED <<batch, pub, bufferSync, pending, taken, delivered, garbled, dropped, lost>>
    BY DEF FlushBuffer, FlushMore, FlushSettle, FlushEnds, FlushAborts, FlushRejected,
           LockAges, RetryDue, Expire
<1>3. /\ Ids' \subseteq Ids /\ Ids \ flush.ok \subseteq Ids' /\ flush'.ok \subseteq flush.ok
      /\ \A i \in Ids' : table'[i].data = table[i].data
    <2>1. CASE FlushBuffer \/ FlushMore
        <3>1. PICK n \in Nat : Claim(n)
            BY <1>1, <2>1 DEF FlushBuffer, FlushMore, FlushOK, FlushRecord
        <3>2. nextId' = nextId
            BY <2>1 DEF FlushBuffer, FlushMore
        <3> QED
            BY <1>1, <3>1, <3>2, ClaimEffect
    <2>2. CASE FlushSettle
        <3>1. FlushRows \subseteq Ids
            BY DEF WorkInv
        <3>2. flush'.ok = {}
            BY <1>1, <2>2, <3>1, SettledFlush
        <3>3. Ids' = Ids \ flush.ok /\ \A i \in Ids' : table'[i].data = table[i].data
            BY <1>1, <2>2, SettleEffect DEF FlushSettle
        <3> QED
            BY <3>2, <3>3
    <2>3. CASE FlushAborts
        <3>1. flush'.ok = {} /\ nextId' = nextId
            BY <2>3, IdleFlush DEF FlushAborts
        <3>2. CASE table' = table
            BY <3>1, <3>2 DEF Ids
        <3>3. CASE table' # table
            <4>1. PICK S : table' = MarkRetryFailed(Without(table, flush.ok), S, TRUE)
                BY <2>3, <3>3 DEF FlushAborts
            <4>2. Ids' = Ids \ flush.ok /\ \A i \in Ids' : table'[i].data = table[i].data
                BY <1>1, <3>1, <4>1, SettleEffect
            <4> QED
                BY <3>1, <4>2
        <3> QED
            BY <3>2, <3>3
    <2>4. CASE FlushEnds
        <3>1. flush'.ok = {} /\ table' = table
            BY <2>4, IdleFlush DEF FlushEnds
        <3> QED
            BY <3>1 DEF Ids
    <2>5. ASSUME NEW i \in flush.todo, FlushRejected(i)
          PROVE  /\ Ids' = Ids /\ flush'.ok = flush.ok
                 /\ \A j \in Ids' : table'[j].data = table[j].data
        <3>1. table' = table /\ Sent(i, FALSE)
            BY <2>5 DEF FlushRejected
        <3>2. flush'.ok = flush.ok
            BY <1>1, <3>1 DEF Sent, FlushOK, FlushRecord
        <3> QED
            BY <3>1, <3>2 DEF Ids
    <2>6. ASSUME NEW i \in Ids, LockAges(i) \/ RetryDue(i) \/ Expire(i)
          PROVE  /\ Ids' = Ids /\ flush' = flush
                 /\ \A j \in Ids' : table'[j].data = table[j].data
        <3>1. flush' = flush
            BY <2>6 DEF LockAges, RetryDue, Expire
        <3>2. Ids' = Ids /\ \A j \in Ids : table'[j].data = table[j].data
            BY <1>1, <2>6, AgeEffect
        <3> QED
            BY <3>1, <3>2
    <2> QED
        BY <2>1, <2>2, <2>3, <2>4, <2>5, <2>6
<1>4. flush'.ok \subseteq Ids' /\ pub.row \notin flush.ok
    BY DEF WorkInv, FlushRows
<1>5. Moves /\ FlushData'
    BY <1>2, <1>3, <1>4, QuietMoves
<1>6. PubData'
    <2>1. pub.row \in Ids <=> pub.row \in Ids'
        BY <1>3, <1>4
    <2> QED
        BY <1>2, <1>3, <2>1, PubDataStays
<1> QED
    BY <1>5, <1>6

\* The end of a publish: its payload must be kept elsewhere, and what else was in the
\* batch counts as lost.
LEMMA SettleMoves ==
    ASSUME PubData, FlushData, flush.ok \subseteq Ids, Reset,
           UNCHANGED <<flush, bufferSync, taken, delivered, garbled>>,
           dropped \subseteq dropped', dropped' \subseteq dropped \cup Copies,
           lost \cup Wiped \subseteq lost', lost' \subseteq lost \cup Wiped \cup Waiting,
           Waiting \subseteq Waiting' \cup lost' \cup delivered,
           Waiting' \subseteq Waiting \cup batch,
           pub.data \subseteq Kept',
           \A i \in Ids : \/ i \in Ids' /\ table'[i].data = table[i].data
                          \/ i \notin flush.ok /\ table[i].data \subseteq Kept',
           \A i \in Ids' : \/ i \in Ids /\ table'[i].data = table[i].data
                           \/ table'[i].data \subseteq batch
    PROVE  Moves /\ PubData' /\ FlushData'
<1>1. batch' = {} /\ pub' = NoPub
    BY DEF Reset
<1>2. batch \subseteq Copies /\ Waiting \subseteq Copies
    BY DEF Copies
<1>3. batch \subseteq Kept' \cup lost' /\ Wiped \subseteq batch
    BY DEF Wiped
<1>4. Moves /\ FlushData'
    <2>1. lost \subseteq lost' /\ lost' \subseteq lost \cup Copies
        BY <1>2, <1>3
    <2>2. /\ Waiting \subseteq Waiting' \cup lost' \cup delivered' \cup garbled'
          /\ Waiting' \subseteq Copies
        BY <1>2
    <2>3. batch \subseteq batch' \cup Kept' \cup Waiting' \cup lost'
        BY <1>3
    <2>4. /\ taken \subseteq taken' /\ taken' \subseteq taken \cup batch'
          /\ batch' \subseteq batch \cup (taken' \ taken)
        BY <1>1
    <2>5. \A i \in Ids \ flush.ok :
             \/ i \in Ids' \ flush'.ok /\ table'[i].data = table[i].data
             \/ table[i].data \subseteq Kept'
        OBVIOUS
    <2>6. \A i \in Ids' : \/ i \in Ids /\ table'[i].data = table[i].data
                          \/ table'[i].data \subseteq Copies
        BY <1>2
    <2>7. \A i \in flush'.ok : i \in flush.ok /\ table'[i].data = table[i].data
        OBVIOUS
    <2> QED
        BY <2>1, <2>2, <2>3, <2>4, <2>5, <2>6, <2>7, MovesBy
<1> QED
    BY <1>1, <1>4, PubDataIdle

\* The publisher's steps that end a publish.
LEMMA SettlingData ==
    ASSUME TypeOK, WorkInv, PubData, FlushData,
           \/ DiscardUnbound \/ PublishOffline \/ PersistRetried \/ PublishInterrupted
           \/ \E enc \in Encodings : PublishBuffered(enc) \/ PublishQueued(enc)
           \/ PublishRejected \/ PublishConfirmed \/ DeleteFails \/ PublishFailed
    PROVE  Moves /\ PubData' /\ FlushData'
<1> USE DEF pubVars, linkVars, queueVars, tableVars, histVars
<1>1. BatchOK /\ QueueOK /\ TableOK /\ FlushOK
    BY TypeParts
<1>2. /\ pub.data \in SUBSET Readings /\ pub.data \subseteq batch
      /\ flush.ok \subseteq Ids /\ pub.row \notin flush.ok /\ nextId \notin Ids
      /\ \A i \in flush.ok : table[i].status = "sending"
    BY <1>1 DEF BatchOK, PubRecord, PubData, WorkInv, FlushRows, TableOK
<1>3. batch \subseteq Copies /\ Durable \subseteq Copies
    BY DEF Copies
<1>4. CASE DiscardUnbound \/ DeleteFails
    <2>1. /\ Reset /\ lost' = lost \cup Wiped
          /\ UNCHANGED <<flush, bufferSync, pending, table, taken, delivered, garbled, dropped>>
        BY <1>4 DEF DiscardUnbound, DeleteFails
    <2>2. pub.data \subseteq delivered' \cup garbled'
        BY <1>4, <2>1 DEF DiscardUnbound, DeleteFails, PubData
    <2>3. pub.data \subseteq Kept'
        BY <2>2, KeptPartsNext
    <2>4. Waiting' = Waiting /\ Ids' = Ids
        BY <2>1 DEF Waiting, Ids
    <2> QED
        BY <1>2, <2>1, <2>3, <2>4, SettleMoves
<1>5. CASE PublishOffline \/ PersistRetried
    <2> DEFINE r == Row(pub.data, "json", "queued")
    <2>1. /\ InsertRecord(r) /\ Reset /\ lost' = lost \cup Wiped
          /\ UNCHANGED <<flush, bufferSync, pending, taken, delivered, garbled>>
        BY <1>5 DEF PublishOffline, PersistRetried
    <2>2. r \in Rows /\ r.data = pub.data
        BY <1>2, RowType
    <2> HIDE DEF r
    <2>3. /\ Ids' \subseteq Ids \cup {nextId}
          /\ \A i \in Ids \cap Ids' : table'[i] = table[i]
          /\ nextId \in Ids' => table'[nextId] = r
          /\ \A i \in Ids \ Ids' : table[i].status = "queued" /\ table[i].data \subseteq dropped'
          /\ nextId \notin Ids' => r.data \subseteq dropped'
          /\ dropped \subseteq dropped' /\ dropped' \subseteq dropped \cup r.data \cup Durable
        BY <1>1, <2>1, <2>2, InsertEffect
    <2>4. pub.data \subseteq Kept'
        BY <1>2, <2>1, <2>2, <2>3, KeptPartsNext
    <2>5. Waiting' = Waiting
        BY <2>1 DEF Waiting
    <2>6. \A i \in Ids : \/ i \in Ids' /\ table'[i].data = table[i].data
                         \/ i \notin flush.ok /\ table[i].data \subseteq Kept'
        BY <1>2, <2>3, KeptPartsNext
    <2>7. \A i \in Ids' : \/ i \in Ids /\ table'[i].data = table[i].data
                          \/ table'[i].data \subseteq batch
        BY <1>2, <2>2, <2>3
    <2>8. dropped' \subseteq dropped \cup Copies
        BY <1>2, <1>3, <2>2, <2>3
    <2> QED
        BY <1>2, <2>1, <2>3, <2>4, <2>5, <2>6, <2>7, <2>8, SettleMoves
<1>6. CASE PublishInterrupted \/ PublishRejected \/ PublishFailed
    <2> DEFINE S == {pub.row}
    <2>1. /\ table' = MarkRetryFailed(table, S, FALSE) /\ nextId' = nextId
          /\ Reset /\ lost' = lost \cup Wiped /\ pub.pc \in {"claimed", "sending"}
          /\ UNCHANGED <<flush, bufferSync, pending, taken, delivered, garbled, dropped>>
        BY <1>6 DEF PublishInterrupted, PublishRejected, BufferRejects, PublishFailed
    <2> HIDE DEF S
    <2>2. Ids' = Ids /\ \A i \in Ids : table'[i].data = table[i].data
        BY <1>1, <2>1, MarkEffect
    <2>3. pub.data \subseteq Kept'
        BY <1>2, <2>1, <2>2, KeptPartsNext DEF PubData
    <2>4. Waiting' = Waiting
        BY <2>1 DEF Waiting
    <2> QED
        BY <1>2, <2>1, <2>2, <2>3, <2>4, SettleMoves
<1>7. ASSUME NEW enc \in Encodings, PublishBuffered(enc)
      PROVE  Moves /\ PubData' /\ FlushData'
    <2> DEFINE gone == {pub.row}
    <2>1. /\ BufferPublish(pub.data, enc, gone) /\ pub.pc = "claimed"
          /\ Reset /\ lost' = lost \cup Wiped
          /\ UNCHANGED <<flush, bufferSync, pending, taken, delivered, garbled>>
        BY <1>7 DEF PublishBuffered
    <2>2. nextId \notin gone
        BY <1>1, <2>1 DEF WorkInv, TableOK
    <2>3. \A i \in gone : i = pub.row
        OBVIOUS
    <2> HIDE DEF gone
    <2>4. /\ Ids \ gone \subseteq Ids' /\ Ids' \subseteq (Ids \ gone) \cup {nextId}
          /\ \A i \in Ids \cap Ids' : table'[i] = table[i]
          /\ \/ nextId \in Ids' /\ table'[nextId].data = pub.data
             \/ nextId \notin Ids' /\ pub.data \subseteq dropped'
          /\ dropped \subseteq dropped' /\ dropped' \subseteq dropped \cup pub.data
        BY <1>1, <1>2, <2>1, <2>2, BufferEffect
    <2>5. pub.data \subseteq Kept'
        BY <1>2, <2>1, <2>4, KeptPartsNext
    <2>6. Waiting' = Waiting
        BY <2>1 DEF Waiting
    <2>7. \A i \in Ids \cap gone : i \notin flush.ok /\ table[i].data = pub.data
        BY <1>2, <2>1, <2>3 DEF PubData
    <2>8. \A i \in Ids : \/ i \in Ids' /\ table'[i].data = table[i].data
                         \/ i \notin flush.ok /\ table[i].data \subseteq Kept'
        BY <2>4, <2>5, <2>7
    <2>9. \A i \in Ids' : \/ i \in Ids /\ table'[i].data = table[i].data
                          \/ table'[i].data \subseteq batch
        BY <1>2, <2>4
    <2>10. dropped' \subseteq dropped \cup Copies
        BY <1>2, <1>3, <2>4
    <2> QED
        BY <1>2, <2>1, <2>4, <2>5, <2>6, <2>8, <2>9, <2>10, SettleMoves
<1>8. ASSUME NEW enc \in Encodings, PublishQueued(enc)
      PROVE  Moves /\ PubData' /\ FlushData'
    <2> DEFINE gone == {pub.row}
    <2>1. /\ EnqueuePending(pub.data, enc, gone) /\ pub.pc = "claimed"
          /\ Reset /\ lost' = lost \cup Wiped \cup Evicted
          /\ UNCHANGED <<flush, bufferSync, taken, delivered, garbled, dropped>>
        BY <1>8 DEF PublishQueued
    <2>2. \A i \in gone : i = pub.row
        OBVIOUS
    <2>3. enc \in {"json", "binary", "garbled"}
        BY EncodingsAssumption
    <2> HIDE DEF gone
    <2>4. /\ pub.data \subseteq Waiting' /\ Waiting' \subseteq Waiting \cup pub.data
          /\ Waiting \subseteq Waiting' \cup Evicted \cup delivered /\ Evicted \subseteq Waiting
          /\ bufferSync = "off" /\ table' = Without(table, gone) /\ nextId' = nextId
        BY <1>1, <1>2, <2>1, <2>3, EnqueueEffect
    <2>5. Ids' = Ids \ gone /\ \A i \in Ids' : table'[i] = table[i]
        BY <1>1, <2>4, WithoutEffect
    <2>6. pub.data \subseteq Kept'
        BY <2>1, <2>4, KeptPartsNext
    <2>7. \A i \in Ids \cap gone : i \notin flush.ok /\ table[i].data = pub.data
        BY <1>2, <2>1, <2>2 DEF PubData
    <2>8. \A i \in Ids : \/ i \in Ids' /\ table'[i].data = table[i].data
                         \/ i \notin flush.ok /\ table[i].data \subseteq Kept'
        BY <2>5, <2>6, <2>7
    <2>9. /\ lost \cup Wiped \subseteq lost' /\ lost' \subseteq lost \cup Wiped \cup Waiting
          /\ Waiting \subseteq Waiting' \cup lost' \cup delivered
          /\ Waiting' \subseteq Waiting \cup batch
        BY <1>2, <2>1, <2>4
    <2> QED
        BY <1>2, <2>1, <2>5, <2>6, <2>8, <2>9, SettleMoves
<1>9. CASE PublishConfirmed
    <2> DEFINE gone == {pub.row}
    <2>1. /\ table' = Without(table, gone) /\ nextId' = nextId /\ pub.pc = "sending"
          /\ pub.arrived /\ Reset /\ lost' = lost \cup Wiped
          /\ UNCHANGED <<flush, bufferSync, pending, taken, delivered, garbled, dropped>>
        BY <1>9 DEF PublishConfirmed
    <2>2. \A i \in gone : i = pub.row
        OBVIOUS
    <2> HIDE DEF gone
    <2>3. Ids' = Ids \ gone /\ \A i \in Ids' : table'[i] = table[i]
        BY <1>1, <2>1, WithoutEffect
    <2>4. pub.data \subseteq delivered' \cup garbled'
        BY <2>1 DEF PubData
    <2>5. pub.data \subseteq Kept'
        BY <2>4, KeptPartsNext
    <2>6. Waiting' = Waiting
        BY <2>1 DEF Waiting
    <2>7. \A i \in Ids \cap gone : i \notin flush.ok /\ table[i].data = pub.data
        BY <1>2, <2>1, <2>2 DEF PubData
    <2>8. \A i \in Ids : \/ i \in Ids' /\ table'[i].data = table[i].data
                         \/ i \notin flush.ok /\ table[i].data \subseteq Kept'
        BY <2>3, <2>5, <2>7
    <2> QED
        BY <1>2, <2>1, <2>3, <2>5, <2>6, <2>8, SettleMoves
<1> QED
    BY <1>4, <1>5, <1>6, <1>7, <1>8, <1>9

\* The steps of a publish that goes on: its payload becomes a row, and is sent.
LEMMA PublishingData ==
    ASSUME TypeOK, WorkInv, PubData, FlushData,
           PersistClaimedBatch \/ \E enc \in Encodings : PublishLive(enc)
    PROVE  Moves /\ PubData' /\ FlushData'
<1> USE DEF pubVars, linkVars, queueVars, tableVars, histVars
<1>1. BatchOK /\ TableOK /\ FlushOK /\ HistoryOK
    BY TypeParts
<1>2. /\ pub.data \in SUBSET Readings /\ pub.data \subseteq batch
      /\ flush.ok \subseteq Ids /\ nextId \notin Ids
      /\ \A i \in flush.ok : table[i].status = "sending"
    BY <1>1 DEF BatchOK, PubRecord, PubData, WorkInv, FlushRows, TableOK
<1>3. batch \subseteq Copies /\ Durable \subseteq Copies /\ Waiting \subseteq Copies
    BY DEF Copies
<1>4. CASE PersistClaimedBatch
    <2> DEFINE r == Row(pub.data, "json", "sending")
    <2>1. /\ InsertRecord(r) /\ pub.pc = "building"
          /\ pub' = [pub EXCEPT !.pc = "claimed", !.row = nextId]
          /\ UNCHANGED <<batch, flush, bufferSync, pending, taken, delivered, garbled, lost>>
        BY <1>4 DEF PersistClaimedBatch
    <2>2. r \in Rows /\ r.data = pub.data /\ r.status = "sending"
        BY <1>2, RowType
    <2> HIDE DEF r
    <2>3. /\ Ids' \subseteq Ids \cup {nextId}
          /\ \A i \in Ids \cap Ids' : table'[i] = table[i]
          /\ nextId \in Ids' => table'[nextId] = r
          /\ \A i \in Ids \ Ids' : table[i].status = "queued" /\ table[i].data \subseteq dropped'
          /\ nextId \notin Ids' => r.data \subseteq dropped'
          /\ dropped \subseteq dropped' /\ dropped' \subseteq dropped \cup r.data \cup Durable
        BY <1>1, <2>1, <2>2, InsertEffect
    <2>4. /\ pub'.pc = "claimed" /\ pub'.row = nextId /\ pub'.data = pub.data
          /\ pub'.arrived = pub.arrived
        BY <1>1, <2>1 DEF BatchOK, PubRecord
    <2>5. PubData'
        <3>1. IF nextId \in Ids' THEN table'[nextId].data = pub.data
                                 ELSE pub.data \subseteq dropped'
            BY <2>2, <2>3
        <3>2. pub.arrived => pub.data \subseteq delivered' \cup garbled'
            BY <2>1 DEF PubData
        <3> QED
            BY <1>2, <2>1, <2>4, <3>1, <3>2 DEF PubData
    <2>6. Waiting' = Waiting
        BY <2>1 DEF Waiting
    <2>7. \A i \in Ids : \/ i \in Ids' /\ table'[i].data = table[i].data
                         \/ i \notin flush.ok /\ table[i].data \subseteq Kept'
        BY <1>2, <2>3, KeptPartsNext
    <2>8. \A i \in Ids' : \/ i \in Ids /\ table'[i].data = table[i].data
                          \/ table'[i].data \subseteq Copies
        BY <1>2, <1>3, <2>2, <2>3
    <2>9. dropped' \subseteq dropped \cup Copies
        BY <1>2, <1>3, <2>2, <2>3
    <2> QED
        BY <1>2, <1>3, <2>1, <2>3, <2>5, <2>6, <2>7, <2>8, <2>9, MovesBy
<1>5. ASSUME NEW enc \in Encodings, PublishLive(enc)
      PROVE  Moves /\ PubData' /\ FlushData'
    <2>1. /\ pub.pc = "claimed"
          /\ UNCHANGED <<batch, flush, bufferSync, pending, table, nextId, taken, dropped, lost>>
          /\ \/ /\ pub' = [pub EXCEPT !.pc = "sending", !.arrived = TRUE]
                /\ Receive(pub.data, enc)
             \/ /\ pub' = [pub EXCEPT !.pc = "sending"]
                /\ delivered' = delivered /\ garbled' = garbled
        BY <1>5 DEF PublishLive
    <2>2. /\ pub'.pc = "sending" /\ pub'.row = pub.row /\ pub'.data = pub.data
          /\ Receive(pub.data, enc)
                \/ (pub'.arrived = pub.arrived /\ delivered' = delivered /\ garbled' = garbled)
        BY <1>1, <2>1 DEF BatchOK, PubRecord
    <2>3. /\ delivered \subseteq delivered' /\ garbled \subseteq garbled'
          /\ delivered' \subseteq delivered \cup pub.data
          /\ garbled' \subseteq garbled \cup pub.data
          /\ Receive(pub.data, enc) => pub.data \subseteq delivered' \cup garbled'
        BY <1>1, <1>2, <2>2, ReceiveType
    <2>4. pub'.arrived => pub.data \subseteq delivered' \cup garbled'
        <3>1. CASE Receive(pub.data, enc)
            BY <2>3, <3>1
        <3>2. CASE pub'.arrived = pub.arrived /\ delivered' = delivered /\ garbled' = garbled
            BY <3>2 DEF PubData
        <3> QED
            BY <2>2, <3>1, <3>2
    <2>5. Ids' = Ids /\ Waiting' = Waiting
        BY <2>1 DEF Ids, Waiting
    <2>6. PubData'
        BY <2>1, <2>2, <2>4, <2>5 DEF PubData
    <2>7. delivered' \subseteq delivered \cup Copies /\ garbled' \subseteq garbled \cup Copies
        BY <1>2, <1>3, <2>3
    <2> QED
        BY <1>2, <1>3, <2>1, <2>3, <2>5, <2>6, <2>7, MovesBy
<1> QED
    BY <1>4, <1>5

\* The flush publishes a row: it counts as flushed only when its readings are elsewhere.
LEMMA FlushingData ==
    ASSUME TypeOK, WorkInv, PubData, FlushData, NEW i \in flush.todo,
           FlushLive(i) \/ FlushBuffered(i) \/ FlushQueued(i)
    PROVE  Moves /\ PubData' /\ FlushData'
<1> USE DEF pubVars, linkVars, queueVars, tableVars, histVars
<1>1. BatchOK /\ QueueOK /\ TableOK /\ FlushOK /\ HistoryOK
    BY TypeParts
<1> DEFINE data == table[i].data
           enc == table[i].enc
           none == {}
<1>2. /\ i \in Ids /\ data \in SUBSET Readings /\ enc \in {"json", "binary", "garbled"}
      /\ flush.ok \subseteq Ids /\ data \subseteq Durable
    BY <1>1, RowOfFlush, InDurable DEF FlushRows, WorkInv
<1>3. batch \subseteq Copies /\ Durable \subseteq Copies /\ Waiting \subseteq Copies
    BY DEF Copies
<1>4. UNCHANGED <<batch, pub, bufferSync, taken>>
    BY DEF FlushLive, FlushBuffered, FlushQueued
<1>5. nextId \notin Ids /\ nextId \notin none /\ Ids \ none = Ids
    BY <1>1 DEF TableOK
<1>6. pub.pc \in {"claimed", "sending"} => pub.row # nextId
    BY <1>1 DEF WorkInv, TableOK
<1>7. CASE FlushLive(i)
    <2>1. /\ UNCHANGED <<pending, table, dropped, lost>>
          /\ \/ Sent(i, TRUE) /\ Receive(data, enc)
             \/ Sent(i, FALSE) /\ Receive(data, enc)
             \/ Sent(i, FALSE) /\ delivered' = delivered /\ garbled' = garbled
        BY <1>7 DEF FlushLive
    <2> HIDE DEF data, enc, none
    <2>2. /\ delivered \subseteq delivered' /\ garbled \subseteq garbled'
          /\ delivered' \subseteq delivered \cup data /\ garbled' \subseteq garbled \cup data
          /\ Receive(data, enc) => data \subseteq delivered' \cup garbled'
        BY <1>1, <1>2, <2>1, ReceiveType
    <2>3. \/ flush'.ok = flush.ok \cup {i} /\ data \subseteq delivered' \cup garbled'
          \/ flush'.ok = flush.ok
        BY <1>1, <2>1, <2>2 DEF Sent, FlushOK, FlushRecord
    <2>4. Ids' = Ids /\ Waiting' = Waiting /\ \A j \in Ids : table'[j] = table[j]
        BY <2>1 DEF Ids, Waiting
    <2>5. \A j \in Ids \ flush.ok : \/ j \in Ids' \ flush'.ok /\ table'[j].data = table[j].data
                                    \/ table[j].data \subseteq Kept'
        BY <2>3, <2>4, KeptPartsNext DEF data
    <2>6. \A j \in flush'.ok : \/ j \in flush.ok /\ table'[j].data = table[j].data
                               \/ table'[j].data \subseteq Kept'
        BY <1>2, <2>3, <2>4, KeptPartsNext DEF data
    <2>7. delivered' \subseteq delivered \cup Copies /\ garbled' \subseteq garbled \cup Copies
        BY <1>2, <1>3, <2>2
    <2>8. PubData'
        BY <1>4, <2>1, <2>2, <2>4, PubDataStays
    <2> QED
        BY <1>3, <1>4, <2>1, <2>2, <2>4, <2>5, <2>6, <2>7, <2>8, MovesBy
<1>8. CASE FlushBuffered(i)
    <2>1. /\ UNCHANGED <<pending, delivered, garbled, lost>>
          /\ BufferPublish(data, enc, none) /\ Sent(i, TRUE)
        BY <1>8 DEF FlushBuffered
    <2> HIDE DEF data, enc, none
    <2>2. /\ Ids \ none \subseteq Ids' /\ Ids' \subseteq (Ids \ none) \cup {nextId}
          /\ \A j \in Ids \cap Ids' : table'[j] = table[j]
          /\ \/ nextId \in Ids' /\ table'[nextId].data = data
             \/ nextId \notin Ids' /\ data \subseteq dropped'
          /\ dropped \subseteq dropped' /\ dropped' \subseteq dropped \cup data
        BY <1>1, <1>2, <1>5, <2>1, BufferEffect
    <2>3. flush'.ok = flush.ok \cup {i}
        BY <1>1, <2>1 DEF Sent, FlushOK, FlushRecord
    <2>4. data \subseteq Kept'
        BY <1>2, <1>5, <2>2, <2>3, KeptPartsNext
    <2>5. Waiting' = Waiting
        BY <2>1 DEF Waiting
    <2>6. \A j \in Ids : j \in Ids' /\ table'[j] = table[j]
        BY <1>5, <2>2
    <2>7. \A j \in Ids \ flush.ok : \/ j \in Ids' \ flush'.ok /\ table'[j].data = table[j].data
                                    \/ table[j].data \subseteq Kept'
        BY <2>3, <2>4, <2>6 DEF data
    <2>8. \A j \in flush'.ok : \/ j \in flush.ok /\ table'[j].data = table[j].data
                               \/ table'[j].data \subseteq Kept'
        BY <1>2, <2>3, <2>4, <2>6 DEF data
    <2>9. \A j \in Ids' : \/ j \in Ids /\ table'[j].data = table[j].data
                          \/ table'[j].data \subseteq Copies
        BY <1>2, <1>3, <1>5, <2>2
    <2>10. dropped' \subseteq dropped \cup Copies
        BY <1>2, <1>3, <2>2
    <2>11. pub.pc \in {"claimed", "sending"} /\ pub.row \in Ids' => pub.row \in Ids
        BY <1>5, <1>6, <2>2
    <2>12. PubData'
        BY <1>4, <2>1, <2>2, <2>6, <2>11, PubDataStays
    <2> QED
        BY <1>3, <1>4, <2>1, <2>2, <2>5, <2>7, <2>8, <2>9, <2>10, <2>12, MovesBy
<1>9. CASE FlushQueued(i)
    <2>1. /\ UNCHANGED <<delivered, garbled, dropped>> /\ lost' = lost \cup Evicted
          /\ EnqueuePending(data, enc, none) /\ Sent(i, TRUE)
        BY <1>9 DEF FlushQueued
    <2> HIDE DEF data, enc, none
    <2>2. /\ data \subseteq Waiting' /\ Waiting' \subseteq Waiting \cup data
          /\ Waiting \subseteq Waiting' \cup Evicted \cup delivered /\ Evicted \subseteq Waiting
          /\ bufferSync = "off" /\ table' = Without(table, none) /\ nextId' = nextId
        BY <1>1, <1>2, <2>1, EnqueueEffect
    <2>3. Ids' = Ids /\ \A j \in Ids' : table'[j] = table[j]
        BY <1>1, <1>5, <2>2, WithoutEffect
    <2>4. flush'.ok = flush.ok \cup {i}
        BY <1>1, <2>1 DEF Sent, FlushOK, FlushRecord
    <2>5. data \subseteq Kept'
        BY <1>4, <2>2, KeptPartsNext
    <2>6. \A j \in Ids \ flush.ok : \/ j \in Ids' \ flush'.ok /\ table'[j].data = table[j].data
                                    \/ table[j].data \subseteq Kept'
        BY <2>3, <2>4, <2>5 DEF data
    <2>7. \A j \in flush'.ok : \/ j \in flush.ok /\ table'[j].data = table[j].data
                               \/ table'[j].data \subseteq Kept'
        BY <1>2, <2>3, <2>4, <2>5 DEF data
    <2>8. /\ lost \subseteq lost' /\ lost' \subseteq lost \cup Copies
          /\ Waiting \subseteq Waiting' \cup lost' \cup delivered' \cup garbled'
          /\ Waiting' \subseteq Copies
        BY <1>2, <1>3, <2>1, <2>2
    <2>9. PubData'
        BY <1>4, <2>1, <2>3, PubDataStays
    <2> QED
        BY <1>3, <1>4, <2>1, <2>2, <2>3, <2>6, <2>7, <2>8, <2>9, MovesBy
<1> QED
    BY <1>7, <1>8, <1>9

\* The queue in memory is drained, and hopeless rows are dropped.
LEMMA DrainAndCleanupData ==
    ASSUME TypeOK, QueueInv, WorkInv, PubData, FlushData,
           DrainDone \/ DrainLate \/ CleanupExpired
    PROVE  Moves /\ PubData' /\ FlushData'
<1> USE DEF pubVars, linkVars, queueVars, tableVars, histVars
<1>1. QueueOK /\ TableOK /\ FlushOK /\ HistoryOK
    BY TypeParts
<1>2. /\ UNCHANGED <<batch, pub, bufferSync, flush, taken, lost>>
      /\ flush.ok \subseteq Ids
    BY DEF DrainDone, DrainLate, CleanupExpired, WorkInv, FlushRows
<1>3. batch \subseteq Copies /\ Durable \subseteq Copies /\ Waiting \subseteq Copies
    BY DEF Copies
<1>4. CASE DrainDone \/ DrainLate
    <2> DEFINE data == pending[1].data
               enc == pending[1].enc
    <2>1. /\ Receive(data, enc) /\ UNCHANGED <<table, dropped>> /\ pending # <<>>
          /\ pending' \in {pending, Tail(pending)}
        BY <1>4 DEF DrainDone, DrainLate, QueueInv
    <2>2. data \in SUBSET Readings /\ Waiting = data \cup WaitingIn(Tail(pending))
        BY <1>1, <2>1, QueueHead, QueueData DEF QueueOK, Waiting, WaitingIn
    <2> HIDE DEF data, enc
    <2>3. /\ delivered \subseteq delivered' /\ garbled \subseteq garbled'
          /\ delivered' \subseteq delivered \cup data /\ garbled' \subseteq garbled \cup data
          /\ data \subseteq delivered' \cup garbled'
        BY <1>1, <2>1, <2>2, ReceiveType
    <2>4. Waiting' \in {Waiting, WaitingIn(Tail(pending))}
        BY <2>1 DEF Waiting, WaitingIn
    <2>5. /\ Waiting \subseteq Waiting' \cup lost' \cup delivered' \cup garbled'
          /\ Waiting' \subseteq Copies
        BY <1>3, <2>2, <2>3, <2>4
    <2>6. Ids' = Ids
        BY <2>1 DEF Ids
    <2>7. delivered' \subseteq delivered \cup Copies /\ garbled' \subseteq garbled \cup Copies
        BY <1>3, <2>2, <2>3
    <2>8. PubData'
        BY <1>2, <2>1, <2>3, <2>6, PubDataStays
    <2> QED
        BY <1>2, <1>3, <2>1, <2>3, <2>5, <2>6, <2>7, <2>8, MovesBy
<1>5. CASE CleanupExpired
    <2>1. /\ Ids' = Ids \ Doomed
          /\ \A i \in Ids' : table'[i].data = table[i].data
          /\ dropped' = dropped \cup DataOf(table, Doomed)
        BY <1>1, <1>5, CleanupEffect
    <2>2. flush.ok = {} /\ UNCHANGED <<pending, delivered, garbled>>
        BY <1>5 DEF CleanupExpired, WorkInv, FlushRows
    <2>3. \A i \in Ids \ Ids' : table[i].data \subseteq dropped'
        BY <2>1, InDataOf
    <2>4. dropped' \subseteq dropped \cup Durable
        BY <2>1, InDataOf, InDurable DEF Doomed
    <2>5. Waiting' = Waiting
        BY <2>2 DEF Waiting
    <2>6. \A i \in Ids : \/ i \in Ids' /\ table'[i].data = table[i].data
                         \/ table[i].data \subseteq Kept'
        BY <2>1, <2>3, KeptPartsNext
    <2>7. dropped \subseteq dropped' /\ dropped' \subseteq dropped \cup Copies
        BY <1>3, <2>1, <2>4
    <2>8. PubData'
        BY <1>2, <2>1, <2>2, <2>3, <2>7, PubDataStays
    <2>9. \A i \in Ids' : i \in Ids /\ table'[i].data = table[i].data
        BY <2>1
    <2> QED
        BY <1>2, <1>3, <2>2, <2>5, <2>6, <2>7, <2>8, <2>9, MovesBy
<1> QED
    BY <1>4, <1>5

\* A stop throws the batch away: what is nowhere else is lost.
LEMMA StopData ==
    ASSUME TypeOK, WorkInv, PubData, FlushData, Stop
    PROVE  Moves /\ PubData' /\ FlushData'
<1>1. /\ batch' = {} /\ pub' = NoPub
      /\ lost' = lost \cup (batch \ (Durable \cup Waiting \cup delivered))
      /\ UNCHANGED <<table, flush, pending, taken, delivered, garbled, dropped>>
    BY DEF Stop, tableVars
<1>2. bufferSync = "off" => bufferSync' = "off"
    BY DEF Stop, StopPlugin
<1>3. Ids' = Ids /\ Waiting' = Waiting /\ flush.ok \subseteq Ids
    BY <1>1 DEF Ids, Waiting, WorkInv, FlushRows
<1>4. batch \subseteq Copies /\ Waiting \subseteq Copies
    BY DEF Copies
<1>5. Kept \subseteq Kept'
    BY <1>1, <1>2, <1>3, KeptParts, KeptPartsNext
<1>6. batch \subseteq Kept' \cup Waiting' \cup lost'
    <2>1. Durable \subseteq Kept' /\ delivered \subseteq Kept'
        BY <1>5, DurableIsKept, KeptParts
    <2> QED
        BY <1>1, <1>3, <2>1
<1>7. Moves /\ FlushData'
    BY <1>1, <1>2, <1>3, <1>4, <1>6, MovesBy
<1> QED
    BY <1>1, <1>7, PubDataIdle

\* A publish left behind deletes its row only when the broker has the readings.
LEMMA OrphanData ==
    ASSUME TypeOK, WorkInv, OrphanInv, PubData, FlushData,
           \E i \in DOMAIN orphans : OrphanEnds(i)
    PROVE  Moves /\ PubData' /\ FlushData'
<1> USE DEF linkVars, queueVars, histVars
<1>1. TableOK
    BY TypeParts
<1>2. PICK i \in DOMAIN orphans : OrphanEnds(i)
    OBVIOUS
<1>3. /\ Ids \ {i} \subseteq Ids' /\ Ids' \subseteq Ids
      /\ \A j \in Ids' : table'[j].data = table[j].data
      /\ i \in Ids /\ i \notin Ids' => orphans[i]
    BY <1>1, <1>2, OrphanEffect
<1>4. UNCHANGED <<batch, pub, bufferSync, pending, flush, taken, delivered, garbled, dropped, lost>>
    BY <1>2 DEF OrphanEnds
<1>5. i \notin flush.ok /\ i # pub.row /\ flush.ok \subseteq Ids
    BY DEF OrphanInv, FlushRows, WorkInv
<1>6. i \in Ids /\ i \notin Ids' => table[i].data \subseteq Kept'
    <2>1. i \in Ids /\ i \notin Ids' => table[i].data \subseteq delivered' \cup garbled'
        BY <1>3, <1>4 DEF OrphanInv
    <2> QED
        BY <2>1, KeptPartsNext
<1>7. Waiting' = Waiting /\ batch \subseteq Copies /\ Waiting \subseteq Copies
    BY <1>4 DEF Waiting, Copies
<1>8. \A j \in Ids \ flush.ok : \/ j \in Ids' \ flush'.ok /\ table'[j].data = table[j].data
                                \/ table[j].data \subseteq Kept'
    BY <1>3, <1>4, <1>6
<1>9. \A j \in flush'.ok : j \in flush.ok /\ table'[j].data = table[j].data
    BY <1>3, <1>4, <1>5
<1>10. Moves /\ FlushData'
    BY <1>3, <1>4, <1>7, <1>8, <1>9, MovesBy
<1>11. PubData'
    BY <1>3, <1>4, <1>5, PubDataStays
<1> QED
    BY <1>10, <1>11

\* Every step keeps DataInv, and only a crash moves readings otherwise.
LEMMA DataStep ==
    ASSUME TypeOK, QueueInv, WorkInv, OrphanInv, DataInv, Next
    PROVE  DataInv' /\ (Moves \/ Crash)
<1>1. PubData /\ FlushData
    BY DataParts
<1>2. TypeOK' /\ WorkInv'
    BY TypeStep, WorkStep
<1>3. SUFFICES PubData' /\ FlushData' /\ (Moves \/ Crash)
    BY DataParts, PTL
<1>4. CASE \/ \E r \in Readings : AddMessage(r)
           \/ PublishBatch \/ PersistFails \/ MarkFails
           \/ Start \/ ReloadBindings \/ \E i \in DOMAIN orphans : OrphanFails(i)
           \/ Connect \/ Disconnect \/ SetPublishMode
    BY <1>1, <1>2, <1>4, QuietData
<1>5. CASE \/ FlushBuffer \/ FlushMore \/ FlushSettle \/ FlushEnds \/ FlushAborts
           \/ \E i \in flush.todo : FlushRejected(i)
           \/ \E i \in Ids : LockAges(i) \/ RetryDue(i) \/ Expire(i)
    BY <1>1, <1>2, <1>5, QuietFlushData
<1>6. CASE \/ DiscardUnbound \/ PublishOffline \/ PersistRetried \/ PublishInterrupted
           \/ \E enc \in Encodings : PublishBuffered(enc) \/ PublishQueued(enc)
           \/ PublishRejected \/ PublishConfirmed \/ DeleteFails \/ PublishFailed
    BY <1>1, <1>6, SettlingData
<1>7. CASE PersistClaimedBatch \/ \E enc \in Encodings : PublishLive(enc)
    BY <1>1, <1>7, PublishingData
<1>8. CASE \E i \in flush.todo : FlushLive(i) \/ FlushBuffered(i) \/ FlushQueued(i)
    BY <1>1, <1>8, FlushingData
<1>9. CASE DrainDone \/ DrainLate \/ CleanupExpired
    BY <1>1, <1>9, DrainAndCleanupData
<1>10. CASE Crash
    <2>1. pub' = NoPub /\ flush'.ok = {}
        BY <1>10, IdleFlush DEF Crash
    <2> QED
        BY <1>10, <2>1, PubDataIdle DEF FlushData
<1>11. CASE Stop
    BY <1>1, <1>11, StopData
<1>12. CASE \E i \in DOMAIN orphans : OrphanEnds(i)
    BY <1>1, <1>12, OrphanData
<1> QED
    BY <1>4, <1>5, <1>6, <1>7, <1>8, <1>9, <1>10, <1>11, <1>12 DEF Next, PublishStep, FlushStep
-----------------------------------------------------------------------------
(* The publishes of stopped managers *)

\* Their rows are safe in a step that touches none of them and gives none away.
LEMMA OrphansStay ==
    ASSUME TableOK, TableOK', OrphanInv, DOMAIN orphans' \subseteq DOMAIN orphans,
           \A i \in DOMAIN orphans' : orphans'[i] = orphans[i],
           nextId <= nextId', pub'.row \in {0, pub.row, nextId},
           FlushRows' \cap DOMAIN orphans' = {},
           delivered \subseteq delivered', garbled \subseteq garbled',
           Ids' \subseteq Ids \cup {nextId},
           \A i \in Ids \cap Ids' : i \in DOMAIN orphans' =>
              /\ table'[i].status = table[i].status /\ table'[i].locked = table[i].locked
              /\ table'[i].data = table[i].data
    PROVE  OrphanInv'
<1>1. nextId \in Nat \ {0} /\ nextId' \in Nat \ {0}
    BY DEF TableOK
<1>2. 0 \notin DOMAIN orphans /\ nextId \notin DOMAIN orphans
    BY <1>1 DEF OrphanInv
<1>3. DOMAIN orphans' \subseteq 1 .. nextId' - 1
    BY <1>1 DEF OrphanInv
<1>4. pub'.row \notin DOMAIN orphans'
    BY <1>2 DEF OrphanInv
<1>5. ASSUME NEW i \in DOMAIN orphans' \cap Ids'
      PROVE  /\ table'[i].status = "sending" /\ table'[i].locked = "fresh"
             /\ orphans'[i] => table'[i].data \subseteq delivered' \cup garbled'
    <2>1. i \in Ids /\ i \in DOMAIN orphans
        BY <1>2, <1>5
    <2>2. /\ table[i].status = "sending" /\ table[i].locked = "fresh"
          /\ orphans[i] => table[i].data \subseteq delivered \cup garbled
        BY <2>1 DEF OrphanInv
    <2>3. /\ table'[i].status = table[i].status /\ table'[i].locked = table[i].locked
          /\ table'[i].data = table[i].data /\ orphans'[i] = orphans[i]
        BY <1>5, <2>1
    <2> QED
        BY <2>2, <2>3
<1> QED
    BY <1>3, <1>4, <1>5 DEF OrphanInv

\* Only a stop leaves a publish behind, and only the end of one takes it away.
LEMMA OrphansUnchanged ==
    ASSUME Next
    PROVE  \/ Stop \/ Crash \/ \E i \in DOMAIN orphans : OrphanEnds(i) \/ OrphanFails(i)
           \/ orphans' = orphans
BY DEF Next, PublishStep, FlushStep, AddMessage, PublishBatch, DiscardUnbound, Reset,
       PublishOffline, PersistClaimedBatch, PublishInterrupted, PublishBuffered, PublishQueued,
       PublishLive, PublishConfirmed, PublishFailed, PersistFails, PersistRetried,
       PublishRejected, DeleteFails, MarkFails, Start, ReloadBindings, Connect,
       Disconnect, SetPublishMode, DrainDone, DrainLate, FlushBuffer, FlushSettle, FlushMore,
       FlushEnds, FlushLive, FlushBuffered, FlushQueued, FlushRejected, FlushAborts,
       CleanupExpired, LockAges, RetryDue, Expire, pubVars

\* The publisher has no row, the one it had, or a new one.
LEMMA PublisherRows ==
    ASSUME BatchOK, Next
    PROVE  pub'.row \in {0, pub.row, nextId}
<1>1. \/ pub' = pub \/ pub' = NoPub
      \/ pub' = [NoPub EXCEPT !.pc = "building", !.data = batch]
      \/ pub' = [pub EXCEPT !.pc = "claimed", !.row = nextId]
      \/ pub' = [pub EXCEPT !.pc = "sending", !.arrived = TRUE]
      \/ pub' = [pub EXCEPT !.pc = "sending"]
    BY DEF Next, PublishStep, FlushStep, AddMessage, PublishBatch, DiscardUnbound, Reset,
       PublishOffline, PersistClaimedBatch, PublishInterrupted, PublishBuffered, PublishQueued,
       PublishLive, PublishConfirmed, PublishFailed, PersistFails, PersistRetried,
       PublishRejected, DeleteFails, MarkFails, Start, Stop, OrphanEnds, OrphanFails,
       ReloadBindings, Connect, Disconnect, SetPublishMode, DrainDone, DrainLate, FlushBuffer,
       FlushSettle, FlushMore, FlushEnds, FlushLive, FlushBuffered, FlushQueued, FlushRejected, FlushAborts,
       CleanupExpired, LockAges, RetryDue, Expire, Crash, pubVars
<1>2. pub \in PubRecord /\ NoPub.row = 0 /\ [NoPub EXCEPT !.pc = "building", !.data = batch].row = 0
    BY DEF BatchOK, NoPub
<1>3. /\ [pub EXCEPT !.pc = "claimed", !.row = nextId].row = nextId
      /\ [pub EXCEPT !.pc = "sending"].row = pub.row
    BY <1>2 DEF PubRecord
<1>4. [pub EXCEPT !.pc = "sending", !.arrived = TRUE].row = pub.row
    BY <1>2 DEF PubRecord
<1> QED
    BY <1>1, <1>2, <1>3, <1>4

\* What a step of anyone else does to the rows of these publishes.
OrphanRowsStay ==
    /\ nextId <= nextId' /\ Ids' \subseteq Ids \cup {nextId}
    /\ FlushRows' \cap DOMAIN orphans = {}
    /\ \A i \in Ids \cap Ids' : i \in DOMAIN orphans =>
          /\ table'[i].status = table[i].status /\ table'[i].locked = table[i].locked
          /\ table'[i].data = table[i].data

\* The steps of the publisher, the endpoint and the link.
LEMMA OrphansOfPublisher ==
    ASSUME TypeOK, QueueInv, WorkInv, OrphanInv,
           \/ \E r \in Readings : AddMessage(r)
           \/ PublishStep \/ PersistFails \/ PersistRetried \/ PublishRejected \/ DeleteFails
           \/ MarkFails \/ Start \/ ReloadBindings
           \/ Connect \/ Disconnect \/ SetPublishMode \/ DrainDone \/ DrainLate
    PROVE  OrphanRowsStay
<1> USE DEF pubVars, linkVars, queueVars, tableVars, envVars, histVars
<1>1. BatchOK /\ QueueOK /\ TableOK /\ FlushOK
    BY TypeParts
<1>2. flush' = flush
    BY DEF PublishStep, AddMessage, PublishBatch, DiscardUnbound, PublishOffline,
           PersistClaimedBatch, PublishInterrupted, PublishBuffered, PublishQueued, PublishLive,
           PublishConfirmed, PublishFailed, PersistFails, PersistRetried, PublishRejected,
           DeleteFails, MarkFails, Start, ReloadBindings, Connect, Disconnect, SetPublishMode,
           DrainDone, DrainLate
<1>3. FlushRows' \cap DOMAIN orphans = {}
    BY <1>2 DEF FlushRows, OrphanInv
<1>4. /\ pub.data \in SUBSET Readings /\ nextId \in Nat /\ pub.row \notin DOMAIN orphans
      /\ \A i \in DOMAIN orphans \cap Ids : table[i].status = "sending"
    BY <1>1 DEF BatchOK, PubRecord, TableOK, OrphanInv
<1>5. CASE \/ \E r \in Readings : AddMessage(r)
           \/ PublishBatch \/ DiscardUnbound \/ \E enc \in Encodings : PublishLive(enc)
           \/ PersistFails \/ DeleteFails \/ MarkFails \/ Start \/ ReloadBindings
           \/ Connect \/ Disconnect \/ SetPublishMode \/ DrainDone \/ DrainLate
    <2>1. table' = table /\ nextId' = nextId
        BY <1>5 DEF AddMessage, PublishBatch, DiscardUnbound, PublishLive, PersistFails,
                    DeleteFails, MarkFails, Start, ReloadBindings, Connect, Disconnect,
                    SetPublishMode, DrainDone, DrainLate
    <2> QED
        BY <1>3, <1>4, <2>1 DEF OrphanRowsStay, Ids
<1>6. CASE PublishOffline \/ PersistRetried \/ PersistClaimedBatch
    <2>1. PICK status \in {"queued", "sending"} : InsertRecord(Row(pub.data, "json", status))
        BY <1>6 DEF PublishOffline, PersistRetried, PersistClaimedBatch
    <2> DEFINE r == Row(pub.data, "json", status)
    <2>2. r \in Rows
        BY <1>4, RowType
    <2>3. InsertRecord(r)
        BY <2>1
    <2> HIDE DEF r
    <2>4. /\ nextId' = nextId + 1 /\ Ids' \subseteq Ids \cup {nextId}
          /\ \A i \in Ids \cap Ids' : table'[i] = table[i]
        BY <1>1, <2>2, <2>3, InsertEffect
    <2>5. nextId <= nextId'
        BY <1>4, <2>4
    <2> QED
        BY <1>3, <2>4, <2>5 DEF OrphanRowsStay
<1>7. CASE PublishInterrupted \/ PublishRejected \/ PublishFailed
    <2> DEFINE S == {pub.row}
    <2>1. table' = MarkRetryFailed(table, S, FALSE) /\ nextId' = nextId
        BY <1>7 DEF PublishInterrupted, PublishRejected, BufferRejects, PublishFailed
    <2>2. \A i \in S : i \notin DOMAIN orphans
        BY <1>4
    <2> HIDE DEF S
    <2>3. Ids' = Ids /\ \A i \in Ids \ S : table'[i] = table[i]
        BY <1>1, <2>1, MarkEffect
    <2>4. nextId <= nextId'
        BY <1>4, <2>1
    <2>5. \A i \in Ids \cap Ids' : i \in DOMAIN orphans => table'[i] = table[i]
        BY <2>2, <2>3
    <2> QED
        BY <1>3, <2>3, <2>4, <2>5 DEF OrphanRowsStay
<1>8. ASSUME NEW enc \in Encodings, PublishBuffered(enc)
      PROVE  OrphanRowsStay
    <2> DEFINE gone == {pub.row}
    <2>1. BufferPublish(pub.data, enc, gone) /\ pub.pc = "claimed"
        BY <1>8 DEF PublishBuffered
    <2>2. nextId \notin gone
        BY <1>1, <2>1 DEF WorkInv, TableOK
    <2> HIDE DEF gone
    <2>3. /\ nextId' \in {nextId, nextId + 1} /\ Ids' \subseteq (Ids \ gone) \cup {nextId}
          /\ \A i \in Ids \cap Ids' : table'[i] = table[i]
        BY <1>1, <1>4, <2>1, <2>2, BufferEffect
    <2>4. nextId <= nextId'
        BY <1>4, <2>3
    <2> QED
        BY <1>3, <2>3, <2>4 DEF OrphanRowsStay
<1>9. CASE PublishConfirmed \/ \E enc \in Encodings : PublishQueued(enc)
    <2> DEFINE gone == {pub.row}
    <2>1. table' = Without(table, gone) /\ nextId' = nextId
        BY <1>9 DEF PublishConfirmed, PublishQueued, EnqueuePending
    <2> HIDE DEF gone
    <2>2. Ids' = Ids \ gone /\ \A i \in Ids' : table'[i] = table[i]
        BY <1>1, <2>1, WithoutEffect
    <2> QED
        BY <1>3, <1>4, <2>1, <2>2 DEF OrphanRowsStay
<1> QED
    BY <1>5, <1>6, <1>7, <1>8, <1>9 DEF PublishStep

\* The steps of the flush and of time.
LEMMA OrphansOfFlush ==
    ASSUME TypeOK, WorkInv, OrphanInv,
           \/ FlushStep \/ (\E i \in flush.todo : FlushRejected(i)) \/ FlushAborts
           \/ CleanupExpired
           \/ \E i \in Ids : LockAges(i) \/ RetryDue(i) \/ Expire(i)
    PROVE  OrphanRowsStay
<1> USE DEF tableVars
<1>1. TableOK /\ FlushOK /\ FlushRows \subseteq Ids
    BY TypeParts DEF WorkInv
<1>2. /\ nextId \in Nat /\ FlushRows \cap DOMAIN orphans = {}
      /\ \A i \in DOMAIN orphans \cap Ids : table[i].status = "sending" /\ table[i].locked = "fresh"
    BY <1>1 DEF TableOK, OrphanInv
<1>3. CASE FlushBuffer \/ FlushMore
    <2>1. PICK n \in Nat : Claim(n)
        BY <1>1, <1>3 DEF FlushBuffer, FlushMore, FlushOK, FlushRecord
    <2>2. nextId' = nextId
        BY <1>3 DEF FlushBuffer, FlushMore
    <2>3. /\ Ids' = Ids /\ flush'.ok = {} /\ flush'.failed = {}
          /\ flush'.todo \subseteq {i \in Ids : table[i].status = "queued" \/ table[i].locked = "stale"}
          /\ \A i \in Ids \ flush'.todo : table'[i] = table[i]
        BY <1>1, <2>1, <2>2, ClaimEffect
    <2>4. FlushRows' = flush'.todo /\ flush'.todo \cap DOMAIN orphans = {}
        BY <1>2, <2>3 DEF FlushRows
    <2> QED
        BY <1>2, <2>2, <2>3, <2>4 DEF OrphanRowsStay
<1>4. CASE FlushSettle \/ FlushAborts
    <2>1. FlushRows' = {} /\ nextId' = nextId
        BY <1>1, <1>4, SettledFlush, IdleFlush DEF FlushSettle, FlushAborts
    <2>2. CASE table' = table
        BY <1>2, <2>1, <2>2 DEF OrphanRowsStay, Ids
    <2>3. CASE table' # table
        <3>1. PICK F \in SUBSET flush.failed :
                 table' = MarkRetryFailed(Without(table, flush.ok), F, TRUE)
            BY <1>4, <2>3 DEF FlushSettle, FlushAborts
        <3>2. Ids' = Ids \ flush.ok /\ \A i \in Ids' \ F : table'[i] = table[i]
            BY <1>1, <2>1, <3>1, SettleEffect
        <3>3. \A i \in F : i \notin DOMAIN orphans
            BY <1>2 DEF FlushRows
        <3> QED
            BY <1>2, <2>1, <3>2, <3>3 DEF OrphanRowsStay
    <2> QED
        BY <2>2, <2>3
<1>5. CASE FlushEnds
    <2>1. FlushRows' = {} /\ nextId' = nextId /\ table' = table
        BY <1>5, IdleFlush DEF FlushEnds
    <2> QED
        BY <1>2, <2>1 DEF OrphanRowsStay, Ids
<1>6. ASSUME NEW i \in flush.todo,
             FlushLive(i) \/ FlushBuffered(i) \/ FlushQueued(i) \/ FlushRejected(i)
      PROVE  OrphanRowsStay
    <2>1. FlushRows' = FlushRows
        BY <1>1, <1>6, SentEffect DEF FlushLive, FlushBuffered, FlushQueued, FlushRejected
    <2>2. CASE FlushLive(i) \/ FlushRejected(i)
        <3>1. table' = table /\ nextId' = nextId
            BY <2>2 DEF FlushLive, FlushRejected
        <3> QED
            BY <1>2, <2>1, <3>1 DEF OrphanRowsStay, Ids
    <2> DEFINE data == table[i].data
               enc == table[i].enc
               gone == {}
    <2>3. data \in SUBSET Readings /\ nextId \notin gone
        BY <1>1, RowOfFlush DEF FlushRows
    <2>4. CASE FlushBuffered(i)
        <3>1. BufferPublish(data, enc, gone)
            BY <2>4 DEF FlushBuffered
        <3> HIDE DEF data, enc, gone
        <3>2. /\ nextId' \in {nextId, nextId + 1} /\ Ids' \subseteq (Ids \ gone) \cup {nextId}
              /\ \A j \in Ids \cap Ids' : table'[j] = table[j]
            BY <1>1, <2>3, <3>1, BufferEffect
        <3>3. nextId <= nextId'
            BY <1>2, <3>2
        <3> QED
            BY <1>2, <2>1, <3>2, <3>3 DEF OrphanRowsStay
    <2>5. CASE FlushQueued(i)
        <3>1. table' = Without(table, gone) /\ nextId' = nextId
            BY <2>5 DEF FlushQueued, EnqueuePending
        <3> HIDE DEF gone
        <3>2. Ids' = Ids \ gone /\ \A j \in Ids' : table'[j] = table[j]
            BY <1>1, <3>1, WithoutEffect
        <3> QED
            BY <1>2, <2>1, <3>1, <3>2 DEF OrphanRowsStay
    <2> QED
        BY <1>6, <2>2, <2>4, <2>5
<1>7. CASE CleanupExpired
    <2>1. /\ Ids' = Ids \ Doomed /\ flush' = flush /\ nextId' = nextId
          /\ \A i \in Ids' : table[i].locked # "stale" => table'[i] = table[i]
        BY <1>1, <1>7, CleanupEffect DEF CleanupExpired
    <2>2. FlushRows' = FlushRows
        BY <2>1 DEF FlushRows
    <2> QED
        BY <1>2, <2>1, <2>2 DEF OrphanRowsStay
<1>8. ASSUME NEW i \in Ids, LockAges(i) \/ RetryDue(i) \/ Expire(i)
      PROVE  OrphanRowsStay
    <2>1. flush' = flush /\ nextId' = nextId
        BY <1>8 DEF LockAges, RetryDue, Expire
    <2>2. /\ Ids' = Ids
          /\ \A j \in Ids : table'[j].data = table[j].data /\ table'[j].status = table[j].status
          /\ \A j \in Ids : j \in Held => table'[j].locked = table[j].locked
        BY <1>1, <1>8, AgeEffect
    <2>3. FlushRows' = FlushRows
        BY <2>1 DEF FlushRows
    <2>4. DOMAIN orphans \subseteq Held
        BY DEF Held
    <2> QED
        BY <1>2, <2>1, <2>2, <2>3, <2>4 DEF OrphanRowsStay
<1> QED
    BY <1>3, <1>4, <1>5, <1>6, <1>7, <1>8 DEF FlushStep

\* A stop hands over the row of the publish under way.
LEMMA StopOrphans ==
    ASSUME TypeOK, WorkInv, OrphanInv, PubData, Stop
    PROVE  OrphanInv'
<1>1. BatchOK /\ TableOK
    BY TypeParts
<1>2. UNCHANGED <<table, nextId, flush, delivered, garbled>> /\ pub' = NoPub
    BY DEF Stop, tableVars
<1>3. /\ Ids' = Ids /\ FlushRows' = FlushRows /\ pub'.row = 0
      /\ nextId \in Nat \ {0} /\ 0 \notin DOMAIN orphans
    BY <1>1, <1>2 DEF Ids, FlushRows, NoPub, TableOK, OrphanInv
<1>4. CASE pub.row = 0
    <2>1. orphans' = orphans
        BY <1>4 DEF Stop
    <2> QED
        BY <1>2, <1>3, <2>1 DEF OrphanInv
<1>5. CASE pub.row # 0
    <2>1. orphans' = [i \in DOMAIN orphans \cup {pub.row} |->
                        IF i = pub.row THEN pub.arrived ELSE orphans[i]]
        BY <1>5 DEF Stop
    <2>2. /\ DOMAIN orphans' = DOMAIN orphans \cup {pub.row} /\ orphans'[pub.row] = pub.arrived
          /\ \A i \in DOMAIN orphans : i # pub.row => orphans'[i] = orphans[i]
        BY <2>1
    <2>3. pub.pc \in {"claimed", "sending"}
        BY <1>1, <1>5 DEF WorkInv, BatchOK, PubRecord
    <2>4. pub.row \in 1 .. nextId - 1 /\ pub.row \notin FlushRows /\ pub.row \notin DOMAIN orphans
        BY <2>3 DEF WorkInv, OrphanInv
    <2>5. pub.row \in Ids => /\ table[pub.row].status = "sending"
                             /\ table[pub.row].locked = "fresh"
                             /\ pub.arrived => table[pub.row].data \subseteq delivered \cup garbled
        BY <2>3 DEF WorkInv, PubData
    <2>6. DOMAIN orphans' \subseteq 1 .. nextId' - 1
        BY <1>2, <2>2, <2>4 DEF OrphanInv
    <2>7. pub'.row \notin DOMAIN orphans' /\ FlushRows' \cap DOMAIN orphans' = {}
        BY <1>3, <1>5, <2>2, <2>4 DEF OrphanInv
    <2>8. ASSUME NEW i \in DOMAIN orphans' \cap Ids'
          PROVE  /\ table'[i].status = "sending" /\ table'[i].locked = "fresh"
                 /\ orphans'[i] => table'[i].data \subseteq delivered' \cup garbled'
        <3>1. CASE i = pub.row
            BY <1>2, <1>3, <2>2, <2>5, <2>8, <3>1
        <3>2. CASE i # pub.row
            BY <1>2, <1>3, <2>2, <2>8, <3>2 DEF OrphanInv
        <3> QED
            BY <3>1, <3>2
    <2> QED
        BY <2>6, <2>7, <2>8 DEF OrphanInv
<1> QED
    BY <1>4, <1>5

\* Every step keeps the rows of these publishes.
LEMMA OrphanStep ==
    ASSUME TypeOK, QueueInv, WorkInv, OrphanInv, DataInv, Next
    PROVE  OrphanInv'
<1>1. BatchOK /\ TableOK
    BY TypeParts
<1>2. TableOK'
    BY TypeStep, TypeParts, PTL
<1>3. CASE Stop
    BY <1>3, StopOrphans, DataParts
<1>4. CASE Crash
    <2>1. orphans' = << >>
        BY <1>4 DEF Crash
    <2>2. DOMAIN orphans' = {}
        BY <2>1
    <2> QED
        BY <2>2 DEF OrphanInv
<1>5. /\ pub'.row \in {0, pub.row, nextId}
      /\ Crash \/ (delivered \subseteq delivered' /\ garbled \subseteq garbled')
    BY <1>1, PublisherRows, DataStep DEF Moves
<1>6. ASSUME NEW i \in DOMAIN orphans, OrphanEnds(i), ~Crash
      PROVE  OrphanInv'
    <2>1. /\ nextId' = nextId /\ Ids' \subseteq Ids
          /\ \A j \in Ids' : j # i => table'[j] = table[j]
          /\ DOMAIN orphans' = DOMAIN orphans \ {i}
          /\ \A j \in DOMAIN orphans' : orphans'[j] = orphans[j]
        BY <1>1, <1>6, OrphanEffect
    <2>2. FlushRows' = FlushRows /\ nextId <= nextId'
        BY <1>1, <1>6, <2>1 DEF OrphanEnds, FlushRows, TableOK
    <2>3. FlushRows' \cap DOMAIN orphans' = {}
        BY <2>1, <2>2 DEF OrphanInv
    <2> QED
        BY <1>1, <1>2, <1>5, <1>6, <2>1, <2>2, <2>3, OrphansStay
<1>7. ASSUME NEW i \in DOMAIN orphans, OrphanFails(i), ~Crash
      PROVE  OrphanInv'
    <2> DEFINE S == {i}
    <2>1. orphans' = Without(orphans, S) /\ UNCHANGED <<table, nextId, flush>>
        BY <1>7 DEF OrphanFails, tableVars
    <2> HIDE DEF S
    <2>2. /\ DOMAIN orphans' \subseteq DOMAIN orphans
          /\ \A j \in DOMAIN orphans' : orphans'[j] = orphans[j]
        BY <2>1 DEF Without
    <2>3. FlushRows' = FlushRows /\ nextId <= nextId' /\ Ids' = Ids
        BY <1>1, <2>1 DEF FlushRows, TableOK, Ids
    <2>4. FlushRows' \cap DOMAIN orphans' = {}
        BY <2>2, <2>3 DEF OrphanInv
    <2> QED
        BY <1>1, <1>2, <1>5, <1>7, <2>1, <2>2, <2>3, <2>4, OrphansStay
<1>8. CASE ~Crash /\ orphans' = orphans /\ OrphanRowsStay
    BY <1>1, <1>2, <1>5, <1>8, OrphansStay DEF OrphanRowsStay
<1>9. \/ Stop \/ Crash \/ \E i \in DOMAIN orphans : OrphanEnds(i) \/ OrphanFails(i)
      \/ OrphanRowsStay
    BY OrphansOfPublisher, OrphansOfFlush DEF Next
<1> QED
    BY <1>3, <1>4, <1>6, <1>7, <1>8, <1>9, OrphansUnchanged
-----------------------------------------------------------------------------
(* Theorems *)

IInv == TypeOK /\ QueueInv /\ WorkInv /\ OrphanInv /\ DataInv

LEMMA InitInv ==
    ASSUME Init
    PROVE  IInv /\ Copies = {}
<1>1. Ids = {} /\ Durable = {} /\ Waiting = {}
    BY InDataOf DEF Init, Ids, Durable, Waiting
<1>2. TypeOK
    <2>1. pending \in Seq(Payloads)
        BY EmptySeq DEF Init
    <2>2. Table(table) /\ nextId \in Nat \ {0} /\ Ids \subseteq 1 .. nextId - 1
        BY <1>1 DEF Init, Table, Ids
    <2>3. BatchOK /\ LinkOK /\ FlushOK /\ CountsOK /\ HistoryOK
        BY DEF Init, BatchOK, PubRecord, NoPub, LinkOK, FlushOK, FlushRecord, NoFlush,
               CountsOK, HistoryOK
    <2>5. PluginOK
        BY NoOrphans DEF Init, PluginOK
    <2>4. draining \in BOOLEAN
        BY DEF Init
    <2> QED
        BY <2>1, <2>2, <2>3, <2>4, <2>5, TypeParts DEF TableOK, QueueOK
<1>3. QueueInv
    BY DEF Init, QueueInv
<1>4. WorkInv
    <2>1. FlushRows = {}
        BY DEF Init, FlushRows, NoFlush
    <2> QED
        BY <1>1, <2>1 DEF Init, NoPub, WorkInv
<1>5. DataInv
    BY DEF Init, NoPub, NoFlush, DataInv
<1>6. Copies = {}
    BY <1>1 DEF Init, Copies
<1>7. OrphanInv
    <2>1. DOMAIN orphans = {}
        BY DEF Init
    <2> QED
        BY <2>1 DEF OrphanInv
<1> QED
    BY <1>2, <1>3, <1>4, <1>5, <1>6, <1>7 DEF IInv

LEMMA UnchangedInv ==
    ASSUME IInv, UNCHANGED vars
    PROVE  IInv'
<1> USE DEF vars, pubVars, linkVars, queueVars, tableVars, envVars, histVars
<1>1. TypeOK'
    <2>1. (/\ BatchOK /\ PluginOK /\ LinkOK /\ QueueOK
           /\ TableOK /\ FlushOK /\ CountsOK /\ HistoryOK)'
        BY TypeParts, Frames DEF IInv
    <2> QED
        BY <2>1, TypeParts, PTL
<1>2. QueueInv'
    BY DEF IInv, QueueInv
<1>3. WorkInv'
    BY DEF IInv, WorkInv, FlushRows, Ids
<1>4. DataInv'
    <2>1. Ids' = Ids /\ Waiting' = Waiting
        BY DEF Ids, Waiting
    <2>2. Kept' = Kept
        BY <2>1 DEF Kept
    <2> QED
        BY <2>1, <2>2 DEF IInv, DataInv
<1>5. OrphanInv'
    BY DEF IInv, OrphanInv, FlushRows, Ids
<1> QED
    BY <1>1, <1>2, <1>3, <1>4, <1>5 DEF IInv

\* The inductive invariant holds always: the types, the locks, and where the payload
\* and the flushed rows have their readings.
THEOREM Invariant == Spec => []IInv
<1>1. Init => IInv
    BY InitInv
<1>2. IInv /\ [Next]_vars => IInv'
    BY TypeStep, QueueStep, WorkStep, DataStep, OrphanStep, UnchangedInv DEF IInv
<1> QED
    BY <1>1, <1>2, PTL DEF Spec

\* Every variable of the telemetry path keeps its type: the rows of message_buffer have
\* ids that were handed out, and the memory queue is a sequence of payloads.
THEOREM TypeCorrect == Spec => []TypeOK
<1>1. IInv => TypeOK
    BY DEF IInv
<1> QED
    BY <1>1, Invariant, PTL

\* The memory queue of CloudMqttClient is empty while there is a MessageBufferSync,
\* whatever is reloaded, stopped or restarted.
THEOREM QueueNeedsNoBuffer == Spec => []QueueOnlyWithoutBuffer
<1>1. IInv => QueueOnlyWithoutBuffer
    BY DEF IInv, QueueInv, QueueOnlyWithoutBuffer
<1> QED
    BY <1>1, Invariant, PTL

\* The inline publisher, the publishes of stopped managers and the flush never work on
\* the same row of message_buffer, and the row of each is locked as long as it is in the
\* table.
THEOREM RowsHaveOneWorker == Spec => []OneWorkerPerRow
<1>1. IInv => OneWorkerPerRow
    <2> SUFFICES ASSUME IInv PROVE OneWorkerPerRow
        OBVIOUS
    <2>1. WorkInv /\ OrphanInv
        BY DEF IInv
    <2>2. Held \subseteq FlushRows \cup {pub.row} \cup DOMAIN orphans
        BY DEF Held, FlushRows
    <2>3. \A i \in Held \cap Ids : table[i].status = "sending" /\ table[i].locked = "fresh"
        BY <2>1, <2>2 DEF WorkInv, OrphanInv
    <2> QED
        BY <2>1, <2>3 DEF WorkInv, OrphanInv, FlushRows, OneWorkerPerRow
<1> QED
    BY <1>1, Invariant, PTL

LEMMA KeptInCopies ==
    Kept' \subseteq Copies' \cup delivered' \cup garbled' \cup dropped' \cup lost'
BY KeptPartsNext, InDurable DEF Copies

\* Every copy of a reading has a successor, in every step.
LEMMA CopiesLeaveTraces ==
    ASSUME IInv, Next
    PROVE  /\ taken' \subseteq taken \cup batch'
           /\ Copies \subseteq Copies' \cup delivered' \cup garbled' \cup dropped' \cup lost'
           /\ delivered \subseteq delivered' /\ garbled \subseteq garbled'
           /\ dropped \subseteq dropped' /\ lost \subseteq lost'
<1>1. DataInv /\ (Moves \/ Crash)
    BY DataStep DEF IInv
<1>2. CASE Moves
    <2>1. Durable \subseteq Kept
        BY <1>1, DataParts, DurableIsKept
    <2> QED
        BY <1>2, <2>1, KeptInCopies DEF Moves, Copies
<1>3. CASE Crash
    <2>1. /\ UNCHANGED <<table, taken, delivered, garbled, dropped>>
          /\ lost' = lost \cup (Volatile \ (Durable \cup delivered))
        BY <1>3 DEF Crash, tableVars
    <2>2. Durable' = Durable
        BY <2>1 DEF Durable, Ids
    <2> QED
        BY <2>1, <2>2 DEF Copies, Volatile
<1> QED
    BY <1>1, <1>2, <1>3

\* No reading the batcher accepted disappears without a trace, through any sequence of
\* publishes, flushes, cleanups, reloads, stops and starts of endpoints, SQLite errors
\* and crashes; those that went with a stopped manager's batch are recorded in lost.
THEOREM ReadingsLeaveTraces == Spec => []NoReadingVanishes
<1>1. Init => NoReadingVanishes
    BY DEF Init, NoReadingVanishes
<1>2. IInv /\ NoReadingVanishes /\ [Next]_vars => NoReadingVanishes'
    <2> SUFFICES ASSUME IInv, NoReadingVanishes, [Next]_vars PROVE NoReadingVanishes'
        OBVIOUS
    <2>1. CASE Next
        <3>1. batch' \subseteq Copies'
            BY DEF Copies
        <3> QED
            BY <2>1, <3>1, CopiesLeaveTraces DEF NoReadingVanishes
    <2>2. CASE UNCHANGED vars
        BY <2>2 DEF vars, pubVars, queueVars, tableVars, histVars, NoReadingVanishes, Copies,
                    Durable, Waiting, Ids
    <2> QED
        BY <2>1, <2>2
<1> QED
    BY <1>1, <1>2, Invariant, PTL DEF Spec

\* Switching the buffer service on or off leaves the table alone.
LEMMA SwitchKeepsTable ==
    ASSUME Next
    PROVE  bufferSync' = bufferSync \/ table' = table
BY DEF Next, PublishStep, FlushStep, AddMessage, PublishBatch, DiscardUnbound, PublishOffline, PersistClaimedBatch, PublishInterrupted, PublishBuffered, PublishQueued,
       PublishLive, PublishConfirmed, PublishFailed, PersistFails, PersistRetried,
       PublishRejected, DeleteFails, MarkFails, Start, Stop, OrphanEnds, OrphanFails,
       ReloadBindings, Connect, Disconnect, SetPublishMode, DrainDone, DrainLate, FlushBuffer, FlushSettle, FlushMore,
       FlushEnds, FlushLive, FlushBuffered, FlushQueued, FlushRejected, FlushAborts,
       CleanupExpired, LockAges, RetryDue, Expire, Crash, linkVars, tableVars

\* What SQLite has is safe: no step takes a reading out of message_buffer unless the
\* broker has it, its drop is counted, or the buffer service was switched off under the
\* publisher and the reading went into the memory queue.
THEOREM DurableIsSafe == Spec => DurableStaysSafe
<1> DEFINE Safe(r) == \/ r \in delivered' \cup garbled' \cup dropped'
                      \/ bufferSync = "off" /\ r \in lost' \cup Waiting'
           Step == \A r \in Durable \ DataOf(table', DOMAIN table') : Safe(r)
<1>1. IInv /\ [Next]_vars => [Step]_vars
    <2> SUFFICES ASSUME IInv, Next, NEW r \in Durable \ DataOf(table', DOMAIN table')
                 PROVE  Safe(r)
        OBVIOUS
    <2>1. DataOf(table', DOMAIN table') = Durable'
        BY DEF Durable, Ids
    <2>2. table' # table
        BY <2>1 DEF Durable, Ids
    <2>3. bufferSync' = bufferSync
        BY <2>2, SwitchKeepsTable
    <2>4. Moves
        BY <2>2, DataStep DEF IInv, Crash, tableVars
    <2>5. r \in Kept'
        BY <2>4, DataParts, DurableIsKept DEF IInv, Moves
    <2>6. ~ \E i \in Ids' \ flush'.ok : r \in table'[i].data
        BY <2>1, InDurable
    <2> QED
        BY <2>3, <2>5, <2>6, KeptPartsNext
<1>2. DurableStaysSafe <=> [][Step]_vars
    BY DEF DurableStaysSafe
<1> HIDE DEF Step
<1> QED
    BY <1>1, <1>2, Invariant, PTL DEF Spec

\* Nothing that the agent has, drops or delivers comes from anywhere but a copy it had.
LEMMA NothingFromNowhere ==
    ASSUME IInv, Next
    PROVE  /\ taken \subseteq taken' /\ taken' \subseteq Readings
           /\ Copies' \subseteq Copies \cup (taken' \ taken)
           /\ delivered' \subseteq delivered \cup Copies
           /\ garbled' \subseteq garbled \cup Copies
           /\ dropped' \subseteq dropped \cup Copies /\ lost' \subseteq lost \cup Copies
<1>1. taken' \subseteq Readings
    BY TypeStep DEF IInv, TypeOK
<1>2. CASE Moves
    BY <1>1, <1>2 DEF Moves, Copies
<1>3. CASE Crash
    <2>1. /\ UNCHANGED <<table, taken, delivered, garbled, dropped>>
          /\ lost' \subseteq lost \cup Volatile /\ batch' = {} /\ pending' = <<>>
        BY <1>3 DEF Crash, tableVars
    <2>2. Durable' = Durable /\ Waiting' = {}
        BY <2>1 DEF Durable, Ids, Waiting
    <2> QED
        BY <1>1, <2>1, <2>2 DEF Copies, Volatile
<1> QED
    BY <1>2, <1>3, DataStep DEF IInv

LEMMA CopiesAreReadings ==
    ASSUME TypeOK
    PROVE  Copies \subseteq Readings
<1>1. BatchOK /\ TableOK /\ QueueOK
    BY TypeParts
<1>2. Durable \subseteq Readings
    BY <1>1, InDurable DEF TableOK, Table, Ids, Rows
<1>3. Waiting \subseteq Readings
    BY <1>1, QueueData DEF Waiting, WaitingIn, QueueOK
<1> QED
    BY <1>1, <1>2, <1>3 DEF Copies, BatchOK

\* Every step of the telemetry path is a step of the abstract stage.
LEMMA NextRefines ==
    ASSUME IInv, Next
    PROVE  SF!Next
<1> DEFINE New == taken' \ taken
           Up == dropped \cup lost \cup garbled
<1>1. /\ taken \subseteq taken' /\ taken' \subseteq Readings
      /\ Copies' \subseteq Copies \cup New
      /\ delivered' \subseteq delivered \cup Copies
      /\ Up' \subseteq Up \cup Copies
    BY NothingFromNowhere
<1>2. /\ taken' \subseteq taken \cup batch'
      /\ Copies \subseteq Copies' \cup delivered' \cup Up'
      /\ delivered \subseteq delivered' /\ Up \subseteq Up'
    BY CopiesLeaveTraces
<1>3. Copies \subseteq Readings
    BY CopiesAreReadings DEF IInv
<1>4. batch' \subseteq Copies'
    BY DEF Copies
<1>5. \E S \in SUBSET Readings : SF!Take(S)
    <2>1. New \in SUBSET Readings /\ New \subseteq Readings \ taken /\ taken' = taken \cup New
        BY <1>1
    <2> QED
        BY <2>1 DEF SF!Take
<1>6. \E S \in SUBSET Readings : SF!Deliver(S)
    <2> DEFINE D == delivered' \ delivered
    <2>1. D \in SUBSET Readings /\ D \subseteq Copies /\ delivered' = delivered \cup D
        BY <1>1, <1>2, <1>3
    <2> QED
        BY <2>1 DEF SF!Deliver
<1>7. \E S \in SUBSET Readings : SF!GiveUp(S)
    <2> DEFINE G == Up' \ Up
    <2>1. G \in SUBSET Readings /\ G \subseteq Copies \cup New /\ Up' = Up \cup G
        BY <1>1, <1>2, <1>3
    <2> QED
        BY <2>1 DEF SF!GiveUp
<1>8. Copies \cup New \subseteq Copies' \cup delivered' \cup Up'
    BY <1>2, <1>4
<1> QED
    BY <1>1, <1>5, <1>6, <1>7, <1>8 DEF SF!Next

\* The telemetry path implements the store-and-forward stage: every reading taken is
\* held, delivered or given up, and nothing held is forgotten.
THEOREM Refinement == Spec => ImplementsStoreAndForward
<1>1. Init => SF!Init
    BY InitInv DEF Init, SF!Init
<1>2. IInv /\ [Next]_vars => [SF!Next]_(SF!sfVars)
    <2> SUFFICES ASSUME IInv, [Next]_vars PROVE [SF!Next]_(SF!sfVars)
        OBVIOUS
    <2>1. CASE Next
        BY <2>1, NextRefines
    <2>2. CASE UNCHANGED vars
        <3>1. Copies' = Copies
            BY <2>2 DEF vars, pubVars, queueVars, tableVars, Copies, Durable, Waiting, Ids
        <3> QED
            BY <2>2, <3>1 DEF vars, histVars, SF!sfVars
    <2> QED
        BY <2>1, <2>2
<1> QED
    BY <1>1, <1>2, Invariant, PTL DEF Spec, ImplementsStoreAndForward, SF!Spec
=============================================================================
