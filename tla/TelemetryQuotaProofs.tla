----------------------- MODULE TelemetryQuotaProofs -----------------------
(***************************************************************************)
(* How far the message_buffer table can outgrow its quota.  enforceQuotas  *)
(* drops the oldest queued rows and never a locked one, so after an insert *)
(* the table is within its quota or all of its rows are locked.  A locked  *)
(* row is that of the publish under way, one of a flush's batch, or was    *)
(* left behind by a crash, an SQLite error or a stopped manager.           *)
(***************************************************************************)
EXTENDS TelemetryProofs, WellFoundedInduction

(* Sets of numbers *)

LEMMA LeastElement ==
    ASSUME NEW S, S \subseteq Nat, S # {}
    PROVE  \E m \in S : \A x \in S : m <= x
<1> DEFINE R == OpToRel(<, Nat)
<1>1. \A x \in Nat : \A y \in Nat : <<y, x>> \in R <=> y < x
    BY DEF OpToRel
<1>2. IsWellFoundedOn(R, Nat)
    BY NatLessThanWellFounded
<1> HIDE DEF R
<1>3. \E m \in S : \A y \in S : ~(<<y, m>> \in R)
    BY <1>2, WFMin, Zenon
<1>4. PICK m \in S : \A y \in S : ~(<<y, m>> \in R)
    BY <1>3
<1>5. ASSUME NEW y \in S PROVE m <= y
    <2>1. y \in Nat /\ m \in Nat
        OBVIOUS
    <2>2. ~(y < m)
        BY <1>1, <1>4, <2>1, Zenon
    <2> QED
        BY <2>1, <2>2
<1> QED
    BY <1>5

LEMMA GreatestElement ==
    ASSUME NEW n \in Nat, NEW S, S \subseteq 0 .. n, S # {}
    PROVE  \E m \in S : \A x \in S : x <= m
<1> DEFINE U == {u \in 0 .. n : \A x \in S : x <= u}
<1>1. n \in U /\ U \subseteq Nat
    OBVIOUS
<1>2. PICK m \in U : \A u \in U : m <= u
    BY <1>1, LeastElement
<1>3. m \in S
    <2>1. SUFFICES ASSUME m \notin S PROVE FALSE
        OBVIOUS
    <2>2. m \in 0 .. n /\ \A x \in S : x <= m
        OBVIOUS
    <2>3. \A x \in S : x \in 0 .. n /\ x <= m /\ x # m
        BY <2>1, <2>2
    <2>5. \A x \in S : x <= m - 1
        BY <2>2, <2>3
    <2>6. m - 1 \in 0 .. n
        <3>1. PICK x \in S : TRUE
            OBVIOUS
        <3> QED
            BY <2>2, <2>3, <2>5, <3>1
    <2>4. m - 1 \in U
        BY <2>5, <2>6
    <2> HIDE DEF U
    <2> QED
        BY <1>2, <2>2, <2>4
<1> QED
    BY <1>3

\* The n oldest rows are no more than n, ...
LEMMA OldestFew ==
    ASSUME NEW b \in Nat, NEW S, S \subseteq 0 .. b, NEW n \in Nat
    PROVE  IsFiniteSet(Oldest(S, n)) /\ Cardinality(Oldest(S, n)) <= n
<1> DEFINE O == Oldest(S, n)
           Before(i) == {j \in S : j < i}
<1>1. IsFiniteSet(S)
    <2>1. 0 \in Int /\ b \in Int /\ S \in SUBSET (0 .. b)
        OBVIOUS
    <2>2. IsFiniteSet(0 .. b)
        BY <2>1, FS_Interval
    <2> QED
        BY <2>1, <2>2, FS_Subset
<1>2. O \subseteq S /\ \A i \in O : Cardinality(Before(i)) < n
    BY DEF Oldest
<1>3. IsFiniteSet(O)
    BY <1>1, <1>2, FS_Subset
<1>4. CASE O = {}
    BY <1>4, FS_EmptySet
<1>5. CASE O # {}
    <2> HIDE DEF O
    <2>1. PICK m \in O : \A x \in O : x <= m
        BY <1>2, <1>5, GreatestElement
    <2> DEFINE B == Before(m)
    <2>2. O \subseteq B \cup {m} /\ m \notin B /\ B \subseteq S
        BY <1>2, <2>1
    <2>3. Cardinality(B) < n
        BY <1>2
    <2> HIDE DEF B
    <2>4. IsFiniteSet(B) /\ Cardinality(B) \in Nat
        BY <1>1, <2>2, FS_Subset, FS_CardinalityType
    <2>5. IsFiniteSet(B \cup {m}) /\ Cardinality(B \cup {m}) = Cardinality(B) + 1
        BY <2>2, <2>4, FS_AddElement
    <2>6. Cardinality(O) <= Cardinality(B \cup {m})
        BY <2>2, <2>5, FS_Subset
    <2>7. Cardinality(O) \in Nat
        BY <1>3, FS_CardinalityType
    <2> QED
        BY <1>3, <2>3, <2>4, <2>5, <2>6, <2>7 DEF O
<1> QED
    BY <1>4, <1>5

\* ... and no fewer, unless there are no others.
LEMMA OldestEnough ==
    ASSUME NEW b \in Nat, NEW S, S \subseteq 0 .. b, NEW n \in Nat
    PROVE  Oldest(S, n) = S \/ n <= Cardinality(Oldest(S, n))
<1> DEFINE O == Oldest(S, n)
           Before(i) == {j \in S : j < i}
<1>1. IsFiniteSet(S)
    <2>1. 0 \in Int /\ b \in Int /\ S \in SUBSET (0 .. b)
        OBVIOUS
    <2>2. IsFiniteSet(0 .. b)
        BY <2>1, FS_Interval
    <2> QED
        BY <2>1, <2>2, FS_Subset
<1>2. O \subseteq S /\ \A i \in S : i \in O <=> Cardinality(Before(i)) < n
    BY DEF Oldest
<1>3. IsFiniteSet(O) /\ Cardinality(O) \in Nat
    BY <1>1, <1>2, FS_Subset, FS_CardinalityType
<1>4. SUFFICES ASSUME O # S PROVE n <= Cardinality(O)
    OBVIOUS
<1> HIDE DEF O
<1> DEFINE D == S \ O
<1>8. D \subseteq Nat /\ D # {}
    <2>1. O \subseteq S /\ O # S
        BY <1>2, <1>4
    <2>2. \E x \in S : x \notin O
        BY <2>1, Zenon
    <2>3. S \subseteq Nat
        OBVIOUS
    <2>4. D \subseteq Nat
        BY <2>3, Zenon
    <2> QED
        BY <2>2, <2>4
<1> HIDE DEF D
<1>9. PICK m \in D : \A x \in D : m <= x
    BY <1>8, LeastElement
<1> DEFINE B == Before(m)
<1>5. m \in S /\ m \notin O
    BY <1>9 DEF D
<1>10. ~(Cardinality(B) < n)
    BY <1>2, <1>5
<1>11. ASSUME NEW j \in B PROVE j \in O
    <2>1. j \in S /\ j < m /\ j \in Nat /\ m \in Nat
        BY <1>5, <1>11
    <2>2. j \notin D
        BY <1>9, <2>1
    <2> QED
        BY <2>1, <2>2 DEF D
<1>6. B \subseteq O /\ ~(Cardinality(B) < n)
    BY <1>10, <1>11
<1> HIDE DEF B
<1>7. Cardinality(B) \in Nat /\ Cardinality(B) <= Cardinality(O)
    BY <1>3, <1>6, FS_Subset, FS_CardinalityType
<1> QED
    BY <1>3, <1>6, <1>7
-----------------------------------------------------------------------------
(* The inductive invariant *)

\* The locked rows, and those of them that nobody works on any more.
Busy == {i \in Ids : table[i].status = "sending"}
Strays == Busy \ (FlushRows \cup {pub.row})

\* How many of these there may be: a fault leaves behind no more locked rows than were
\* being worked on, another event at most the row of the publish under way.
Left == (FlushBatch + 1) * faults + (events - faults)

\* A flush claims no more than a batch.
QuotaInv ==
    /\ faults <= events
    /\ Cardinality(FlushRows) <= FlushBatch
    /\ Cardinality(Strays) <= Left
    /\ TableBounded

\* Everything here is finite.
LEMMA FiniteRows ==
    ASSUME NEW n \in Nat, NEW I, I \subseteq 1 .. n - 1
    PROVE  /\ IsFiniteSet(I) /\ Cardinality(I) \in Nat
           /\ \A S \in SUBSET I : /\ IsFiniteSet(S) /\ Cardinality(S) \in Nat
                                  /\ Cardinality(S) <= Cardinality(I)
<1>1. n - 1 \in Int /\ 1 \in Int
    OBVIOUS
<1>2. IsFiniteSet(1 .. n - 1)
    BY <1>1, FS_Interval
<1>3. IsFiniteSet(I)
    BY <1>2, FS_Subset
<1> QED
    BY <1>3, FS_Subset, FS_CardinalityType
-----------------------------------------------------------------------------
(* What a step may do to the table, its locks and the flush *)

\* The rows a fault or a stop leaves behind, and none are left behind without one.
StraysMove ==
    \/ faults' = faults /\ Strays' \subseteq Strays
    \/ faults' = faults + 1 /\ Strays' \subseteq Strays \cup FlushRows \cup {pub.row}
    \/ /\ faults' = faults /\ events' = events + 1
       /\ Strays' \subseteq Strays \cup {pub.row}
CountsMove ==
    \/ faults' = faults /\ events' \in {events, events + 1}
    \/ faults' = faults + 1 /\ events' = events + 1
FlushMove ==
    \/ FlushRows' \subseteq FlushRows
    \/ IsFiniteSet(FlushRows') /\ Cardinality(FlushRows') <= FlushBatch
\* The table grows within the quota, or when all of its rows are locked.
TableMove == Ids' \subseteq Ids \/ Cardinality(Ids') <= MaxRecords \/ Ids' = Busy'

LEMMA Products ==
    ASSUME NEW a \in Nat, NEW n \in Nat
    PROVE  /\ a * n \in Nat /\ a * (n + 1) = a * n + a /\ a * n <= a * (n + 1)
<1>1. a * n \in Nat /\ a * (n + 1) = a * n + a
    OBVIOUS
<1> QED
    BY <1>1

\* The rows of three workers: one set, another, and one row more.
LEMMA ThreeParts ==
    ASSUME NEW Q, IsFiniteSet(Q), NEW P, IsFiniteSet(P), NEW p, NEW N, N \subseteq Q \cup (P \cup {p})
    PROVE  /\ Cardinality(Q) \in Nat /\ Cardinality(P) \in Nat /\ Cardinality(N) \in Nat
           /\ Cardinality(N) <= Cardinality(Q) + (Cardinality(P) + 1)
<1> DEFINE R == P \cup {p}
<1>1. Cardinality(Q) \in Nat /\ Cardinality(P) \in Nat
    BY FS_CardinalityType
<1>2. IsFiniteSet(R) /\ Cardinality(R) \in Nat /\ Cardinality(R) <= Cardinality(P) + 1
    <2>1. /\ IsFiniteSet(R)
          /\ Cardinality(R) = IF p \in P THEN Cardinality(P) ELSE Cardinality(P) + 1
        BY FS_AddElement
    <2>2. Cardinality(R) \in Nat
        BY <2>1, FS_CardinalityType
    <2> HIDE DEF R
    <2> QED
        BY <1>1, <2>1, <2>2
<1>0. N \subseteq Q \cup R
    OBVIOUS
<1> HIDE DEF R
<1>3. /\ IsFiniteSet(Q \cup R)
      /\ Cardinality(Q \cup R) = Cardinality(Q) + Cardinality(R) - Cardinality(Q \cap R)
    BY <1>2, FS_Union
<1>4. IsFiniteSet(Q \cap R)
    BY FS_Intersection
<1>5. Cardinality(Q \cap R) \in Nat /\ Cardinality(Q \cup R) \in Nat
    BY <1>3, <1>4, FS_CardinalityType
<1>6. IsFiniteSet(N) /\ Cardinality(N) <= Cardinality(Q \cup R)
    BY <1>0, <1>3, FS_Subset
<1>7. Cardinality(N) \in Nat
    BY <1>6, FS_CardinalityType
<1> QED
    BY <1>1, <1>2, <1>3, <1>5, <1>6, <1>7

\* What may be left behind grows with the events, and by more with a fault.
LEMMA LeftGrows ==
    ASSUME CountsOK, faults <= events, CountsMove
    PROVE  /\ Left \in Nat /\ Left' \in Nat /\ Left <= Left' /\ faults' <= events'
           /\ faults' = faults + 1 => Left' = Left + (FlushBatch + 1)
           /\ faults' = faults /\ events' = events + 1 => Left' = Left + 1
           /\ (FlushBatch + 1) * (faults + 1) + (events - faults) = Left + (FlushBatch + 1)
           /\ (FlushBatch + 1) * (faults' + 1) + (events' - faults') = Left' + (FlushBatch + 1)
<1> DEFINE C == FlushBatch + 1
           x == C * faults
           y == C * faults'
<1>1. FlushBatch \in Nat /\ C \in Nat /\ faults \in Nat /\ events \in Nat
    BY LimitsAssumption DEF CountsOK
<1>2. faults' \in Nat /\ events' \in Nat /\ faults' <= events'
    BY <1>1 DEF CountsMove
<1>3. x \in Nat /\ C * (faults + 1) = x + C /\ y \in Nat /\ C * (faults' + 1) = y + C
    BY <1>1, <1>2, Products
<1> DEFINE d == events - faults
           dn == events' - faults'
           z == C * (faults + 1)
           zn == C * (faults' + 1)
<1>4. Left = x + d /\ Left' = y + dn
    BY DEF Left
<1>8. d \in Nat /\ dn \in Nat
    <2>1. \A m \in Nat : \A n \in Nat : m <= n => n - m \in Nat
        OBVIOUS
    <2>2. d \in Nat
        BY <1>1, <2>1
    <2>3. dn \in Nat
        BY <1>2, <2>1
    <2> QED
        BY <2>2, <2>3
<1>5. z + d = Left + C /\ zn + dn = Left' + C
    <2> HIDE DEF C, x, y, d, dn, z, zn
    <2>1. z = x + C /\ zn = y + C
        BY <1>3 DEF z, zn
    <2> QED
        BY <1>1, <1>3, <1>4, <1>8, <2>1
<1>6. CASE faults' = faults /\ events' \in {events, events + 1}
    <2>4. y = x
        BY <1>6
    <2>5. dn \in {d, d + 1} /\ (events' = events + 1 => dn = d + 1)
        <3>1. \A m \in Nat : \A n \in Nat : (n + 1) - m = (n - m) + 1 /\ n + 1 # n
            OBVIOUS
        <3>2. CASE events' = events
            <4>1. dn = d /\ events' # events + 1
                BY <1>1, <1>6, <3>1, <3>2
            <4> QED
                BY <4>1
        <3>3. CASE events' = events + 1
            <4>1. dn = (events + 1) - faults
                BY <1>6, <3>3
            <4>2. (events + 1) - faults = d + 1
                BY <1>1, <3>1
            <4> QED
                BY <4>1, <4>2
        <3> QED
            BY <1>6, <3>2, <3>3
    <2>1. y = x /\ dn \in {d, d + 1} /\ (events' = events + 1 => dn = d + 1)
        BY <2>4, <2>5
    <2>3. faults' # faults + 1
        BY <1>1, <1>6
    <2>2. /\ Left \in Nat /\ Left' \in Nat /\ Left <= Left'
          /\ events' = events + 1 => Left' = Left + 1
        <3> HIDE DEF C, x, y, d, dn
        <3> QED
            BY <1>3, <1>4, <1>8, <2>1
    <2> QED
        BY <1>2, <1>5, <2>2, <2>3
<1>7. CASE faults' = faults + 1 /\ events' = events + 1
    <2>1. y = x + C /\ dn = d /\ faults' # faults
        BY <1>1, <1>3, <1>7
    <2>2. Left \in Nat /\ Left' \in Nat /\ Left <= Left' /\ Left' = Left + C
        <3> HIDE DEF C, x, y, d, dn
        <3> QED
            BY <1>1, <1>3, <1>4, <1>8, <2>1
    <2> QED
        BY <1>2, <1>5, <1>7, <2>1, <2>2
<1> QED
    BY <1>6, <1>7 DEF CountsMove

\* Any such step keeps the invariant.
LEMMA QuotaStep ==
    ASSUME TableOK, TableOK', FlushOK', CountsOK, WorkInv, WorkInv', QuotaInv,
           CountsMove, StraysMove, FlushMove, TableMove
    PROVE  QuotaInv'
<1> DEFINE C == FlushBatch + 1
           F == FlushRows
           O == Strays
<1>1. C \in Nat /\ FlushBatch \in Nat /\ MaxRecords \in Nat
    BY LimitsAssumption
<1>2. /\ F \in SUBSET Ids /\ F' \in SUBSET Ids'
      /\ O \in SUBSET Ids /\ O' \in SUBSET Ids'
    BY DEF WorkInv, Strays, Busy
<1>0. /\ nextId \in Nat /\ Ids \subseteq 1 .. nextId - 1
      /\ nextId' \in Nat /\ Ids' \subseteq 1 .. nextId' - 1
    BY DEF TableOK
<1>3. /\ IsFiniteSet(F) /\ Cardinality(F) \in Nat /\ IsFiniteSet(O) /\ Cardinality(O) \in Nat
      /\ IsFiniteSet(Ids) /\ Cardinality(Ids) \in Nat
    BY <1>0, <1>2, FiniteRows
<1>4. /\ IsFiniteSet(Ids') /\ Cardinality(Ids') \in Nat
      /\ \A S \in SUBSET Ids' : IsFiniteSet(S) /\ Cardinality(S) \in Nat
    BY <1>0, FiniteRows
<1>5. /\ IsFiniteSet(F') /\ Cardinality(F') \in Nat
      /\ IsFiniteSet(O') /\ Cardinality(O') \in Nat
    BY <1>2, <1>4
<1>6. Cardinality(F) <= FlushBatch /\ Cardinality(O) <= Left /\ faults <= events
    BY DEF QuotaInv
<1>10. /\ Left \in Nat /\ Left' \in Nat /\ Left <= Left' /\ faults' <= events'
       /\ faults' = faults + 1 => Left' = Left + C
       /\ faults' = faults /\ events' = events + 1 => Left' = Left + 1
    BY <1>6, LeftGrows
<1>11. /\ (FlushBatch + 1) * (faults + 1) + (events - faults) = Left + C
       /\ (FlushBatch + 1) * (faults' + 1) + (events' - faults') = Left' + C
    BY <1>6, LeftGrows
<1>7. Cardinality(F') <= FlushBatch
    <2>1. CASE FlushRows' \subseteq FlushRows
        <3>1. Cardinality(F') <= Cardinality(F)
            BY <1>3, <2>1, FS_Subset
        <3> QED
            BY <1>1, <1>3, <1>5, <1>6, <3>1
    <2>2. CASE Cardinality(FlushRows') <= FlushBatch
        BY <2>2
    <2> QED
        BY <2>1, <2>2 DEF FlushMove
<1>8. Cardinality(O') <= Left'
    <2>1. CASE Strays' \subseteq Strays
        <3>1. Cardinality(O') <= Cardinality(O)
            BY <1>3, <2>1, FS_Subset
        <3> QED
            BY <1>3, <1>5, <1>6, <1>10, <3>1
    <2>2. CASE faults' = faults + 1 /\ Strays' \subseteq Strays \cup FlushRows \cup {pub.row}
        <3> DEFINE p == pub.row
        <3> HIDE DEF F, O, p
        <3>1. O' \subseteq O \cup (F \cup {p})
            BY <2>2 DEF F, O, p
        <3>2. Cardinality(O') <= Cardinality(O) + (Cardinality(F) + 1)
            BY <1>3, <3>1, ThreeParts
        <3>3. Left' = Left + (FlushBatch + 1)
            BY <1>10, <2>2
        <3> QED
            BY <1>1, <1>3, <1>5, <1>6, <1>10, <3>2, <3>3
    <2>3. CASE /\ faults' = faults /\ events' = events + 1
               /\ Strays' \subseteq Strays \cup {pub.row}
        <3> DEFINE p == pub.row
                   N == {}
        <3>1. IsFiniteSet(N) /\ Cardinality(N) = 0
            BY FS_EmptySet
        <3>2. O' \subseteq O \cup (N \cup {p})
            BY <2>3
        <3> HIDE DEF O, p, N
        <3>3. Cardinality(O') <= Cardinality(O) + (Cardinality(N) + 1)
            BY <1>3, <3>1, <3>2, ThreeParts
        <3>4. Left' = Left + 1
            BY <1>10, <2>3
        <3> QED
            BY <1>3, <1>5, <1>6, <1>10, <3>1, <3>3, <3>4
    <2> QED
        BY <2>1, <2>2, <2>3 DEF StraysMove
<1>9. TableBounded'
    <2> DEFINE q == Left + C
               qn == Left' + C
    <2>2. q \in Nat /\ qn \in Nat /\ q <= qn
        <3>1. \A a \in Nat : \A b \in Nat : a <= b => a + C \in Nat /\ b + C \in Nat /\ a + C <= b + C
            <4> HIDE DEF C
            <4> QED
                BY <1>1
        <3>2. Left \in Nat /\ Left' \in Nat /\ Left <= Left'
            BY <1>10
        <3> HIDE DEF C
        <3> QED
            BY <3>1, <3>2
    <2>3. SUFFICES Cardinality(Ids') <= MaxRecords \/ Cardinality(Ids') <= qn
        BY <1>11 DEF TableBounded
    <2>4. Cardinality(Ids) <= MaxRecords \/ Cardinality(Ids) <= q
        BY <1>11 DEF QuotaInv, TableBounded
    <2>5. CASE Ids' \subseteq Ids
        <3>1. Cardinality(Ids') <= Cardinality(Ids)
            BY <1>3, <2>5, FS_Subset
        <3> HIDE DEF q, qn
        <3> QED
            BY <1>1, <1>3, <1>4, <2>2, <2>4, <3>1
    <2>6. CASE Cardinality(Ids') <= MaxRecords
        BY <2>6
    <2>7. CASE Ids' = Busy'
        <3> DEFINE p == pub'.row
                   P == F'
                   Q == O'
                   N == Ids'
        <3>1. N \subseteq Q \cup (P \cup {p})
            BY <2>7 DEF Strays
        <3>3. /\ IsFiniteSet(P) /\ Cardinality(P) \in Nat
              /\ IsFiniteSet(Q) /\ Cardinality(Q) \in Nat /\ Cardinality(N) \in Nat
              /\ Cardinality(P) <= FlushBatch /\ Cardinality(Q) <= Left'
            BY <1>4, <1>5, <1>7, <1>8
        <3> HIDE DEF p, P, Q, N
        <3>4. Cardinality(N) <= Cardinality(Q) + (Cardinality(P) + 1)
            BY <3>1, <3>3, ThreeParts
        <3>7. Cardinality(N) <= Left' + (FlushBatch + 1)
            BY <1>1, <1>10, <3>3, <3>4
        <3> QED
            BY <3>7 DEF N
    <2> QED
        BY <2>5, <2>6, <2>7 DEF TableMove
<1> QED
    BY <1>7, <1>8, <1>9, <1>10 DEF QuotaInv
-----------------------------------------------------------------------------
(* Every step is such a step. *)

\* insertRecord leaves the table within its quota, or without a row it could drop.
LEMMA InsertQuota ==
    ASSUME TableOK, NEW r \in Rows, InsertRecord(r)
    PROVE  Cardinality(Ids') <= MaxRecords \/ Ids' = Busy'
<1> DEFINE t == Inserted(r)
           D == DOMAIN t
           Q == Queued(t)
           k == Cardinality(D) - MaxRecords
           X == Excess(t)
<1>1. D = Ids \cup {nextId} /\ Table(t)
    BY InsertedRows
<1>2. nextId \in Nat /\ nextId + 2 \in Nat /\ Ids \subseteq 1 .. nextId - 1
    BY DEF TableOK
<1>3. D \subseteq 1 .. (nextId + 2) - 1 /\ D \subseteq 0 .. nextId
    BY <1>1, <1>2 DEF TableOK
<1>4. Q \subseteq D /\ \A i \in D : i \notin Q => t[i].status = "sending"
    BY <1>1 DEF Queued, Table, Rows
<1>5. X = IF Cardinality(D) > MaxRecords THEN Oldest(Q, k) ELSE {}
    BY DEF Excess
<1>6. Ids' = D \ X /\ \A i \in Ids' : table'[i] = t[i]
    <2>1. table' = Without(t, X)
        BY DEF InsertRecord
    <2> HIDE DEF t, X
    <2>2. DOMAIN Without(t, X) = DOMAIN t \ X /\ \A i \in DOMAIN t \ X : Without(t, X)[i] = t[i]
        BY WithoutRows
    <2> QED
        BY <2>1, <2>2 DEF Ids
<1> HIDE DEF D, Q, k, X, t
<1>7. IsFiniteSet(D) /\ Cardinality(D) \in Nat
    BY <1>2, <1>3, FiniteRows
<1>8. MaxRecords \in Nat
    BY LimitsAssumption
<1>9. CASE Cardinality(D) <= MaxRecords
    <2>1. X = {}
        BY <1>5, <1>7, <1>8, <1>9
    <2>2. Ids' = D
        BY <1>6, <2>1
    <2> QED
        BY <1>9, <2>2
<1>10. CASE Cardinality(D) > MaxRecords
    <2>1. X = Oldest(Q, k) /\ k \in Nat /\ Cardinality(D) = k + MaxRecords
        BY <1>5, <1>7, <1>8, <1>10 DEF k
    <2>2. Q \subseteq 0 .. nextId
        BY <1>3, <1>4
    <2>3. X = Q \/ k <= Cardinality(X)
        BY <1>2, <2>1, <2>2, OldestEnough
    <2>4. CASE X = Q
        <3>1. \A i \in Ids' : table'[i].status = "sending"
            BY <1>4, <1>6, <2>4
        <3> QED
            BY <3>1 DEF Busy
    <2>5. CASE k <= Cardinality(X)
        <3>1. X \subseteq D
            BY <1>4, <2>1 DEF Oldest
        <3>2. D \cap X = X
            BY <3>1
        <3>3. IsFiniteSet(D \ X) /\ Cardinality(D \ X) = Cardinality(D) - Cardinality(X)
            BY <1>7, <3>2, FS_Difference
        <3>4. Cardinality(X) \in Nat
            BY <1>7, <3>1, FS_Subset, FS_CardinalityType
        <3> QED
            BY <1>6, <1>7, <1>8, <2>1, <2>5, <3>3, <3>4
    <2> QED
        BY <2>3, <2>4, <2>5
<1> QED
    BY <1>7, <1>8, <1>9, <1>10

\* The row handlePublish adds is queued, and keeps the table within its quota.
LEMMA BufferQuota ==
    ASSUME TableOK, NEW data \in SUBSET Readings, NEW enc, NEW gone,
           BufferPublish(data, enc, gone)
    PROVE  /\ Ids' \subseteq Ids \/ Cardinality(Ids') <= MaxRecords
           /\ \A i \in Ids' : table'[i].status = "sending" =>
                 i \in Ids /\ i \notin gone /\ table[i].status = "sending"
<1> DEFINE r == Row(data, Stored(enc), "queued")
           u == Inserted(r)
<1>1. r \in Rows /\ r.status = "queued"
    BY RowType DEF Stored
<1>2. CASE table' = Without(table, gone)
    <2>1. DOMAIN table' = Ids \ gone /\ \A i \in Ids \ gone : table'[i] = table[i]
        BY <1>2, WithoutRows DEF Ids
    <2> QED
        BY <2>1 DEF Ids
<1>3. CASE ~(Cardinality(Ids) + 1 > MaxRecords) /\ table' = Without(u, gone)
    <2> HIDE DEF r
    <2>1. DOMAIN u = Ids \cup {nextId} /\ u[nextId] = r /\ \A i \in Ids : u[i] = table[i]
        BY <1>1, InsertedRows
    <2> HIDE DEF u
    <2>2. DOMAIN table' = DOMAIN u \ gone /\ \A i \in DOMAIN u \ gone : table'[i] = u[i]
        BY <1>3, WithoutRows
    <2>3. ASSUME NEW i \in Ids', table'[i].status = "sending"
          PROVE  i \in Ids /\ i \notin gone /\ table[i].status = "sending"
        BY <1>1, <2>1, <2>2, <2>3 DEF Ids
    <2>4. nextId \in Nat /\ Ids \subseteq 1 .. nextId - 1 /\ MaxRecords \in Nat /\ nextId \notin Ids
        BY LimitsAssumption DEF TableOK
    <2>5. IsFiniteSet(Ids) /\ Cardinality(Ids) \in Nat
        BY <2>4, FiniteRows
    <2>6. IsFiniteSet(Ids \cup {nextId}) /\ Cardinality(Ids \cup {nextId}) = Cardinality(Ids) + 1
        BY <2>4, <2>5, FS_AddElement
    <2>7. Ids' \subseteq Ids \cup {nextId}
        BY <2>1, <2>2 DEF Ids
    <2>8. IsFiniteSet(Ids') /\ Cardinality(Ids') <= Cardinality(Ids \cup {nextId})
        BY <2>6, <2>7, FS_Subset
    <2>9. Cardinality(Ids') \in Nat
        BY <2>8, FS_CardinalityType
    <2>10. Cardinality(Ids') <= MaxRecords
        BY <1>3, <2>4, <2>5, <2>6, <2>8, <2>9
    <2> QED
        BY <2>3, <2>10
<1>4. CASE ~(Cardinality(Ids) + 1 > MaxRecords)
    <2>1. table' = Without(Without(u, Excess(u)), gone)
        BY <1>4 DEF BufferPublish
    <2>2. Without(u, Excess(u)) = u
        BY <1>1, <1>4, AdmittedRows
    <2> QED
        BY <1>3, <1>4, <2>1, <2>2
<1> QED
    BY <1>2, <1>4 DEF BufferPublish

\* Without a fault a locked row was locked before and is in the same hands.
LEMMA NoneLeftBehind ==
    ASSUME faults' = faults,
           \A i \in Ids' : table'[i].status = "sending" =>
              \/ i \in FlushRows' \cup {pub'.row}
              \/ i \in Ids /\ table[i].status = "sending" /\ i \notin FlushRows \cup {pub.row}
    PROVE  StraysMove
BY DEF StraysMove, Strays, Busy

\* A fault locks no row.
LEMMA LeftBehind ==
    ASSUME faults' = faults + 1,
           \A i \in Ids' : table'[i].status = "sending" => i \in Ids /\ table[i].status = "sending"
    PROVE  StraysMove
BY DEF StraysMove, Strays, Busy


\* Steps that leave the rows, their locks and the batch of the flush alone.
LEMMA QuietQuota ==
    ASSUME CountsOK, table' = table, FlushRows' = FlushRows,
           \/ faults' = faults /\ pub'.row = pub.row
           \/ faults' = faults + 1
    PROVE  StraysMove /\ FlushMove /\ TableMove
<1>1. Ids' = Ids /\ \A i \in Ids : table'[i] = table[i]
    BY DEF Ids
<1>2. StraysMove
    BY <1>1, NoneLeftBehind, LeftBehind
<1> QED
    BY <1>1, <1>2 DEF FlushMove, TableMove

\* The steps of the publisher that write the table.
LEMMA PublisherQuota ==
    ASSUME BatchOK, TableOK, TableOK', WorkInv,
           \/ PublishOffline \/ PersistClaimedBatch \/ PersistRetried \/ PublishInterrupted
           \/ \E enc \in Encodings : PublishBuffered(enc) \/ PublishQueued(enc)
           \/ PublishRejected \/ PublishConfirmed \/ PublishFailed
    PROVE  StraysMove /\ FlushMove /\ TableMove
<1> USE DEF pubVars, tableVars, envVars
<1>1. pub.data \in SUBSET Readings /\ nextId \in Nat /\ nextId \notin Ids /\ 0 \notin Ids
    BY DEF BatchOK, PubRecord, TableOK
<1>2. flush' = flush /\ FlushRows' = FlushRows /\ FlushMove
    <2>1. flush' = flush
        BY DEF PublishOffline, PersistClaimedBatch, PersistRetried, PublishInterrupted,
               PublishBuffered, PublishQueued, PublishRejected, BufferRejects,
               PublishConfirmed, PublishFailed
    <2> QED
        BY <2>1 DEF FlushRows, FlushMove
<1>3. CASE PublishOffline \/ PersistClaimedBatch \/ PersistRetried
    <2>1. PICK status \in {"queued", "sending"} :
             /\ InsertRecord(Row(pub.data, "json", status))
             /\ status = "sending" => pub'.row = nextId /\ faults' = faults
             /\ pub.pc = "building"
             /\ faults' = faults \/ faults' = faults + 1
        BY <1>3 DEF PublishOffline, PersistClaimedBatch, PersistRetried, Fault, BatchOK, PubRecord
    <2> DEFINE r == Row(pub.data, "json", status)
    <2>2. r \in Rows /\ r.status = status
        BY <1>1, RowType
    <2>3. InsertRecord(r)
        BY <2>1
    <2> HIDE DEF r
    <2>4. /\ Ids' \subseteq Ids \cup {nextId}
          /\ \A i \in Ids \cap Ids' : table'[i] = table[i]
          /\ nextId \in Ids' => table'[nextId] = r
        BY <2>2, <2>3, InsertEffect
    <2>5. TableMove
        BY <2>2, <2>3, InsertQuota DEF TableMove
    <2>6. ASSUME NEW i \in Ids', table'[i].status = "sending"
          PROVE  \/ i = pub'.row /\ status = "sending"
                 \/ i \in Ids /\ table[i].status = "sending" /\ i # pub.row
        <3>1. CASE i = nextId
            BY <2>1, <2>2, <2>4, <2>6, <3>1
        <3>2. CASE i \in Ids
            <4>1. pub.row = 0
                BY <2>1 DEF WorkInv
            <4> QED
                BY <1>1, <2>4, <2>6, <3>2, <4>1
        <3> QED
            BY <2>4, <2>6, <3>1, <3>2
    <2>7. StraysMove
        <3>1. CASE faults' = faults
            BY <1>2, <2>6, <3>1, NoneLeftBehind
        <3>2. CASE faults' = faults + 1 /\ faults' # faults
            BY <2>1, <2>6, <3>2, LeftBehind
        <3> QED
            BY <2>1, <3>1, <3>2
    <2> QED
        BY <1>2, <2>5, <2>7
<1>4. CASE PublishInterrupted \/ PublishRejected \/ PublishFailed
    <2> DEFINE S == {pub.row}
    <2>1. /\ table' = MarkRetryFailed(table, S, FALSE) /\ nextId' = nextId
          /\ faults' = faults \/ faults' = faults + 1
        BY <1>4 DEF PublishInterrupted, PublishRejected, BufferRejects, PublishFailed, Fault
    <2> HIDE DEF S
    <2>2. /\ Ids' = Ids /\ \A i \in Ids \ S : table'[i] = table[i]
          /\ \A i \in Ids \cap S : table'[i].status = "queued"
        BY <2>1, MarkEffect
    <2>3. ASSUME NEW i \in Ids', table'[i].status = "sending"
          PROVE  i \in Ids /\ table[i].status = "sending" /\ i # pub.row
        <3>1. i \in Ids /\ i \notin S
            BY <2>2, <2>3
        <3> QED
            BY <2>2, <2>3, <3>1 DEF S
    <2>4. StraysMove
        BY <1>2, <2>1, <2>3, NoneLeftBehind, LeftBehind
    <2> QED
        BY <1>2, <2>2, <2>4 DEF TableMove
<1>5. ASSUME NEW enc \in Encodings, PublishBuffered(enc)
      PROVE  StraysMove /\ FlushMove /\ TableMove
    <2> DEFINE gone == {pub.row}
    <2>1. BufferPublish(pub.data, enc, gone) /\ faults' = faults
        BY <1>5 DEF PublishBuffered
    <2> HIDE DEF gone
    <2>2. /\ Ids' \subseteq Ids \/ Cardinality(Ids') <= MaxRecords
          /\ \A i \in Ids' : table'[i].status = "sending" =>
                i \in Ids /\ i \notin gone /\ table[i].status = "sending"
        BY <1>1, <2>1, BufferQuota
    <2>3. \A i \in Ids' : table'[i].status = "sending" =>
             i \in Ids /\ i # pub.row /\ table[i].status = "sending"
        BY <2>2 DEF gone
    <2>4. StraysMove
        BY <1>2, <2>1, <2>3, NoneLeftBehind
    <2> QED
        BY <1>2, <2>2, <2>4 DEF TableMove
<1>6. CASE PublishConfirmed \/ \E enc \in Encodings : PublishQueued(enc)
    <2> DEFINE gone == {pub.row}
    <2>1. table' = Without(table, gone) /\ nextId' = nextId /\ faults' = faults
        BY <1>6 DEF PublishConfirmed, PublishQueued, EnqueuePending
    <2> HIDE DEF gone
    <2>2. Ids' = Ids \ gone /\ \A i \in Ids' : table'[i] = table[i]
        BY <2>1, WithoutEffect
    <2>3. \A i \in Ids' : i \in Ids /\ i # pub.row /\ table'[i] = table[i]
        BY <2>2 DEF gone
    <2>4. StraysMove
        BY <1>2, <2>1, <2>3, NoneLeftBehind
    <2> QED
        BY <1>2, <2>2, <2>4 DEF TableMove
<1> QED
    BY <1>3, <1>4, <1>5, <1>6

\* flushBuffer claims no more than a batch.
LEMMA ClaimQuota ==
    ASSUME TableOK, FlushOK, FlushOK', WorkInv, FlushBuffer \/ FlushMore
    PROVE  StraysMove /\ FlushMove /\ TableMove
<1>1. PICK n \in Nat : Claim(n)
    BY DEF FlushBuffer, FlushMore, FlushOK, FlushRecord
<1>2. pub' = pub /\ nextId' = nextId /\ faults' = faults /\ flush.pc # "sending"
    BY DEF FlushBuffer, FlushMore, pubVars, envVars
<1>3. FlushRows = {}
    BY <1>2 DEF WorkInv
<1>4. /\ Ids' = Ids /\ flush'.ok = {} /\ flush'.failed = {}
      /\ \A i \in Ids \ flush'.todo : table'[i] = table[i]
    BY <1>1, <1>2, ClaimEffect
<1>5. FlushRows' = flush'.todo
    BY <1>4 DEF FlushRows
<1> DEFINE R == Ready(table)
<1>6. flush'.todo = Oldest(R, FlushBatch)
    BY <1>1 DEF Claim, NoFlush
<1>7. R \subseteq 0 .. nextId /\ nextId \in Nat /\ FlushBatch \in Nat
    BY LimitsAssumption DEF TableOK, Ready, Ids
<1> HIDE DEF R
<1>8. IsFiniteSet(FlushRows') /\ Cardinality(FlushRows') <= FlushBatch
    BY <1>5, <1>6, <1>7, OldestFew
<1>9. StraysMove
    <2>1. ASSUME NEW i \in Ids', table'[i].status = "sending", i \notin FlushRows' \cup {pub'.row}
          PROVE  i \in Ids /\ table[i].status = "sending" /\ i \notin FlushRows \cup {pub.row}
        BY <1>2, <1>3, <1>4, <1>5, <2>1
    <2> QED
        BY <1>2, <2>1, NoneLeftBehind
<1> QED
    BY <1>4, <1>8, <1>9 DEF FlushMove, TableMove


\* The other steps of the flush, and those of time.
LEMMA FlushQuota ==
    ASSUME TableOK, FlushOK, CountsOK, WorkInv, pub' = pub,
           \/ FlushSettle \/ FlushEnds \/ FlushAborts
           \/ \E i \in flush.todo : \/ FlushLive(i) \/ FlushBuffered(i) \/ FlushQueued(i)
                                    \/ FlushRejected(i)
           \/ CleanupExpired
           \/ \E i \in Ids : LockAges(i) \/ RetryDue(i) \/ Expire(i)
    PROVE  StraysMove /\ FlushMove /\ TableMove
<1> USE DEF tableVars, envVars
<1>1. FlushRows \subseteq Ids
    BY DEF WorkInv
<1>2. CASE FlushSettle
    <2>1. /\ table' = MarkRetryFailed(Without(table, flush.ok), flush.failed, TRUE)
          /\ nextId' = nextId /\ faults' = faults /\ flush.todo = {}
        BY <1>2 DEF FlushSettle
    <2>2. /\ Ids' = Ids \ flush.ok
          /\ \A i \in Ids' \ flush.failed : table'[i] = table[i]
          /\ \A i \in Ids' \cap flush.failed : table'[i].status = "queued"
        BY <2>1, SettleEffect
    <2>3. FlushRows' = {}
        BY <1>1, <1>2, SettledFlush
    <2>4. ASSUME NEW i \in Ids', table'[i].status = "sending"
          PROVE  i \in Ids /\ table[i].status = "sending" /\ i \notin FlushRows
        BY <2>1, <2>2, <2>4 DEF FlushRows
    <2>5. StraysMove
        BY <2>1, <2>4, NoneLeftBehind
    <2> QED
        BY <2>2, <2>3, <2>5 DEF FlushMove, TableMove
<1>3. CASE FlushEnds
    <2>1. FlushRows' = {} /\ FlushRows = {} /\ table' = table /\ faults' = faults
        BY <1>3, IdleFlush DEF FlushEnds, WorkInv
    <2> QED
        BY <2>1, QuietQuota
<1>4. CASE FlushAborts
    <2>1. FlushRows' = {} /\ nextId' = nextId /\ faults' = faults + 1
        BY <1>4, IdleFlush DEF FlushAborts, Fault
    <2>2. Ids' \subseteq Ids /\ \A i \in Ids' : table'[i].status = "sending" => table[i].status = "sending"
        <3>1. CASE table' = table
            BY <3>1 DEF Ids
        <3>2. CASE table' # table
            <4>1. PICK F \in SUBSET flush.failed :
                     table' = MarkRetryFailed(Without(table, flush.ok), F, TRUE)
                BY <1>4, <3>2 DEF FlushAborts
            <4>2. /\ Ids' = Ids \ flush.ok
                  /\ \A i \in Ids' \ F : table'[i] = table[i]
                  /\ \A i \in Ids' \cap F : table'[i].status = "queued"
                BY <2>1, <4>1, SettleEffect
            <4> QED
                BY <4>2
        <3> QED
            BY <3>1, <3>2
    <2>3. StraysMove
        BY <2>1, <2>2, LeftBehind
    <2> QED
        BY <2>1, <2>2, <2>3 DEF FlushMove, TableMove
<1>5. ASSUME NEW i \in flush.todo,
             FlushLive(i) \/ FlushBuffered(i) \/ FlushQueued(i) \/ FlushRejected(i)
      PROVE  StraysMove /\ FlushMove /\ TableMove
    <2>1. FlushRows' = FlushRows
        BY <1>5, SentEffect DEF FlushLive, FlushBuffered, FlushQueued, FlushRejected
    <2>2. CASE FlushLive(i)
        <3>1. table' = table /\ faults' = faults
            BY <2>2 DEF FlushLive
        <3> QED
            BY <2>1, <3>1, QuietQuota
    <2>3. CASE FlushRejected(i)
        <3>1. table' = table /\ faults' = faults + 1
            BY <2>3 DEF FlushRejected, BufferRejects, Fault
        <3> QED
            BY <2>1, <3>1, QuietQuota
    <2>4. CASE FlushBuffered(i)
        <3> DEFINE data == table[i].data
                   enc == table[i].enc
                   gone == {}
        <3>1. BufferPublish(data, enc, gone) /\ faults' = faults
            BY <2>4 DEF FlushBuffered
        <3>2. data \in SUBSET Readings
            BY <1>1, RowOfFlush DEF FlushRows
        <3> HIDE DEF data, enc, gone
        <3>3. /\ Ids' \subseteq Ids \/ Cardinality(Ids') <= MaxRecords
              /\ \A j \in Ids' : table'[j].status = "sending" =>
                    j \in Ids /\ table[j].status = "sending"
            BY <3>1, <3>2, BufferQuota
        <3>4. StraysMove
            BY <2>1, <3>1, <3>3, NoneLeftBehind
        <3> QED
            BY <2>1, <3>3, <3>4 DEF FlushMove, TableMove
    <2>5. CASE FlushQueued(i)
        <3> DEFINE gone == {}
        <3>1. table' = Without(table, gone) /\ nextId' = nextId /\ faults' = faults
            BY <2>5 DEF FlushQueued, EnqueuePending
        <3> HIDE DEF gone
        <3>2. Ids' = Ids \ gone /\ \A j \in Ids' : table'[j] = table[j]
            BY <3>1, WithoutEffect
        <3>3. StraysMove
            BY <2>1, <3>1, <3>2, NoneLeftBehind
        <3> QED
            BY <2>1, <3>2, <3>3 DEF FlushMove, TableMove
    <2> QED
        BY <1>5, <2>2, <2>3, <2>4, <2>5
<1>6. CASE CleanupExpired
    <2>1. flush' = flush /\ faults' = faults
        BY <1>6 DEF CleanupExpired
    <2>2. /\ Ids' \subseteq Ids
          /\ \A i \in Ids' : table'[i].status = "sending" => table[i].status = "sending"
        BY <1>6, CleanupEffect
    <2>3. FlushRows' = FlushRows
        BY <2>1 DEF FlushRows
    <2>4. StraysMove
        BY <2>1, <2>2, <2>3, NoneLeftBehind
    <2> QED
        BY <2>2, <2>3, <2>4 DEF FlushMove, TableMove
<1>7. ASSUME NEW i \in Ids, LockAges(i) \/ RetryDue(i) \/ Expire(i)
      PROVE  StraysMove /\ FlushMove /\ TableMove
    <2>1. flush' = flush /\ faults' = faults
        BY <1>7 DEF LockAges, RetryDue, Expire
    <2>2. Ids' = Ids /\ \A j \in Ids : table'[j].status = table[j].status
        BY <1>7, AgeEffect
    <2>3. FlushRows' = FlushRows
        BY <2>1 DEF FlushRows
    <2>4. StraysMove
        BY <2>1, <2>2, <2>3, NoneLeftBehind
    <2> QED
        BY <2>2, <2>3, <2>4 DEF FlushMove, TableMove
<1> QED
    BY <1>2, <1>3, <1>4, <1>5, <1>6, <1>7

\* Faults are events.
LEMMA CountsStep ==
    ASSUME Next
    PROVE  CountsMove
<1>1. Event \/ Fault \/ UNCHANGED <<events, faults>>
    BY DEF Next, PublishStep, FlushStep, AddMessage, PublishBatch, DiscardUnbound,
       PublishOffline, PersistClaimedBatch, PublishInterrupted, PublishBuffered, PublishQueued,
       PublishLive, PublishConfirmed, PublishFailed, PersistFails, PersistRetried,
       PublishRejected, BufferRejects, DeleteFails, MarkFails, Start, Stop, OrphanEnds,
       OrphanFails, ReloadBindings, Connect, Disconnect, SetPublishMode, DrainDone, DrainLate,
       FlushBuffer, FlushSettle, FlushMore, FlushEnds, FlushLive, FlushBuffered, FlushQueued,
       FlushRejected, FlushAborts, CleanupExpired, LockAges, RetryDue, Expire, Crash, envVars
<1> QED
    BY <1>1 DEF Event, Fault, CountsMove

LEMMA NextQuota ==
    ASSUME TypeOK, TypeOK', QueueInv, WorkInv, WorkInv', OrphanInv, QuotaInv, Next
    PROVE  QuotaInv'
<1> USE DEF pubVars, linkVars, queueVars, tableVars, envVars, histVars
<1>1. BatchOK /\ TableOK /\ FlushOK /\ CountsOK /\ CountsMove
    BY TypeParts, CountsStep
<1>2. TableOK' /\ FlushOK'
    BY DEF TypeOK, TableOK, Table, Ids, FlushOK, FlushRecord
<1>3. CASE \/ \E r \in Readings : AddMessage(r)
           \/ Start \/ ReloadBindings
           \/ Connect \/ Disconnect \/ SetPublishMode \/ DrainDone \/ DrainLate
           \/ PublishBatch \/ DiscardUnbound
           \/ \E enc \in Encodings : PublishLive(enc)
    <2>1. table' = table /\ flush' = flush /\ faults' = faults
        BY <1>3 DEF AddMessage, Start, ReloadBindings, Connect, Disconnect,
                    SetPublishMode, DrainDone, DrainLate, PublishBatch, DiscardUnbound,
                    PublishLive, Event
    <2>2. ASSUME PublishBatch \/ DiscardUnbound
          PROVE  pub'.row = pub.row
        <3>1. pub.row = 0
            BY <2>2 DEF PublishBatch, DiscardUnbound, WorkInv
        <3>2. CASE PublishBatch
            BY <3>1, <3>2 DEF PublishBatch, NoPub
        <3>3. CASE DiscardUnbound
            <4>1. pub' = NoPub
                BY <3>3 DEF DiscardUnbound, Reset
            <4> QED
                BY <3>1, <4>1 DEF NoPub
        <3> QED
            BY <2>2, <3>2, <3>3
    <2>3. ASSUME \E enc \in Encodings : PublishLive(enc)
          PROVE  pub'.row = pub.row
        BY <1>1, <2>3 DEF PublishLive, BatchOK, PubRecord
    <2>4. pub'.row = pub.row
        BY <1>3, <2>2, <2>3 DEF AddMessage, Start, ReloadBindings, Connect, Disconnect,
                                SetPublishMode, DrainDone, DrainLate
    <2>5. FlushRows' = FlushRows
        BY <2>1 DEF FlushRows
    <2> QED
        BY <1>1, <1>2, <2>1, <2>4, <2>5, QuietQuota, QuotaStep
<1>4. CASE \/ PersistFails \/ DeleteFails \/ MarkFails
           \/ \E i \in DOMAIN orphans : OrphanFails(i)
    <2>1. table' = table /\ flush' = flush /\ faults' = faults + 1
        BY <1>4 DEF PersistFails, DeleteFails, MarkFails, OrphanFails, Fault
    <2>2. FlushRows' = FlushRows
        BY <2>1 DEF FlushRows
    <2> QED
        BY <1>1, <1>2, <2>1, <2>2, QuietQuota, QuotaStep
<1>5. CASE \/ PublishOffline \/ PersistClaimedBatch \/ PersistRetried \/ PublishInterrupted
           \/ \E enc \in Encodings : PublishBuffered(enc) \/ PublishQueued(enc)
           \/ PublishRejected \/ PublishConfirmed \/ PublishFailed
    BY <1>1, <1>2, <1>5, PublisherQuota, QuotaStep
<1>6. CASE FlushBuffer \/ FlushMore
    BY <1>1, <1>2, <1>6, ClaimQuota, QuotaStep
<1>7. CASE \/ FlushSettle \/ FlushEnds \/ FlushAborts
           \/ \E i \in flush.todo : \/ FlushLive(i) \/ FlushBuffered(i) \/ FlushQueued(i)
                                    \/ FlushRejected(i)
           \/ CleanupExpired
           \/ \E i \in Ids : LockAges(i) \/ RetryDue(i) \/ Expire(i)
    <2>1. pub' = pub
        BY <1>7 DEF FlushSettle, FlushEnds, FlushAborts, FlushLive, FlushBuffered, FlushQueued,
                    FlushRejected, CleanupExpired, LockAges, RetryDue, Expire
    <2> QED
        BY <1>1, <1>2, <1>7, <2>1, FlushQuota, QuotaStep
<1>8. CASE Crash
    <2>1. table' = table /\ FlushRows' = {} /\ faults' = faults + 1
        BY <1>8, IdleFlush DEF Crash, Fault
    <2>2. Ids' = Ids
        BY <2>1 DEF Ids
    <2>3. StraysMove
        BY <2>1, <2>2, LeftBehind
    <2>4. FlushMove /\ TableMove
        BY <2>1, <2>2 DEF FlushMove, TableMove
    <2> QED
        BY <1>1, <1>2, <2>3, <2>4, QuotaStep
<1>9. CASE Stop
    <2>1. table' = table /\ flush' = flush /\ faults' = faults /\ events' = events + 1
        BY <1>9 DEF Stop, Event
    <2>2. Ids' = Ids /\ FlushRows' = FlushRows
        BY <2>1 DEF Ids, FlushRows
    <2>3. Strays' \subseteq Strays \cup {pub.row}
        BY <2>1, <2>2 DEF Strays, Busy
    <2>4. StraysMove /\ FlushMove /\ TableMove
        BY <2>1, <2>2, <2>3 DEF StraysMove, FlushMove, TableMove
    <2> QED
        BY <1>1, <1>2, <2>4, QuotaStep
<1>10. ASSUME NEW i \in DOMAIN orphans, OrphanEnds(i)
       PROVE  QuotaInv'
    <2>1. Ids' \subseteq Ids /\ \A j \in Ids' : j # i => table'[j] = table[j]
        BY <1>1, <1>10, OrphanEffect
    <2>2. pub' = pub /\ flush' = flush /\ faults' = faults
        BY <1>10 DEF OrphanEnds
    <2>3. FlushRows' = FlushRows
        BY <2>2 DEF FlushRows
    <2>4. i \in Ids => table[i].status = "sending"
        BY DEF OrphanInv
    <2>5. StraysMove
        BY <2>1, <2>2, <2>3, <2>4, NoneLeftBehind
    <2>6. FlushMove /\ TableMove
        BY <2>1, <2>3 DEF FlushMove, TableMove
    <2> QED
        BY <1>1, <1>2, <2>5, <2>6, QuotaStep
<1> QED
    BY <1>3, <1>4, <1>5, <1>6, <1>7, <1>8, <1>9, <1>10 DEF Next, PublishStep, FlushStep

LEMMA InitQuota == Init => QuotaInv
<1> SUFFICES ASSUME Init PROVE QuotaInv
    OBVIOUS
<1>1. Ids = {} /\ FlushRows = {} /\ faults = 0 /\ events = 0
    BY DEF Init, Ids, FlushRows, NoFlush
<1>2. Strays = {}
    BY <1>1 DEF Strays, Busy
<1>3. Cardinality({}) = 0
    BY FS_EmptySet
<1>4. FlushBatch \in Nat /\ MaxRecords \in Nat
    BY LimitsAssumption
<1>5. Cardinality(Strays) <= Left
    BY <1>1, <1>2, <1>3, <1>4 DEF Left
<1> QED
    BY <1>1, <1>3, <1>4, <1>5 DEF QuotaInv, TableBounded

\* The message_buffer table keeps to max_records; what exceeds it are rows that
\* enforceQuotas may not touch, at most a batch of the flush and one row of the publisher
\* for the work under way and for each crash or SQLite error, and one row for each other
\* event, such as the stop of a manager that leaves a publish behind.
THEOREM QuotaHolds == Spec => []TableBounded
<1>1. QuotaInv /\ IInv /\ IInv' /\ [Next]_vars => QuotaInv'
    <2> SUFFICES ASSUME QuotaInv, IInv, IInv', [Next]_vars PROVE QuotaInv'
        OBVIOUS
    <2>1. CASE Next
        BY <2>1, NextQuota DEF IInv
    <2>2. CASE UNCHANGED vars
        <3>1. /\ pub' = pub /\ table' = table /\ flush' = flush
              /\ faults' = faults /\ events' = events
            BY <2>2 DEF vars, pubVars, tableVars, envVars
        <3>2. Ids' = Ids /\ FlushRows' = FlushRows
            BY <3>1 DEF Ids, FlushRows
        <3>3. Strays' = Strays
            BY <3>1, <3>2 DEF Strays, Busy
        <3> QED
            BY <3>1, <3>2, <3>3 DEF QuotaInv, Left, TableBounded
    <2> QED
        BY <2>1, <2>2
<1>2. QuotaInv => TableBounded
    BY DEF QuotaInv
<1> QED
    BY <1>1, <1>2, InitQuota, Invariant, PTL DEF Spec
=============================================================================
