------------------------- MODULE TargetStateProofs -------------------------
(***************************************************************************)
(* What TargetState guarantees for every number of versions, crashes and   *)
(* faults.  Each invariant is the consequence of an inductive one, proved  *)
(* action by action.                                                       *)
(***************************************************************************)
EXTENDS TargetState, SequenceTheorems, TLAPS

Rows == [state : Targets, second : Nat]

(* The snapshot table between two saves: at most two rows, in the order of time. *)
TableOK(rows) ==
    /\ rows \in Seq(Rows)
    /\ Len(rows) <= 2
    /\ Len(rows) = 2 => rows[1].second <= rows[2].second

(* Two rows of one second, which the order of the table does not tell apart. *)
Alike(rows) == Len(rows) = 2 /\ rows[1].second = rows[2].second

(* The newest target is the last row, unless the rows are of one second. *)
TableHolds(rows, state) ==
    IF rows = <<>> THEN state = NoTarget ELSE Alike(rows) \/ rows[Len(rows)].state = state

(* The inductive form of TypeOK. *)
TypeInv == TypeOK /\ TableOK(snapshots)

(* Where the newest target is on its way to the managers: it waits for the timer *)
(* or for the next run, or its apps are handed over and its config is, or is     *)
(* about to be.                                                                   *)
HandOver ==
    Undisturbed =>
        /\ pendingReconcile => rec # "idle"
        /\ \/ timer
           \/ pendingReconcile
           \/ /\ appsTarget = target.apps
              /\ config = target.config \/ rec \in {"containers", "config"}

(* What the ETag stands for at every point of a poll. *)
EtagInv ==
    /\ drafts = 0 => ~needsDeployment
    /\ bodyFaults = 0 =>
          /\ poll.pc = "body" => etag = poll.version
          /\ crashes = 0 /\ poll.pc # "body" => target.apps = etag
          /\ drafts = 0 =>
                /\ poll.pc = "sent" /\ etag # 0 /\ ~poll.conditional => requireFullRefresh
                /\ poll.pc # "body" /\ etag # 0 /\ ~AsksUnconditionally
                     => target.apps = etag

-----------------------------------------------------------------------------
(* The snapshot table *)

(* Removing the i-th of three rows leaves the other two in their order. *)
LEMMA RemoveOfThree ==
    ASSUME NEW S, NEW rows \in Seq(S), Len(rows) = 3, NEW i \in 1 .. 3
    PROVE  /\ RemoveAt(rows, i) \in Seq(S)
           /\ Len(RemoveAt(rows, i)) = 2
           /\ RemoveAt(rows, i)[1] = IF i = 1 THEN rows[2] ELSE rows[1]
           /\ RemoveAt(rows, i)[2] = IF i = 3 THEN rows[2] ELSE rows[3]
<1> DEFINE before == SubSeq(rows, 1, i - 1)
           after == SubSeq(rows, i + 1, 3)
<1>0. \A j \in 1 .. 3 : rows[j] \in S
  BY LenProperties
<1>1. /\ before \in Seq(S) /\ Len(before) = i - 1
      /\ \A k \in 1 .. i - 1 : before[k] = rows[k]
  BY <1>0, SubSeqProperties
<1>2. /\ after \in Seq(S) /\ Len(after) = 3 - i
      /\ \A k \in 1 .. 3 - i : after[k] = rows[i + k]
  <2>1. /\ i + 1 \in Int /\ 3 \in Int
        /\ \A j \in (i + 1) .. 3 : rows[j] \in S
    BY <1>0
  <2>2. /\ after \in Seq(S)
        /\ Len(after) = IF i + 1 <= 3 THEN 3 - (i + 1) + 1 ELSE 0
        /\ \A k \in 1 .. 3 - (i + 1) + 1 : after[k] = rows[(i + 1) + k - 1]
    BY <2>1, SubSeqProperties
  <2> HIDE DEF after
  <2> QED
    BY <2>2
<1> HIDE DEF before, after
<1>3. /\ before \o after \in Seq(S)
      /\ Len(before \o after) = 2
      /\ \A k \in 1 .. 2 : (before \o after)[k] =
             IF k <= i - 1 THEN before[k] ELSE after[k - (i - 1)]
  <2>1. /\ before \o after \in Seq(S)
        /\ Len(before \o after) = Len(before) + Len(after)
        /\ \A k \in 1 .. Len(before) + Len(after) : (before \o after)[k] =
               IF k <= Len(before) THEN before[k] ELSE after[k - Len(before)]
    BY <1>1, <1>2, ConcatProperties
  <2> QED
    BY <1>1, <1>2, <2>1
<1>4. RemoveAt(rows, i) = before \o after
  BY DEF RemoveAt, before, after
<1> QED
  BY <1>1, <1>2, <1>3, <1>4

(* Of three rows in the order of time the trim keeps the third, unless it leaves  *)
(* two of one second.                                                              *)
LEMMA TrimOfThree ==
    ASSUME NEW rows \in Seq(Rows), Len(rows) = 3,
           rows[1].second <= rows[2].second, rows[2].second <= rows[3].second
    PROVE  /\ TableOK(Trim(rows))
           /\ Len(Trim(rows)) = 2
           /\ Alike(Trim(rows)) \/ Trim(rows)[2] = rows[3]
<1> DEFINE IsLast(i) == \A j \in DOMAIN rows \ {i} : Precedes(rows, j, i)
           k == CHOOSE i \in DOMAIN rows : IsLast(i)
<1>1. /\ DOMAIN rows = 1 .. 3
      /\ rows[1].second \in Nat /\ rows[2].second \in Nat /\ rows[3].second \in Nat
  <2>1. DOMAIN rows = 1 .. 3 /\ \A i \in 1 .. 3 : rows[i] \in Rows
    BY LenProperties
  <2> QED
    BY <2>1 DEF Rows
<1>2. \E i \in DOMAIN rows : IsLast(i)
  <2>1. CASE rows[1].second < rows[2].second
    <3>1. IsLast(1)
      BY <1>1, <2>1 DEF Precedes
    <3> QED
      BY <1>1, <3>1
  <2>2. CASE rows[1].second = rows[2].second /\ rows[2].second < rows[3].second
    <3>1. IsLast(2)
      BY <1>1, <2>2 DEF Precedes
    <3> QED
      BY <1>1, <3>1
  <2>3. CASE rows[1].second = rows[2].second /\ rows[2].second = rows[3].second
    <3>1. IsLast(3)
      BY <1>1, <2>3 DEF Precedes
    <3> QED
      BY <1>1, <3>1
  <2> QED
    BY <1>1, <2>1, <2>2, <2>3
<1>3. k \in 1 .. 3 /\ IsLast(k)
  BY <1>1, <1>2
<1>4. ASSUME k = 3 PROVE rows[1].second = rows[2].second
  <2>1. Precedes(rows, 1, 3)
    <3>1. 1 \in DOMAIN rows \ {3}
      BY <1>1
    <3> HIDE DEF k
    <3> QED
      BY <1>3, <1>4, <3>1
  <2> QED
    BY <1>1, <2>1 DEF Precedes
<1>5. Trim(rows) = RemoveAt(rows, k)
  BY DEF Trim
<1> HIDE DEF k
<1>6. /\ Trim(rows) \in Seq(Rows)
      /\ Len(Trim(rows)) = 2
      /\ Trim(rows)[1] = IF k = 1 THEN rows[2] ELSE rows[1]
      /\ Trim(rows)[2] = IF k = 3 THEN rows[2] ELSE rows[3]
  BY <1>3, <1>5, RemoveOfThree
<1> QED
  BY <1>1, <1>3, <1>4, <1>6 DEF TableOK, Alike

(* Counting the seconds from the oldest row changes nothing but the count. *)
LEMMA FromOldestKeepsTable ==
    ASSUME NEW rows, TableOK(rows), Len(rows) > 0
    PROVE  /\ TableOK(FromOldest(rows))
           /\ Len(FromOldest(rows)) = Len(rows)
           /\ \A i \in 1 .. Len(rows) : FromOldest(rows)[i].state = rows[i].state
           /\ Alike(rows) => Alike(FromOldest(rows))
<1> DEFINE n == Len(rows)
           new == FromOldest(rows)
<1>1. /\ n \in 1 .. 2 /\ DOMAIN rows = 1 .. n
      /\ \A i \in 1 .. n : rows[i] \in Rows
  <2>1. rows \in Seq(Rows) /\ n <= 2 /\ n > 0
    BY DEF TableOK
  <2>2. /\ n \in Nat /\ DOMAIN rows = 1 .. n
        /\ rows \in [1 .. n -> Rows]
    BY <2>1, LenProperties
  <2> HIDE DEF n
  <2> QED
    BY <2>1, <2>2
<1>2. \A i \in 1 .. n : rows[i].second \in Nat /\ rows[1].second <= rows[i].second
  BY <1>1 DEF TableOK, Rows
<1>3. \A i \in 1 .. n : /\ new[i] \in Rows
                        /\ new[i].state = rows[i].state
                        /\ new[i].second = rows[i].second - rows[1].second
  <2> SUFFICES ASSUME NEW i \in 1 .. n
               PROVE  /\ new[i] \in Rows
                      /\ new[i].state = rows[i].state
                      /\ new[i].second = rows[i].second - rows[1].second
    OBVIOUS
  <2>1. new[i] = [rows[i] EXCEPT !.second = rows[i].second - rows[1].second]
    BY <1>1 DEF FromOldest
  <2> QED
    BY <1>1, <1>2, <2>1 DEF Rows
<1>4. new \in Seq(Rows) /\ Len(new) = n
  <2>1. new = [i \in 1 .. n |-> new[i]]
    BY <1>1 DEF FromOldest
  <2> QED
    BY <1>1, <1>3, <2>1
<1> QED
  BY <1>1, <1>2, <1>3, <1>4 DEF TableOK, Alike

(* Saving a target keeps the table in order; the saved target becomes the last    *)
(* row, unless the rows that are left are of one second.                           *)
LEMMA AppendKeepsTable ==
    ASSUME TableOK(snapshots), NEW state \in Targets, AppendAndTrim(state)
    PROVE  /\ TableOK(snapshots')
           /\ snapshots' # <<>>
           /\ TableHolds(snapshots', state)
<1>1. PICK s \in NextSeconds :
        snapshots' = FromOldest(Trim(Append(snapshots, [state |-> state, second |-> s])))
  BY DEF AppendAndTrim
<1> DEFINE n == Len(snapshots)
           row == [state |-> state, second |-> s]
           longer == Append(snapshots, row)
           trimmed == Trim(longer)
<1>2. /\ snapshots \in Seq(Rows) /\ n \in 0 .. 2
      /\ \A i \in 1 .. n : snapshots[i] \in Rows
      /\ snapshots = <<>> <=> n = 0
  <2>1. snapshots \in Seq(Rows) /\ n <= 2
    BY DEF TableOK
  <2>2. n \in Nat /\ snapshots \in [1 .. n -> Rows]
    BY <2>1, LenProperties
  <2>3. snapshots = <<>> <=> n = 0
    BY <2>1, EmptySeq
  <2> HIDE DEF n
  <2> QED
    BY <2>1, <2>2, <2>3
<1>3. /\ s \in Nat
      /\ n > 0 => snapshots[n].second <= s
  BY <1>2 DEF NextSeconds, Rows
<1>4. row \in Rows /\ row.second = s /\ row.state = state
  BY <1>3 DEF Rows
<1>5. /\ longer \in Seq(Rows) /\ Len(longer) = n + 1
      /\ \A i \in 1 .. n : longer[i] = snapshots[i]
      /\ longer[n + 1] = row
  BY <1>2, <1>4, AppendProperties
<1> HIDE DEF row, longer, n
<1>6. /\ TableOK(trimmed)
      /\ Len(trimmed) > 0
      /\ TableHolds(trimmed, state)
  <2>1. CASE n = 0
    <3>1. trimmed = longer
      BY <1>5, <2>1 DEF Trim
    <3>2. Len(longer) = 1 /\ longer[1] = row
      BY <1>5, <2>1
    <3>3. longer # <<>>
      BY <3>2
    <3>4. TableOK(longer)
      <4>1. Len(longer) <= 2 /\ Len(longer) # 2
        BY <3>2
      <4> QED
        BY <1>5, <4>1 DEF TableOK
    <3>5. TableHolds(longer, state)
      BY <1>4, <3>2, <3>3 DEF TableHolds
    <3> QED
      BY <3>1, <3>2, <3>4, <3>5
  <2>2. CASE n = 1
    <3>1. trimmed = longer
      BY <1>5, <2>2 DEF Trim
    <3>2. Len(longer) = 2 /\ longer[1] = snapshots[1] /\ longer[2] = row
      BY <1>5, <2>2
    <3>3. longer # <<>>
      BY <3>2
    <3>4. TableOK(longer)
      BY <1>3, <1>4, <1>5, <2>2, <3>2 DEF TableOK
    <3>5. TableHolds(longer, state)
      BY <1>4, <3>2, <3>3 DEF TableHolds
    <3> QED
      BY <3>1, <3>2, <3>4, <3>5
  <2>3. CASE n = 2
    <3>1. /\ longer[1] = snapshots[1] /\ longer[2] = snapshots[2] /\ longer[3] = row
          /\ Len(longer) = 3
      BY <1>5, <2>3
    <3>2. snapshots[1].second <= snapshots[2].second
      BY <2>3 DEF TableOK, n
    <3>3. /\ TableOK(trimmed) /\ Len(trimmed) = 2
          /\ Alike(trimmed) \/ trimmed[2] = longer[3]
      BY <1>3, <1>4, <1>5, <2>3, <3>1, <3>2, TrimOfThree
    <3>4. trimmed # <<>>
      BY <3>3
    <3> QED
      BY <1>4, <3>1, <3>3, <3>4 DEF TableHolds
  <2> QED
    BY <1>2, <2>1, <2>2, <2>3
<1>7. snapshots' = FromOldest(trimmed)
  BY <1>1 DEF longer, row
<1> HIDE DEF trimmed
<1>8. /\ TableOK(snapshots') /\ Len(snapshots') = Len(trimmed)
      /\ \A i \in 1 .. Len(trimmed) : snapshots'[i].state = trimmed[i].state
      /\ Alike(trimmed) => Alike(snapshots')
  BY <1>6, <1>7, FromOldestKeepsTable
<1>9. Len(trimmed) \in 1 .. 2 /\ trimmed # <<>> /\ snapshots' # <<>>
  <2>1. Len(trimmed) \in Nat /\ trimmed \in Seq(Rows) /\ snapshots' \in Seq(Rows)
    BY <1>6, <1>8, LenProperties DEF TableOK
  <2> QED
    BY <1>6, <1>8, <2>1, EmptySeq DEF TableOK
<1> QED
  BY <1>6, <1>8, <1>9 DEF TableHolds

(* What a restart loads is the state of some row, and of the last row unless the  *)
(* rows are of one second.                                                         *)
LEMMA LatestIsARow ==
    ASSUME NEW rows, TableOK(rows), rows # <<>>
    PROVE  /\ Latest(rows) \in Targets
           /\ \A state : TableHolds(rows, state) => Alike(rows) \/ Latest(rows) = state
<1> DEFINE IsFirst(i) == \A j \in DOMAIN rows \ {i} : Precedes(rows, i, j)
           k == CHOOSE i \in DOMAIN rows : IsFirst(i)
<1>1. /\ Len(rows) \in 1 .. 2 /\ DOMAIN rows = 1 .. Len(rows)
      /\ \A i \in 1 .. Len(rows) : rows[i] \in Rows
  <2>1. rows \in Seq(Rows) /\ Len(rows) <= 2 /\ Len(rows) # 0
    BY EmptySeq DEF TableOK
  <2>2. /\ Len(rows) \in Nat /\ DOMAIN rows = 1 .. Len(rows)
        /\ rows \in [1 .. Len(rows) -> Rows]
    BY <2>1, LenProperties
  <2> QED
    BY <2>1, <2>2
<1>2. \A i \in 1 .. Len(rows) : rows[i].second \in Nat /\ rows[i].state \in Targets
  BY <1>1 DEF Rows
<1>3. \E i \in DOMAIN rows : IsFirst(i)
  <2>1. CASE Len(rows) = 1
    <3>1. DOMAIN rows = {1}
      BY <1>1, <2>1
    <3> QED
      BY <3>1
  <2>2. CASE Len(rows) = 2
    <3>1. DOMAIN rows = {1, 2} /\ rows[1].second <= rows[2].second
      BY <1>1, <2>2 DEF TableOK
    <3>2. IsFirst(1) \/ IsFirst(2)
      BY <1>2, <2>2, <3>1 DEF Precedes
    <3> QED
      BY <3>1, <3>2
  <2> QED
    BY <1>1, <2>1, <2>2
<1>4. k \in DOMAIN rows /\ IsFirst(k)
  BY <1>3
<1>5. Latest(rows) = rows[k].state
  BY DEF Latest
<1> HIDE DEF k
<1>6. ASSUME NEW state, TableHolds(rows, state), ~Alike(rows) PROVE Latest(rows) = state
  <2>1. rows[Len(rows)].state = state /\ (Len(rows) = 2 => rows[1].second < rows[2].second)
    BY <1>1, <1>2, <1>6 DEF TableHolds, TableOK, Alike
  <2>2. k = Len(rows)
    BY <1>1, <1>2, <1>4, <2>1 DEF Precedes
  <2> QED
    BY <1>5, <2>1, <2>2
<1> QED
  BY <1>1, <1>2, <1>4, <1>5, <1>6

-----------------------------------------------------------------------------
(* Types *)

(* A new target is typed and reaches both the memory and the table. *)
LEMMA SetTargetKeepsTypes ==
    ASSUME TypeInv, NEW new \in Targets, SetTarget(new)
    PROVE  /\ target' \in Targets
           /\ TableOK(snapshots')
           /\ timer' \in BOOLEAN /\ pendingReconcile' \in BOOLEAN
<1>1. target' \in Targets
  BY DEF SetTarget
<1>2. TableOK(snapshots')
  <2>1. CASE UNCHANGED snapshots
    BY <2>1 DEF TypeInv
  <2>2. CASE AppendAndTrim(new)
    BY <2>2, AppendKeepsTable DEF TypeInv
  <2> QED
    BY <2>1, <2>2 DEF SetTarget, SaveTarget
<1>3. timer' \in BOOLEAN /\ pendingReconcile' \in BOOLEAN
  BY DEF SetTarget, TypeInv, TypeOK
<1> QED
  BY <1>1, <1>2, <1>3

(* A run, or the next one, moves only the hand-over variables, within their types. *)
LEMMA RunKeepsTypes ==
    ASSUME TypeInv, BeginRun \/ NextRun
    PROVE  /\ rec' \in {"idle", "containers", "config", "version"}
           /\ pendingReconcile' \in BOOLEAN
           /\ appsTarget' \in 0 .. MaxVersions
           /\ isApplyingState' \in BOOLEAN
<1>1. CASE BeginRun
  BY <1>1 DEF BeginRun, TypeInv, TypeOK, Targets
<1>2. CASE NextRun
  BY <1>1, <1>2 DEF NextRun, BeginRun, TypeInv, TypeOK, Targets
<1> QED
  BY <1>1, <1>2

(* The poll between two requests has its type. *)
LEMMA IdlePollType ==
    IdlePoll \in [pc : {"idle", "sent", "body"}, conditional : BOOLEAN,
                  version : 0 .. MaxVersions]
  BY VersionsAssumption DEF IdlePoll

(* The initial values have their types. *)
LEMMA InitTypes == Init => TypeInv
<1> SUFFICES ASSUME Init PROVE TypeInv
  OBVIOUS
<1> USE VersionsAssumption, BoundsAssumption
<1>1. NoTarget \in Targets
  BY DEF NoTarget, Targets
<1>2. snapshots = <<>> /\ TableOK(snapshots)
  <2>1. snapshots = <<>> /\ Len(snapshots) = 0
    BY DEF Init
  <2>2. snapshots \in Seq(Rows)
    BY <2>1, EmptySeq
  <2> QED
    BY <2>1, <2>2 DEF TableOK
<1>3. poll \in [pc : {"idle", "sent", "body"}, conditional : BOOLEAN,
                version : 0 .. MaxVersions]
  BY IdlePollType DEF Init
<1>4. /\ cloud \in 0 .. MaxVersions /\ drafts \in 0 .. MaxDrafts
      /\ crashes \in 0 .. MaxFaults
      /\ bodyFaults \in 0 .. MaxFaults /\ reconcileFaults \in 0 .. MaxFaults
      /\ etag \in 0 .. MaxVersions /\ appsTarget \in 0 .. MaxVersions
      /\ config \in 0 .. MaxVersions
  BY DEF Init
<1>5. /\ needsDeployment \in BOOLEAN
      /\ requireFullRefresh \in BOOLEAN /\ timer \in BOOLEAN
      /\ pendingReconcile \in BOOLEAN /\ isApplyingState \in BOOLEAN
      /\ rec \in {"idle", "containers", "config", "version"}
      /\ target = NoTarget
  BY Zenon DEF Init
<1> QED
  BY <1>1, <1>2, <1>3, <1>4, <1>5 DEF TypeInv, TypeOK, TableOK, Rows

(* Every step keeps the types. *)
LEMMA NextTypes == TypeInv /\ [Next]_vars => TypeInv'
<1> SUFFICES ASSUME TypeInv, [Next]_vars PROVE TypeInv'
  OBVIOUS
<1> USE VersionsAssumption, BoundsAssumption
<1>1. TypeOK /\ TableOK(snapshots)
  BY DEF TypeInv
<1>2. CASE PollSend
  BY <1>1, <1>2 DEF PollSend, Conditional, TypeInv, TypeOK, cloudVars, faultVars, managerVars
<1>3. CASE PollFails
  BY <1>1, <1>3, IdlePollType DEF PollFails, TypeInv, TypeOK, cloudVars, faultVars, managerVars
<1>4. CASE PollNotModified
  BY <1>1, <1>4, IdlePollType
     DEF PollNotModified, TypeInv, TypeOK, cloudVars, faultVars, managerVars
<1>5. CASE PollHeaders
  BY <1>1, <1>5 DEF PollHeaders, TypeInv, TypeOK, cloudVars, faultVars, managerVars
<1>6. CASE PollBody
  <2>1. Merged(poll.version) \in Targets
    BY <1>1 DEF Merged, Targets, TypeOK
  <2>2. /\ target' \in Targets /\ TableOK(snapshots')
        /\ timer' \in BOOLEAN /\ pendingReconcile' \in BOOLEAN
    <3>1. CASE SetTarget(Merged(poll.version))
      BY <2>1, <3>1, SetTargetKeepsTypes
    <3>2. CASE UNCHANGED <<target, snapshots, timer, pendingReconcile>>
      BY <1>1, <3>2 DEF TypeOK
    <3> QED
      BY <1>6, <3>1, <3>2 DEF PollBody
  <2> QED
    BY <1>1, <1>6, <2>2, IdlePollType
       DEF PollBody, TypeInv, TypeOK, cloudVars, faultVars, managerVars, TableOK, Rows
<1>7. CASE PollBodyFails
  BY <1>1, <1>7, IdlePollType DEF PollBodyFails, TypeInv, TypeOK, cloudVars, managerVars
<1>8. CASE ForceRefresh
  BY <1>1, <1>8 DEF ForceRefresh, TypeInv, TypeOK, cloudVars, faultVars, managerVars
<1>9. CASE LocalEdit
  <2>1. PICK c \in LocalConfigs : SetTarget([target EXCEPT !.config = c])
    BY <1>9 DEF LocalEdit
  <2>2. [target EXCEPT !.config = c] \in Targets
    BY <1>1 DEF TypeOK, Targets
  <2>3. /\ target' \in Targets /\ TableOK(snapshots')
        /\ timer' \in BOOLEAN /\ pendingReconcile' \in BOOLEAN
    BY <2>1, <2>2, SetTargetKeepsTypes
  <2> QED
    BY <1>1, <1>9, <2>3 DEF LocalEdit, TypeInv, TypeOK, cloudVars, faultVars, pollVars,
                            managerVars,
                            TableOK, Rows
<1>10. CASE TimerFires
  <2>1. /\ rec' \in {"idle", "containers", "config", "version"}
        /\ pendingReconcile' \in BOOLEAN
        /\ appsTarget' \in 0 .. MaxVersions
        /\ isApplyingState' \in BOOLEAN
    BY <1>1, <1>10, RunKeepsTypes DEF TimerFires, TypeOK
  <2> QED
    BY <1>1, <1>10, <2>1 DEF TimerFires, TypeInv, TypeOK, cloudVars, faultVars, pollVars
<1>11. CASE ApplyEnds
  BY <1>1, <1>11 DEF ApplyEnds, TypeInv, TypeOK, cloudVars, faultVars, pollVars
<1>12. CASE AutoApply
  BY <1>1, <1>12 DEF AutoApply, TypeInv, TypeOK, cloudVars, faultVars, pollVars
<1>13. CASE ApplyConfig
  BY <1>1, <1>13 DEF ApplyConfig, TypeInv, TypeOK, cloudVars, faultVars, pollVars, Targets
<1>14. CASE ReconcileThrows
  BY <1>1, <1>14 DEF ReconcileThrows, TypeInv, TypeOK, cloudVars, pollVars, Targets
<1>15. CASE DeferVersion
  BY <1>1, <1>15, RunKeepsTypes DEF DeferVersion, TypeInv, TypeOK, cloudVars, faultVars, pollVars
<1>16. CASE ReconcileCompletes
  BY <1>1, <1>16, RunKeepsTypes
     DEF ReconcileCompletes, TypeInv, TypeOK, cloudVars, faultVars, pollVars
<1>17. CASE CloudPublishes
  <2>1. cloud' \in 0 .. MaxVersions
    BY <1>1, <1>17 DEF CloudPublishes, TypeOK
  <2>2. needsDeployment' \in BOOLEAN
    BY <1>17, Zenon DEF CloudPublishes
  <2> QED
    BY <1>1, <1>17, <2>1, <2>2
       DEF CloudPublishes, TypeInv, TypeOK, faultVars, pollVars, managerVars
<1>18. CASE CloudEdits
  BY <1>1, <1>18 DEF CloudEdits, TypeInv, TypeOK, faultVars, pollVars, managerVars
<1>19. CASE CancelDeployment
  BY <1>1, <1>19 DEF CancelDeployment, TypeInv, TypeOK, faultVars, pollVars, managerVars
<1>20. CASE Restart
  <2>1. target' \in Targets
    <3>1. NoTarget \in Targets
      BY DEF NoTarget, Targets
    <3> QED
      BY <1>1, <1>20, <3>1, LatestIsARow DEF Restart
  <2>2. crashes' \in 0 .. MaxFaults
    BY <1>1, <1>20 DEF Restart, TypeOK
  <2>3. TableOK(snapshots') /\ snapshots' \in Seq([state : Targets, second : Nat])
    BY <1>1, <1>20 DEF Restart, TypeOK
  <2>4. /\ requireFullRefresh' \in BOOLEAN /\ timer' \in BOOLEAN
        /\ rec' \in {"idle", "containers", "config", "version"}
        /\ pendingReconcile' \in BOOLEAN /\ isApplyingState' \in BOOLEAN
    BY <1>20, Zenon DEF Restart
  <2> QED
    BY <1>1, <1>20, <2>1, <2>2, <2>3, <2>4, IdlePollType
       DEF Restart, TypeInv, TypeOK, cloudVars
<1>21. CASE UNCHANGED vars
  BY <1>1, <1>21 DEF vars, TypeInv, TypeOK
<1> QED
  BY <1>2, <1>3, <1>4, <1>5, <1>6, <1>7, <1>8, <1>9, <1>10, <1>11, <1>12, <1>13, <1>14,
     <1>15, <1>16, <1>17, <1>18, <1>19, <1>20, <1>21 DEF Next, PollCycle, ReconcileStep

(* TypeInv is an invariant, with it TypeOK. *)
LEMMA TypeInvariant == Spec => []TypeInv
  BY InitTypes, NextTypes, PTL DEF Spec

(* Type correctness, for every number of versions, crashes and faults: the poll, *)
(* the timer, the run and the table only ever hold what the code stores there.    *)
THEOREM TypeCorrect == Spec => []TypeOK
<1>1. TypeInv => TypeOK
  BY DEF TypeInv
<1> QED
  BY <1>1, TypeInvariant, PTL

-----------------------------------------------------------------------------
(* The hand-over to the managers *)

(* Every step keeps HandOver: whoever changes the target sets the timer or the   *)
(* pending flag, and a run leaves the loop only with the flag down.              *)
LEMMA NextHandOver == TypeOK /\ HandOver /\ [Next]_vars => HandOver'
<1> SUFFICES ASSUME TypeOK, HandOver, [Next]_vars PROVE HandOver'
  OBVIOUS
<1>1. /\ crashes \in Nat /\ reconcileFaults \in Nat
      /\ timer \in BOOLEAN /\ pendingReconcile \in BOOLEAN
      /\ rec \in {"idle", "containers", "config", "version"}
  BY BoundsAssumption DEF TypeOK
<1> USE DEF HandOver, Undisturbed, cloudVars, faultVars, pollVars, managerVars
<1>2. CASE PollSend
  BY <1>2 DEF PollSend
<1>3. CASE PollFails
  BY <1>3 DEF PollFails
<1>4. CASE PollNotModified
  BY <1>4 DEF PollNotModified
<1>5. CASE PollHeaders
  BY <1>5 DEF PollHeaders
<1>6. CASE PollBody
  <2>1. CASE UNCHANGED <<target, snapshots, timer, pendingReconcile>>
    BY <1>6, <2>1 DEF PollBody
  <2>2. CASE SetTarget(Merged(poll.version))
    BY <1>1, <1>6, <2>2 DEF PollBody, SetTarget
  <2> QED
    BY <1>6, <2>1, <2>2 DEF PollBody
<1>7. CASE PollBodyFails
  BY <1>7 DEF PollBodyFails
<1>8. CASE ForceRefresh
  BY <1>8 DEF ForceRefresh
<1>9. CASE LocalEdit
  BY <1>1, <1>9 DEF LocalEdit, SetTarget
<1>10. CASE TimerFires
  BY <1>1, <1>10 DEF TimerFires, BeginRun
<1>11. CASE ApplyEnds
  BY <1>1, <1>11 DEF ApplyEnds
<1>12. CASE AutoApply
  BY <1>12 DEF AutoApply
<1>13. CASE ApplyConfig
  BY <1>1, <1>13 DEF ApplyConfig
<1>14. CASE ReconcileThrows
  <2>1. ~Undisturbed'
    BY <1>1, <1>14 DEF ReconcileThrows
  <2> QED
    BY <2>1
<1>15. CASE DeferVersion
  BY <1>1, <1>15 DEF DeferVersion, NextRun, BeginRun
<1>16. CASE ReconcileCompletes
  BY <1>1, <1>16 DEF ReconcileCompletes, NextRun, BeginRun
<1>17. CASE CloudPublishes
  BY <1>17 DEF CloudPublishes
<1>18. CASE CloudEdits
  BY <1>18 DEF CloudEdits
<1>19. CASE CancelDeployment
  BY <1>19 DEF CancelDeployment
<1>20. CASE Restart
  <2>1. ~Undisturbed'
    BY <1>1, <1>20 DEF Restart
  <2> QED
    BY <2>1
<1>21. CASE UNCHANGED vars
  BY <1>21 DEF vars
<1> QED
  BY <1>2, <1>3, <1>4, <1>5, <1>6, <1>7, <1>8, <1>9, <1>10, <1>11, <1>12, <1>13, <1>14,
     <1>15, <1>16, <1>17, <1>18, <1>19, <1>20, <1>21 DEF Next, PollCycle, ReconcileStep

(* StateManager.reconcile and scheduleReconcile lose no target, however many     *)
(* updates arrive and wherever they fall: at rest both managers hold the newest   *)
(* one, unless a run threw or the process died.                                   *)
THEOREM RestIsReconciled == Spec => []RestMeansReconciled
<1>1. Init => HandOver
  BY DEF Init, HandOver, NoTarget
<1>2. TypeInv => TypeOK
  BY DEF TypeInv
<1>3. HandOver => RestMeansReconciled
  BY DEF HandOver, RestMeansReconciled
<1> QED
  BY <1>1, <1>2, <1>3, TypeInvariant, NextHandOver, PTL DEF Spec

-----------------------------------------------------------------------------
(* The ETag *)

(* Every step keeps EtagInv. *)
LEMMA NextEtag == TypeOK /\ EtagInv /\ [Next]_vars => EtagInv'
<1> SUFFICES ASSUME TypeOK, EtagInv, [Next]_vars PROVE EtagInv'
  OBVIOUS
<1>1. /\ bodyFaults \in Nat
      /\ crashes \in Nat /\ drafts \in Nat /\ needsDeployment \in BOOLEAN
      /\ etag \in 0 .. MaxVersions
      /\ poll \in [pc : {"idle", "sent", "body"}, conditional : BOOLEAN,
                   version : 0 .. MaxVersions]
      /\ requireFullRefresh \in BOOLEAN
      /\ target \in Targets
  BY BoundsAssumption DEF TypeOK
<1> USE DEF EtagInv, AsksUnconditionally, cloudVars, faultVars, managerVars
<1>2. CASE PollSend
  BY <1>1, <1>2 DEF PollSend, Conditional
<1>3. CASE PollFails
  BY <1>1, <1>3 DEF PollFails, IdlePoll
<1>4. CASE PollNotModified
  BY <1>1, <1>4 DEF PollNotModified, NotModified, IdlePoll
<1>5. CASE PollHeaders
  BY <1>1, <1>5 DEF PollHeaders
<1>6. CASE PollBody
  <2>1. target'.apps = poll.version
    <3>1. Merged(poll.version).apps = poll.version
      BY DEF Merged
    <3> QED
      BY <1>6, <3>1 DEF PollBody, SetTarget
  <2> QED
    BY <1>1, <1>6, <2>1 DEF PollBody, IdlePoll
<1>7. CASE PollBodyFails
  BY <1>1, <1>7 DEF PollBodyFails
<1>8. CASE ForceRefresh
  BY <1>1, <1>8 DEF ForceRefresh
<1>9. CASE LocalEdit
  <2>1. target'.apps = target.apps
    BY <1>1, <1>9 DEF LocalEdit, SetTarget, Targets
  <2> QED
    BY <1>9, <2>1 DEF LocalEdit, pollVars
<1>10. CASE ReconcileStep \/ AutoApply
  <2>1. UNCHANGED <<needsDeployment, drafts, crashes, bodyFaults, etag, requireFullRefresh,
                   poll, target>>
    BY <1>10 DEF ReconcileStep, TimerFires, ApplyEnds, ApplyConfig, ReconcileThrows,
                 DeferVersion, ReconcileCompletes, AutoApply, pollVars
  <2> QED
    BY <2>1
<1>11. CASE CloudPublishes \/ CloudEdits \/ CancelDeployment
  BY <1>1, <1>11 DEF CloudPublishes, CloudEdits, CancelDeployment, pollVars
<1>12. CASE Restart
  BY <1>1, <1>12 DEF Restart, IdlePoll
<1>13. CASE UNCHANGED vars
  BY <1>13 DEF vars
<1> QED
  BY <1>2, <1>3, <1>4, <1>5, <1>6, <1>7, <1>8, <1>9, <1>10, <1>11, <1>12, <1>13
     DEF Next, PollCycle

(* StatePoller's ETag is never ahead of the target while it is in use, across any *)
(* number of restarts and failed requests, as long as every body is read.         *)
THEOREM EtagIsHeld == Spec => []EtagMeansHeld
<1>1. Init => EtagInv
  BY DEF Init, EtagInv, IdlePoll, NoTarget
<1>2. TypeInv => TypeOK
  BY DEF TypeInv
<1>3. EtagInv => EtagMeansHeld
  BY DEF EtagInv, EtagMeansHeld, RefreshWorks
<1> QED
  BY <1>1, <1>2, <1>3, TypeInvariant, NextEtag, PTL DEF Spec

-----------------------------------------------------------------------------
(* The snapshot table and restarts *)

(* The table holds the target after every step. *)
LEMMA NextTable ==
    TypeInv /\ TableHolds(snapshots, target) /\ [Next]_vars => TableHolds(snapshots, target)'
<1> SUFFICES ASSUME TypeInv, TableHolds(snapshots, target), [Next]_vars
             PROVE  TableHolds(snapshots, target)'
  OBVIOUS
<1>1. TypeOK /\ TableOK(snapshots)
  BY DEF TypeInv
<1>2. CASE UNCHANGED <<target, snapshots>>
  BY <1>2 DEF TableHolds, Alike
<1>3. ASSUME NEW new \in Targets, SetTarget(new)
      PROVE  TableHolds(snapshots, target)'
  <2>1. target' = new
    BY <1>3 DEF SetTarget
  <2>2. CASE new = target /\ UNCHANGED snapshots
    BY <2>1, <2>2 DEF TableHolds, Alike
  <2>3. CASE AppendAndTrim(new)
    <3>1. TableHolds(snapshots', new)
      BY <1>1, <2>3, AppendKeepsTable
    <3> QED
      BY <2>1, <3>1 DEF TableHolds, Alike
  <2> QED
    BY <1>3, <2>2, <2>3 DEF SetTarget, SaveTarget
<1>4. CASE PollBody
  <2>1. Merged(poll.version) \in Targets
    BY <1>1, VersionsAssumption DEF Merged, Targets, TypeOK
  <2> QED
    BY <1>2, <1>3, <1>4, <2>1 DEF PollBody
<1>5. CASE LocalEdit
  <2>1. \A c \in LocalConfigs : [target EXCEPT !.config = c] \in Targets
    BY <1>1 DEF TypeOK, Targets
  <2> QED
    BY <1>3, <1>5, <2>1 DEF LocalEdit
<1>6. CASE Restart
  <2>1. UNCHANGED snapshots
    BY <1>6 DEF Restart
  <2>2. CASE snapshots = <<>>
    BY <1>6, <2>1, <2>2 DEF Restart, TableHolds
  <2>3. CASE snapshots # <<>> /\ Alike(snapshots)
    BY <2>1, <2>3 DEF TableHolds, Alike
  <2>4. CASE snapshots # <<>> /\ ~Alike(snapshots)
    <3>1. target' = target
      BY <1>1, <1>6, <2>4, LatestIsARow DEF Restart
    <3> QED
      BY <1>2, <2>1, <3>1
  <2> QED
    BY <2>2, <2>3, <2>4
<1> QED
  BY <1>2, <1>4, <1>5, <1>6
     DEF Next, PollCycle, ReconcileStep, PollSend, PollFails, PollNotModified, PollHeaders,
         PollBodyFails, ForceRefresh, TimerFires, ApplyEnds, ApplyConfig, ReconcileThrows,
         DeferVersion, ReconcileCompletes, AutoApply, CloudPublishes, CloudEdits,
         CancelDeployment, vars

(* A restart resumes the target in effect, after any sequence of saves and trims *)
(* of the table and of earlier restarts, unless the two rows that are left carry  *)
(* the same second of createdAt at that moment.                                    *)
THEOREM RestartResumes == Spec => RestartKeepsTarget
<1>1. Init => TableHolds(snapshots, target)
  BY DEF Init, TableHolds
<1>2. TypeInv /\ TableHolds(snapshots, target) /\ [Next]_vars
        => [crashes' # crashes => target' = target \/ SameSecond]_vars
  <2> SUFFICES ASSUME TypeInv, TableHolds(snapshots, target), [Next]_vars,
                      crashes' # crashes
               PROVE  target' = target \/ SameSecond
    OBVIOUS
  <2>1. Restart
    BY DEF Next, PollCycle, ReconcileStep, PollSend, PollFails, PollNotModified,
           PollHeaders, PollBody, PollBodyFails, ForceRefresh, LocalEdit, TimerFires,
           ApplyEnds, ApplyConfig, ReconcileThrows, DeferVersion, ReconcileCompletes,
           AutoApply, CloudPublishes, CloudEdits, CancelDeployment, vars, faultVars
  <2> QED
    BY <2>1, LatestIsARow DEF TypeInv, Restart, TableHolds, SameSecond, Alike
<1> QED
  BY <1>1, <1>2, TypeInvariant, NextTable, PTL DEF Spec, RestartKeepsTarget
=============================================================================
