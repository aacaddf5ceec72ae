---------------------------- MODULE TargetState ----------------------------
(***************************************************************************)
(* How a desired state travels from the cloud to the managers that carry   *)
(* it out: StatePoller (ETag and If-None-Match), StateManager (setTarget,  *)
(* the snapshot table, the debounced reconciliation with its pending       *)
(* flag), and the hand-over to ContainerManager and ConfigManager; of the  *)
(* cloud API the target of one agent and the answer to its poll.           *)
(*                                                                         *)
(* An action is the code between two awaits that really suspend.  SQLite   *)
(* is synchronous here (node:sqlite), so saving is part of its action.     *)
(*                                                                         *)
(* A target is abstracted to the version of its apps and the version of    *)
(* its config; version v of the cloud's target carries the config v, or    *)
(* none at all when v is in Bare.  What the container manager does with    *)
(* its steps belongs to another module; here an apply is one that runs or  *)
(* not.  Left out: SQLite errors, the device API's direct edits of the     *)
(* container manager's target, and the agent update itself.                *)
(***************************************************************************)
EXTENDS Naturals, Sequences, FiniteSets, SequencesExt

CONSTANTS
    MaxVersions,         \* bound: how many targets the cloud publishes
    MaxDrafts,           \* bound: how many edits the cloud holds back for deployment
    Bare,                \* the versions that carry no endpoints, anomaly rules or features
    LocalConfigs,        \* configs that edits through the device API produce
    MaxFaults            \* bound: how often the agent process dies, a response body cannot
                         \* be read or ConfigManager.reconcile throws

Versions == 1 .. MaxVersions

ASSUME VersionsAssumption == MaxVersions \in Nat
ASSUME BareAssumption == Bare \subseteq Versions
ASSUME LocalAssumption == LocalConfigs \cap Nat = {}
ASSUME BoundsAssumption ==
    MaxDrafts \in Nat /\ MaxFaults \in Nat

VARIABLES
    \* the cloud API
    cloud,               \* the version of the target that is deployed; 0: none, answered by an
                         \* empty state
    needsDeployment,     \* needs_deployment: is an edit held back?
    drafts,              \* how many edits were held back
    \* faults
    crashes,             \* how often the process has died
    bodyFaults,          \* how many response bodies could not be read
    reconcileFaults,     \* how many reconciliations threw
    \* StatePoller
    etag,                \* targetStateETag; 0 before the first response
    requireFullRefresh,
    poll,                \* the poll in flight: pc, was it conditional, the version answered
    \* StateManager
    target,              \* targetState
    snapshots,           \* the 'target' rows of stateSnapshot in id order, with their second
    timer,               \* is reconcileTimer set?
    rec,                 \* where reconcile() is; "idle" when isReconciling is false
    pendingReconcile,
    \* ContainerManager and ConfigManager
    appsTarget,          \* ContainerManager.targetState, always saved as 'apps-target'
    isApplyingState,
    config               \* ConfigManager.currentConfig and the endpoint table

cloudVars   == <<cloud, needsDeployment, drafts>>
pollVars    == <<etag, requireFullRefresh, poll>>
faultVars   == <<crashes, bodyFaults, reconcileFaults>>
managerVars == <<appsTarget, isApplyingState, config>>
vars == <<cloud, needsDeployment, drafts, crashes, bodyFaults, reconcileFaults,
          etag, requireFullRefresh, poll, target, snapshots, timer, rec, pendingReconcile,
          appsTarget, isApplyingState, config>>

NoTarget == [apps |-> 0, config |-> 0]
IdlePoll == [pc |-> "idle", conditional |-> FALSE, version |-> 0]

Targets == [apps : 0 .. MaxVersions, config : (0 .. MaxVersions) \cup LocalConfigs]

-----------------------------------------------------------------------------
(* StateSnapshotModel, rows of type 'target' *)

\* ORDER BY createdAt DESC; SQLite leaves rows of one second in id order.
Precedes(rows, i, j) ==
    \/ rows[i].second > rows[j].second
    \/ rows[i].second = rows[j].second /\ i < j

\* Mutant: ORDER BY createdAt ASC.
LatestAscending(rows) == rows[1].state

Latest(rows) ==
    rows[CHOOSE i \in DOMAIN rows : \A j \in DOMAIN rows \ {i} : Precedes(rows, i, j)].state

\* Mutant: three rows are kept.
TrimLate(rows) ==
    IF Len(rows) <= 3 THEN rows
    ELSE RemoveAt(rows, CHOOSE i \in DOMAIN rows :
                            \A j \in DOMAIN rows \ {i} : Precedes(rows, j, i))

\* Keep the first two rows of that order; with three rows one is deleted.
Trim(rows) ==
    IF Len(rows) <= 2 THEN rows
    ELSE RemoveAt(rows, CHOOSE i \in DOMAIN rows :
                            \A j \in DOMAIN rows \ {i} : Precedes(rows, j, i))

\* Only the order of the seconds matters: count them from the oldest row.
FromOldest(rows) ==
    [i \in DOMAIN rows |-> [rows[i] EXCEPT !.second = @ - rows[1].second]]

\* CURRENT_TIMESTAMP has whole seconds: a new row may share the last one's.
NextSeconds == IF snapshots = <<>> THEN {0}
               ELSE LET last == snapshots[Len(snapshots)].second
                    IN  {last, last + 1}

AppendAndTrim(state) ==
    \E s \in NextSeconds :
        snapshots' = FromOldest(Trim(Append(snapshots, [state |-> state, second |-> s])))

-----------------------------------------------------------------------------
(* StateManager.setTarget *)

\* saveTargetStateToDB: lastSavedStateHash is the hash of the target in memory.
SaveTarget(new) ==
    IF new = target /\ snapshots # <<>> THEN UNCHANGED snapshots ELSE AppendAndTrim(new)

\* Mutant: a target that arrives during a run raises no flag.
SetTargetUnflagged(new) ==
    /\ target' = new
    /\ SaveTarget(new)
    /\ timer' = (timer \/ rec = "idle")
    /\ UNCHANGED pendingReconcile

SetTarget(new) ==
    /\ target' = new
    /\ SaveTarget(new)
    /\ IF rec = "idle"
       THEN timer' = TRUE /\ UNCHANGED pendingReconcile
       ELSE pendingReconcile' = TRUE /\ UNCHANGED timer

-----------------------------------------------------------------------------
(* StatePoller *)

\* Mutant: If-None-Match is sent whenever an ETag is stored.
ConditionalAlways == etag # 0

\* Is If-None-Match sent?
Conditional == etag # 0 /\ ~requireFullRefresh

\* pollTargetState sends its request; the lock allows one at a time.
PollSend ==
    /\ poll.pc = "idle"
    /\ poll' = [pc |-> "sent", conditional |-> Conditional, version |-> 0]
    /\ UNCHANGED <<cloudVars, faultVars, etag, requireFullRefresh, target, snapshots, timer,
                   rec, pendingReconcile, managerVars>>

\* pollNow(true); while a poll is in flight it only leaves the flag behind.
ForceRefresh ==
    /\ requireFullRefresh' = TRUE
    /\ UNCHANGED <<cloudVars, faultVars, etag, poll, target, snapshots, timer, rec,
                   pendingReconcile, managerVars>>

\* The request fails or times out, or the answer is neither 2xx nor 304.
PollFails ==
    /\ poll.pc = "sent"
    /\ poll' = IdlePoll
    /\ UNCHANGED <<cloudVars, faultVars, etag, requireFullRefresh, target, snapshots, timer,
                   rec, pendingReconcile, managerVars>>

\* Does the route answer 304?  While an edit is held back it always does.
NotModified == needsDeployment \/ (poll.conditional /\ etag = cloud)

PollNotModified ==
    /\ poll.pc = "sent"
    /\ NotModified
    /\ poll' = IdlePoll
    /\ requireFullRefresh' = FALSE
    /\ UNCHANGED <<cloudVars, faultVars, etag, target, snapshots, timer, rec,
                   pendingReconcile, managerVars>>

\* The headers of a 200 are here: the ETag is kept before the body is read.
PollHeaders ==
    /\ poll.pc = "sent"
    /\ ~NotModified
    /\ etag' = cloud
    /\ requireFullRefresh' = FALSE
    /\ poll' = [poll EXCEPT !.pc = "body", !.version = cloud]
    /\ UNCHANGED <<cloudVars, faultVars, target, snapshots, timer, rec, pendingReconcile,
                   managerVars>>

\* Mutant: an answer without config parts is taken for one without news.
MergedAll(version) ==
    IF version \in Bare \cup {0} THEN target ELSE [apps |-> version, config |-> version]

\* Endpoints, anomaly rules and features that the cloud does not send are kept.
Merged(version) ==
    [apps |-> version,
     config |-> IF version \in Bare \cup {0} THEN target.config ELSE version]

\* The body is parsed; setTarget is called only when the hash differs.
PollBody ==
    /\ poll.pc = "body"
    /\ poll' = IdlePoll
    /\ IF Merged(poll.version) = target
       THEN UNCHANGED <<target, snapshots, timer, pendingReconcile>>
       ELSE SetTarget(Merged(poll.version))
    /\ UNCHANGED <<cloudVars, faultVars, etag, requireFullRefresh, rec, managerVars>>

\* response.json() throws: the connection dropped, or the body is not JSON.
PollBodyFails ==
    /\ poll.pc = "body"
    /\ crashes + bodyFaults + reconcileFaults < MaxFaults
    /\ bodyFaults' = bodyFaults + 1
    /\ poll' = IdlePoll
    /\ UNCHANGED <<cloudVars, crashes, reconcileFaults, etag, requireFullRefresh, target,
                   snapshots, timer, rec, pendingReconcile, managerVars>>

-----------------------------------------------------------------------------
(* The device API: applyConfigUpdate reads the target, edits it and sets it *)

LocalEdit ==
    /\ \E c \in LocalConfigs : SetTarget([target EXCEPT !.config = c])
    /\ UNCHANGED <<cloudVars, faultVars, pollVars, rec, managerVars>>

-----------------------------------------------------------------------------
(* StateManager.reconcile *)

\* runReconcileOnce up to its first suspension: ContainerManager.setTarget saves
\* the apps and, unless an apply is already running, starts one and waits for it.
BeginRun ==
    /\ pendingReconcile' = FALSE
    /\ appsTarget' = target.apps
    /\ isApplyingState' = TRUE
    /\ rec' = IF isApplyingState THEN "config" ELSE "containers"

\* Mutant: the loop body runs once, whatever arrived meanwhile.
NextRunOnce ==
    /\ rec' = "idle"
    /\ pendingReconcile' = FALSE
    /\ UNCHANGED <<appsTarget, isApplyingState>>

\* The end of the do-while body.
NextRun ==
    IF pendingReconcile
    THEN BeginRun
    ELSE rec' = "idle" /\ UNCHANGED <<pendingReconcile, appsTarget, isApplyingState>>

\* The debounce timer fires and calls reconcile().
TimerFires ==
    /\ timer
    /\ timer' = FALSE
    /\ IF rec = "idle"
       THEN BeginRun
       ELSE pendingReconcile' = TRUE /\ UNCHANGED <<rec, appsTarget, isApplyingState>>
    /\ UNCHANGED <<cloudVars, faultVars, pollVars, target, snapshots, config>>

\* An apply ends, this reconciliation's own or the auto-reconciliation's; its
\* failed steps are logged, never thrown.
ApplyEnds ==
    /\ isApplyingState
    /\ isApplyingState' = FALSE
    /\ rec' = IF rec = "containers" THEN "config" ELSE rec
    /\ UNCHANGED <<cloudVars, faultVars, pollVars, target, snapshots, timer, pendingReconcile,
                   appsTarget, config>>

\* startAutoReconciliation's tick.
AutoApply ==
    /\ ~isApplyingState
    /\ isApplyingState' = TRUE
    /\ UNCHANGED <<cloudVars, faultVars, pollVars, target, snapshots, timer, rec,
                   pendingReconcile, appsTarget, config>>

\* ConfigManager.setTarget with the target of this moment.
ApplyConfig ==
    /\ rec = "config"
    /\ config' = target.config
    /\ rec' = "version"
    /\ UNCHANGED <<cloudVars, faultVars, pollVars, target, snapshots, timer, pendingReconcile,
                   appsTarget, isApplyingState>>

\* It throws half way: reconcile() leaves its loop whatever pendingReconcile says.
ReconcileThrows ==
    /\ rec = "config"
    /\ crashes + bodyFaults + reconcileFaults < MaxFaults
    /\ reconcileFaults' = reconcileFaults + 1
    /\ config' \in {config, target.config}
    /\ rec' = "idle"
    /\ UNCHANGED <<cloudVars, crashes, bodyFaults, pollVars, target, snapshots, timer,
                   pendingReconcile, appsTarget, isApplyingState>>

\* The containers are busy again: try the agent version in another two seconds.
DeferVersion ==
    /\ rec = "version"
    /\ isApplyingState
    /\ timer' = TRUE
    /\ NextRun
    /\ UNCHANGED <<cloudVars, faultVars, pollVars, target, snapshots, config>>

\* reconcileAgentVersion, saveCurrentStateToDB and "reconciliation-complete".
ReconcileCompletes ==
    /\ rec = "version"
    /\ ~isApplyingState
    /\ NextRun
    /\ UNCHANGED <<cloudVars, faultVars, pollVars, target, snapshots, timer, config>>

-----------------------------------------------------------------------------
(* The cloud API and the process *)

\* A target that is not held back: deploy, or set without needs_deployment.
CloudPublishes ==
    /\ cloud < MaxVersions
    /\ cloud' = cloud + 1
    /\ needsDeployment' = FALSE
    /\ UNCHANGED <<drafts, faultVars, pollVars, target, snapshots, timer, rec, pendingReconcile,
                   managerVars>>

\* PUT target-state: the edit waits for its deployment.
CloudEdits ==
    /\ drafts < MaxDrafts
    /\ drafts' = drafts + 1
    /\ needsDeployment' = TRUE
    /\ UNCHANGED <<cloud, faultVars, pollVars, target, snapshots, timer, rec,
                   pendingReconcile, managerVars>>

\* The target deployed last is restored, and its ETag with it.
CancelDeployment ==
    /\ needsDeployment
    /\ cloud # 0
    /\ needsDeployment' = FALSE
    /\ UNCHANGED <<cloud, drafts, faultVars, pollVars, target, snapshots, timer, rec,
                   pendingReconcile, managerVars>>

\* The process dies and starts again: init() loads what SQLite holds and starts
\* no reconciliation; the poller's first request is unconditional.
Restart ==
    /\ crashes + bodyFaults + reconcileFaults < MaxFaults
    /\ crashes' = crashes + 1
    /\ requireFullRefresh' = TRUE
    /\ poll' = IdlePoll
    /\ target' = IF snapshots = <<>> THEN NoTarget ELSE Latest(snapshots)
    /\ timer' = FALSE
    /\ rec' = "idle"
    /\ pendingReconcile' = FALSE
    /\ isApplyingState' = FALSE
    /\ UNCHANGED <<cloudVars, bodyFaults, reconcileFaults, etag, snapshots, appsTarget, config>>

-----------------------------------------------------------------------------
Init ==
    /\ cloud = 0 /\ needsDeployment = FALSE /\ drafts = 0
    /\ crashes = 0 /\ bodyFaults = 0 /\ reconcileFaults = 0
    /\ etag = 0
    /\ requireFullRefresh = TRUE
    /\ poll = IdlePoll
    /\ target = NoTarget
    /\ snapshots = <<>>
    /\ timer = FALSE
    /\ rec = "idle"
    /\ pendingReconcile = FALSE
    /\ appsTarget = 0
    /\ isApplyingState = FALSE
    /\ config = 0

PollCycle == PollSend \/ PollFails \/ PollNotModified \/ PollHeaders \/ PollBody \/ PollBodyFails

ReconcileStep ==
    TimerFires \/ ApplyEnds \/ ApplyConfig \/ ReconcileThrows \/ DeferVersion \/ ReconcileCompletes

Next ==
    \/ PollCycle
    \/ ForceRefresh
    \/ LocalEdit
    \/ ReconcileStep
    \/ AutoApply
    \/ CloudPublishes
    \/ CloudEdits
    \/ CancelDeployment
    \/ Restart

Spec == Init /\ [][Next]_vars

\* Timers fire, an apply ends, a promise settles.  The cloud answers a poll
\* again and again, though any single request may fail.
Fairness ==
    /\ WF_vars(PollSend)
    /\ SF_vars(PollNotModified \/ PollHeaders)
    /\ WF_vars(PollBody \/ PollBodyFails)
    /\ WF_vars(TimerFires)
    /\ WF_vars(ApplyEnds)
    /\ WF_vars(ApplyConfig \/ ReconcileThrows \/ DeferVersion \/ ReconcileCompletes)

FairSpec == Spec /\ Fairness

-----------------------------------------------------------------------------
(* Properties *)

(* Every variable has its type, and appendAndTrim leaves two target snapshots. *)
TypeOK ==
    /\ cloud \in 0 .. MaxVersions
    /\ needsDeployment \in BOOLEAN
    /\ drafts \in 0 .. MaxDrafts
    /\ crashes \in 0 .. MaxFaults
    /\ bodyFaults \in 0 .. MaxFaults
    /\ reconcileFaults \in 0 .. MaxFaults
    /\ etag \in 0 .. MaxVersions
    /\ requireFullRefresh \in BOOLEAN
    /\ poll \in [pc : {"idle", "sent", "body"}, conditional : BOOLEAN,
                 version : 0 .. MaxVersions]
    /\ target \in Targets
    /\ snapshots \in Seq([state : Targets, second : Nat])
    /\ Len(snapshots) <= 2
    /\ timer \in BOOLEAN
    /\ rec \in {"idle", "containers", "config", "version"}
    /\ pendingReconcile \in BOOLEAN
    /\ appsTarget \in 0 .. MaxVersions
    /\ isApplyingState \in BOOLEAN
    /\ config \in (0 .. MaxVersions) \cup LocalConfigs

Undisturbed == crashes = 0 /\ reconcileFaults = 0

(* As long as no run threw and the process never died, StateManager at rest      *)
(* (no timer, no run) has handed its newest target to both managers: no setTarget *)
(* slips between the debounce timer, the running reconciliation and the pending   *)
(* flag, and a run that read the apps of one target and the config of the next is *)
(* never the last one.                                                            *)
RestMeansReconciled ==
    Undisturbed /\ rec = "idle" /\ ~timer =>
        appsTarget = target.apps /\ config = target.config

(* A 304 that does not hold back an edit only ever saves a redundant download:   *)
(* the agent already holds the apps of the version the cloud did not send.        *)
NotModifiedIsRedundant ==
    poll.pc = "sent" /\ NotModified /\ ~needsDeployment => target.apps = cloud

\* Is the request in flight, or the next one, sent without If-None-Match?
AsksUnconditionally == IF poll.pc = "sent" THEN ~poll.conditional ELSE requireFullRefresh

\* Every body was read, and no 304 that holds back an edit can have ended the full
\* refresh that a restart asks for.
RefreshWorks == bodyFaults = 0 /\ (crashes = 0 \/ drafts = 0)

(* Whenever the agent may be told "not modified", it holds the apps its ETag      *)
(* stands for.  This survives restarts, although the ETag is stored before the     *)
(* target, because a process asks unconditionally first; but not restarts together *)
(* with edits that are held back, whose 304 ends that without a body.              *)
EtagMeansHeld ==
    RefreshWorks /\ poll.pc # "body" /\ etag # 0 /\ ~AsksUnconditionally
        => target.apps = etag

\* Do the two rows that are kept carry the same CURRENT_TIMESTAMP?
SameSecond == Len(snapshots) = 2 /\ snapshots[1].second = snapshots[2].second

(* A restart resumes the target that was in effect when the process died, unless  *)
(* the two rows that are kept were saved within one second: then the order of      *)
(* appendAndTrim and getLatest does not tell them apart.                           *)
RestartKeepsTarget == [][crashes' # crashes => target' = target \/ SameSecond]_vars

(* What the cloud published last is eventually the agent's target, whatever      *)
(* crashes, failed requests, failed reconciliations and local edits come between, *)
(* if no body is lost and the cloud stops holding edits back.                     *)
CloudTargetArrives ==
    []RefreshWorks /\ <>[]~needsDeployment =>
        (target.apps # cloud ~> target.apps = cloud)

(* reconcile(): an update that arrives during a run is not lost, another run      *)
(* takes it up.                                                                   *)
PendingIsServed == pendingReconcile ~> ~pendingReconcile

(* Without crashes and faults every target is eventually carried out.            *)
TargetIsReconciled ==
    [](Undisturbed) => (config # target.config ~> config = target.config)
=============================================================================
