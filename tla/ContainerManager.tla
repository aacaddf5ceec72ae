-------------------------- MODULE ContainerManager --------------------------
(***************************************************************************)
(* How the agent carries out its target: ContainerManager with the planner *)
(* of reconciliation-planner.ts, the executor of step-executor.ts, the     *)
(* RetryManager for images, the sync from Docker, the restart of a         *)
(* container whose liveness probe fails, and Docker itself as              *)
(* DockerManager uses it.                                                  *)
(*                                                                         *)
(* One app.  An action is the code between two awaits that really suspend: *)
(* an apply waits for Docker in the middle of a step while a sync of the   *)
(* report loop lists the containers, or lands and replaces currentState,   *)
(* and while a failed probe stops, removes and starts the same container.  *)
(*                                                                         *)
(* A service is abstracted to its image, its state and whether its config  *)
(* holds a liveness probe, which depends on the service alone.             *)
(* Ports, environment, networks and volumes only add reasons to update.    *)
(* Left out: networks and volumes of an app, what is in a log stream,      *)
(* Docker's own restart policy, startup and readiness probes, and          *)
(* serviceStatus and error, which no decision reads.                       *)
(***************************************************************************)
EXTENDS Naturals, Sequences, FiniteSets, SequencesExt

CONSTANTS
    NumServices,   \* serviceIds of the app are 1 .. NumServices
    Images,        \* image names
    Probed,        \* the services with a liveness probe in every target
    NoImage,       \* no image: the field of an absent service
    Targets,       \* the targets the app may be given
    Initial,       \* the targets that may have been carried out before
    MaxRetries,    \* policy.maxRetries of the RetryManager (10 in retry-manager.ts)
    MaxEvents      \* bound: how many targets are set, containers exit or turn unhealthy by
                   \* themselves, outages of the registry begin, pulls are refused, starts
                   \* fail and agent processes die, all together

ASSUME ServicesAssumption == NumServices \in Nat \ {0}
ASSUME ImagesAssumption == Images # {} /\ NoImage \notin Images
ASSUME RetriesAssumption == MaxRetries \in Nat \ {0}
ASSUME BoundsAssumption == MaxEvents \in Nat

Services == 1 .. NumServices
ServiceStates == {"running", "stopped", "paused"}
DockerStates == {"none", "created", "running", "paused", "exited"}

Absent == [image |-> NoImage, state |-> "absent"]
Wanted == [image : Images, state : ServiceStates]

ASSUME ProbedAssumption == Probed \subseteq Services
ASSUME TargetsAssumption == Targets \cup Initial \subseteq [Services -> Wanted \cup {Absent}]

VARIABLES
    \* Docker
    docker,        \* the container with the name of each service
    images,        \* the images in the local store
    registry,      \* does the image registry answer?
    \* ContainerManager
    target,        \* targetState, saved as 'apps-target' whenever it is set
    current,       \* currentState: the entries of each service, in the order they were added
    steps,         \* the rest of the plan an apply works off, the step in progress first
    phase,         \* where that step is; "idle" when isApplyingState is false
    sync,          \* the listing a syncCurrentStateFromDocker in flight has got
    \* HealthCheckManager
    watched,       \* the container ids of each service with a liveness probe under way
    heal,          \* the restartUnhealthyContainer under way for each service
    \* RetryManager
    retry,         \* the state of each image's key, saved in SQLite
    events         \* how many targets were set and faults happened, at most MaxEvents

vars == <<docker, images, registry, target, current, steps, phase, sync, watched, heal,
          retry, events>>
healthVars == <<watched, heal>>

Entries == [id : Nat, image : Images, state : ServiceStates, status : DockerStates,
            probed : BOOLEAN]
NoEntry == [id |-> 0, image |-> NoImage, state |-> "running", status |-> "none", probed |-> FALSE]
NoHeal == [pc |-> "idle", id |-> 0, service |-> NoEntry, shared |-> FALSE]
Unshared(h) == [h EXCEPT !.shared = FALSE, !.service.id = 0]
NoContainer == [id |-> 0, image |-> NoImage, status |-> "none"]
NoListing == <<>>

Exists(c) == c.status # "none"

\* The cloud sends a target, or something outside the agent goes wrong.
Event == events < MaxEvents /\ events' = events + 1

-----------------------------------------------------------------------------
(* RetryManager *)

Fresh == [count |-> 0, next |-> "now"]

\* "now", "later" (nextRetry has not come) or "never" (terminal).
ShouldRetry(image) == retry[image].next = "now"

RecordFailure(image) ==
    retry' = [retry EXCEPT ![image] =
                 [count |-> @.count + 1,
                  next  |-> IF @.count + 1 >= MaxRetries THEN "never" ELSE "later"]]

\* isRetryableError is false (credentials, validation): terminal at once.
RecordFatal(image) == retry' = [retry EXCEPT ![image].next = "never"]

RecordSuccess(image) == retry' = [retry EXCEPT ![image] = Fresh]

-----------------------------------------------------------------------------
(* docker-state-sync: what currentState says about a container *)

\* A container that was created and never started has no state, which counts
\* as "running" everywhere.
StateOf(status) == CASE status = "paused" -> "paused"
                     [] status = "exited" -> "stopped"
                     [] OTHER -> "running"

\* The probes are not in what Docker tells.
EntryOf(c) == [id |-> c.id, image |-> c.image, state |-> StateOf(c.status), status |-> c.status,
               probed |-> FALSE]

\* Mutant: listContainers without "all", which leaves out what does not run.
ListingOfRunning ==
    [s \in Services |-> IF docker[s].status = "running" THEN <<EntryOf(docker[s])>> ELSE <<>>]

Listing == [s \in Services |-> IF Exists(docker[s]) THEN <<EntryOf(docker[s])>> ELSE <<>>]

-----------------------------------------------------------------------------
(* reconciliation-planner: the steps that lead from currentState to the target *)

\* A step on an existing container, and one that needs the wanted service.
OnContainer(action, s, id) ==
    [action |-> action, service |-> s, id |-> id, want |-> Absent, probed |-> FALSE]
ForService(action, s, want) ==
    [action |-> action, service |-> s, id |-> 0, want |-> want, probed |-> s \in Probed]

TakeDown(s, id) ==
    <<OnContainer("stopContainer", s, id), OnContainer("removeContainer", s, id)>>

Install(s, want) ==
    <<ForService("downloadImage", s, want), ForService("startContainer", s, want)>>

\* planStepsToRemoveApp: every entry, a second one of a service included.
RemoveSteps(s) == FlattenSeq([i \in DOMAIN current[s] |-> TakeDown(s, current[s][i].id)])

\* planStepsToAddApp
AddSteps(s, want) == IF want[s].state = "running" THEN Install(s, want[s]) ELSE <<>>

\* The state of an existing service is to change.
TransitionSteps(s, entry, want) ==
    LET step(action) == OnContainer(action, s, entry.id)
    IN  CASE entry.state = "running" /\ want.state = "stopped" -> <<step("stopContainer")>>
          [] entry.state = "running" /\ want.state = "paused"  -> <<step("pauseContainer")>>
          [] entry.state = "stopped" /\ want.state = "running" -> <<step("startStoppedContainer")>>
          [] entry.state = "paused"  /\ want.state = "running" -> <<step("unpauseContainer")>>
          [] entry.state = "paused"  /\ want.state = "stopped" ->
                <<step("unpauseContainer"), step("stopContainer")>>
          [] entry.state = "stopped" /\ want.state = "paused"  ->
                <<step("startStoppedContainer"), step("pauseContainer")>>

\* Mutant: the images are not compared.
RecreateStopped(s, entry, want) ==
    IF entry.status = "exited"
    THEN TakeDown(s, entry.id) \o <<ForService("startContainer", s, want)>>
    ELSE <<>>

\* Same state: the image changed, or the container is not running.
RecreateSteps(s, entry, want) ==
    IF entry.image # want.image
    THEN <<ForService("downloadImage", s, want)>> \o TakeDown(s, entry.id)
              \o <<ForService("startContainer", s, want)>>
    ELSE IF entry.status = "exited"
    THEN TakeDown(s, entry.id) \o <<ForService("startContainer", s, want)>>
    ELSE <<>>

\* planStepsToUpdateApp; its Map keeps the last entry of a service.
UpdateSteps(s, want) ==
    LET entry == Last(current[s])
    IN  IF current[s] = <<>>
        THEN IF want[s].state = "running" /\ ShouldRetry(want[s].image)
             THEN Install(s, want[s]) ELSE <<>>
        ELSE IF want[s] = Absent
        THEN TakeDown(s, entry.id)
        ELSE IF entry.state # want[s].state
        THEN TransitionSteps(s, entry, want[s])
        ELSE RecreateSteps(s, entry, want[s])

\* calculateSteps: is the app to be removed, to be added or to be updated?  Its
\* services come in the order of their ids.
Plan(want) ==
    LET inCurrent == \E s \in Services : current[s] # <<>>
        inTarget  == \E s \in Services : want[s] # Absent
    IN  FlattenSeq([s \in Services |->
            CASE inCurrent /\ ~inTarget -> RemoveSteps(s)
              [] ~inCurrent /\ inTarget -> AddSteps(s, want)
              [] inCurrent /\ inTarget  -> UpdateSteps(s, want)
              [] OTHER -> <<>>])

\* applyTargetState up to its first step.
BeginApply(want) ==
    /\ steps' = Plan(want)
    /\ phase' = IF Plan(want) = <<>> THEN "idle" ELSE "begin"

-----------------------------------------------------------------------------
(* Docker, as DockerManager calls it *)

\* Is there a container with this id?
Present(s, id) == docker[s].id = id /\ Exists(docker[s])

ToStatus(s, status) == docker' = [docker EXCEPT ![s].status = status]

\* The daemon stops a container; one that is not running answers 304.
StopById(s) ==
    IF docker[s].status \in {"running", "paused"} THEN ToStatus(s, "exited") ELSE UNCHANGED docker

\* Without force the daemon does not remove a running or paused container; one that is
\* gone counts as removed.
Removable(s, id) == ~(Present(s, id) /\ docker[s].status \in {"running", "paused"})
RemoveById(s, id) ==
    docker' = IF Present(s, id) THEN [docker EXCEPT ![s] = NoContainer] ELSE docker

\* findContainerByName: a running container of that name is used as it is, whatever
\* its image, another one is to be started.
AfterFind(s) ==
    CASE docker[s].status \in {"running", "paused"} -> "started"
      [] docker[s].status \in {"exited", "created"} -> "found"
      [] OTHER -> "missing"

\* container.start() on a container that is gone or runs already is an error.
Startable(s, id) == Present(s, id) /\ docker[s].status \in {"exited", "created"}

\* The ids that something still refers to; a new container gets another one.
Referenced(s) ==
    {docker[s].id} \cup {current[s][i].id : i \in DOMAIN current[s]}
        \cup {steps[i].id : i \in {j \in DOMAIN steps : steps[j].service = s}}
        \cup (IF sync = NoListing THEN {} ELSE {sync[s][i].id : i \in DOMAIN sync[s]})
        \cup watched[s] \cup {heal[s].id, heal[s].service.id}

NewId(s) == CHOOSE n \in 1 .. Cardinality(Referenced(s)) + 1 : n \notin Referenced(s)

\* createContainer: the image is pulled if it is missing, past the RetryManager; a
\* container of that name must not have come up meanwhile.
Creatable(s, image) == ~Exists(docker[s]) /\ (image \in images \/ registry)
Create(s, image) ==
    /\ images' = images \cup {image}
    /\ docker' = [docker EXCEPT ![s] = [id |-> NewId(s), image |-> image, status |-> "created"]]

-----------------------------------------------------------------------------
(* Executing a step *)

Step == Head(steps)
Svc == Step.service

\* Mutant: isApplyingState is reset when the last step begins.
NextStepEarly ==
    /\ steps' = Tail(steps)
    /\ phase' = IF Len(steps) <= 2 THEN "idle" ELSE "begin"

\* The step has ended, well or badly; a failed step does not stop the plan.
NextStep ==
    /\ steps' = Tail(steps)
    /\ phase' = IF Len(steps) = 1 THEN "idle" ELSE "begin"

Doing(action) == phase = "begin" /\ Step.action = action

\* Does the container that the step names still exist?
Named == Present(Svc, Step.id)

Returns ==
    /\ phase' = "returned"
    /\ UNCHANGED steps

\* downloadImage always pulls; while the key must wait, the step only fails.
DownloadImage ==
    /\ Doing("downloadImage")
    /\ LET image == Step.want.image
       IN  \/ /\ ~ShouldRetry(image)
              /\ UNCHANGED <<images, retry, events>>
           \/ /\ ShouldRetry(image) /\ registry
              /\ images' = images \cup {image}
              /\ RecordSuccess(image)
              /\ UNCHANGED events
           \/ /\ ShouldRetry(image) /\ ~registry
              /\ RecordFailure(image)
              /\ UNCHANGED <<images, events>>
           \/ /\ ShouldRetry(image) /\ registry
              /\ Event
              /\ RecordFatal(image)
              /\ UNCHANGED images
    /\ NextStep
    /\ UNCHANGED <<docker, registry, target, current, sync, healthVars>>

StopContainer ==
    /\ Doing("stopContainer")
    /\ IF Named THEN Returns /\ StopById(Svc) ELSE NextStep /\ UNCHANGED docker
    /\ UNCHANGED <<images, registry, target, current, sync, healthVars, retry, events>>

PauseContainer ==
    /\ Doing("pauseContainer")
    /\ IF Named /\ docker[Svc].status = "running"
       THEN Returns /\ ToStatus(Svc, "paused")
       ELSE NextStep /\ UNCHANGED docker
    /\ UNCHANGED <<images, registry, target, current, sync, healthVars, retry, events>>

UnpauseContainer ==
    /\ Doing("unpauseContainer")
    /\ IF Named /\ docker[Svc].status = "paused"
       THEN Returns /\ ToStatus(Svc, "running")
       ELSE NextStep /\ UNCHANGED docker
    /\ UNCHANGED <<images, registry, target, current, sync, healthVars, retry, events>>

RemoveContainer ==
    /\ Doing("removeContainer")
    /\ IF Removable(Svc, Step.id) THEN Returns /\ RemoveById(Svc, Step.id)
       ELSE NextStep /\ UNCHANGED docker
    /\ UNCHANGED <<images, registry, target, current, sync, healthVars, retry, events>>

StopMonitoring(s, id) == watched' = [watched EXCEPT ![s] = @ \ {id}]
StartMonitoring(s, id, probed) ==
    watched' = IF probed THEN [watched EXCEPT ![s] = @ \cup {id}] ELSE watched

\* The service is taken from its first entry, and no longer probed, before the
\* container is removed.
StartStoppedContainer ==
    /\ Doing("startStoppedContainer")
    /\ \/ /\ current[Svc] = <<>>
          /\ NextStep /\ UNCHANGED <<docker, watched>>
       \/ /\ current[Svc] # <<>>
          /\ StopMonitoring(Svc, Step.id)
          /\ IF Removable(Svc, Step.id)
             THEN LET entry == Head(current[Svc])
                  IN  /\ RemoveById(Svc, Step.id)
                      /\ phase' = "returned"
                      /\ steps' = <<[Step EXCEPT !.want = [image |-> entry.image,
                                                            state |-> entry.state],
                                                 !.probed = entry.probed]>> \o Tail(steps)
             ELSE NextStep /\ UNCHANGED docker
    /\ UNCHANGED <<images, registry, target, current, sync, heal, retry, events>>

\* updateServiceState changes the first entry of the service, an object that a restart
\* by the health check may have picked as well.
UpdateServiceState(state) ==
    IF current[Svc] = <<>> THEN UNCHANGED <<current, heal>>
    ELSE /\ current' = [current EXCEPT ![Svc][1].state = state]
         /\ heal' = IF heal[Svc].shared /\ heal[Svc].service.id = current[Svc][1].id
                    THEN [heal EXCEPT ![Svc].service.state = state] ELSE heal

RemoveServiceFromCurrentState ==
    /\ current' = [current EXCEPT ![Svc] = <<>>]
    /\ heal' = [heal EXCEPT ![Svc] = Unshared(@)]

\* Docker has answered; currentState follows.  startStoppedContainer goes on with
\* starting the service it has taken out.
StepReturns ==
    /\ phase = "returned"
    /\ \/ /\ Step.action = "stopContainer"
          /\ UpdateServiceState("stopped") /\ StopMonitoring(Svc, Step.id) /\ NextStep
       \/ /\ Step.action = "pauseContainer"
          /\ UpdateServiceState("paused") /\ NextStep /\ UNCHANGED watched
       \/ /\ Step.action = "unpauseContainer"
          /\ UpdateServiceState("running") /\ NextStep /\ UNCHANGED watched
       \/ /\ Step.action = "removeContainer"
          /\ RemoveServiceFromCurrentState /\ StopMonitoring(Svc, Step.id) /\ NextStep
       \/ /\ Step.action = "startStoppedContainer"
          /\ RemoveServiceFromCurrentState /\ UNCHANGED watched
          /\ steps' = <<[Step EXCEPT !.action = "startContainer", !.id = 0]>> \o Tail(steps)
          /\ phase' = "begin"
    /\ UNCHANGED <<docker, images, registry, target, sync, retry, events>>

\* DockerManager.startContainer
FindContainer ==
    /\ Doing("startContainer")
    /\ phase' = AfterFind(Svc)
    /\ steps' = <<[Step EXCEPT !.id = docker[Svc].id]>> \o Tail(steps)
    /\ UNCHANGED <<docker, images, registry, target, current, sync, healthVars, retry, events>>

CreateContainer ==
    /\ phase = "missing"
    /\ IF Creatable(Svc, Step.want.image)
       THEN /\ Create(Svc, Step.want.image)
            /\ phase' = "created"
            /\ steps' = <<[Step EXCEPT !.id = NewId(Svc)]>> \o Tail(steps)
       ELSE NextStep /\ UNCHANGED <<docker, images>>
    /\ UNCHANGED <<registry, target, current, sync, healthVars, retry, events>>

\* container.start() returns well, unless something outside the agent goes wrong.
StartContainer ==
    /\ phase \in {"found", "created"}
    /\ IF Startable(Svc, Step.id)
       THEN \/ ToStatus(Svc, "running") /\ phase' = "started" /\ UNCHANGED <<steps, events>>
            \/ Event /\ NextStep /\ UNCHANGED docker
       ELSE NextStep /\ UNCHANGED <<docker, events>>
    /\ UNCHANGED <<images, registry, target, current, sync, healthVars, retry>>

\* addServiceToCurrentState: the service as it was asked for, not as it is.
AddToCurrentState ==
    /\ phase = "started"
    /\ current' = [current EXCEPT ![Svc] =
                      Append(@, [id |-> Step.id, image |-> Step.want.image,
                                 state |-> Step.want.state, status |-> "running",
                                 probed |-> Step.probed])]
    /\ phase' = "attaching"
    /\ UNCHANGED <<docker, images, registry, target, steps, sync, healthVars, retry, events>>

\* The logs are attached, now the health of the container is watched.
StartHealthMonitoring ==
    /\ phase = "attaching"
    /\ StartMonitoring(Svc, Step.id, Step.probed)
    /\ NextStep
    /\ UNCHANGED <<docker, images, registry, target, current, sync, heal, retry, events>>

-----------------------------------------------------------------------------
(* runtime-health: a container whose liveness probe fails is replaced *)

Ended(s) == heal' = [heal EXCEPT ![s] = NoHeal]
Goes(s, pc) == heal' = [heal EXCEPT ![s].pc = pc]
Healing(s, pc) == heal[s].pc = pc

\* The probe of a watched container fails as often as its threshold says: at any time,
\* and surely once the container is stopped or paused.
ProbeFails(s, id) == id \in watched[s] /\ Event

\* restartUnhealthyContainer looks the container up in currentState; if it is not
\* there, nothing happens.  Bound: one such restart of a service at a time.
LivenessFailed(s, id) ==
    /\ ProbeFails(s, id) /\ Healing(s, "idle")
    /\ \E i \in DOMAIN current[s] :
          /\ current[s][i].id = id /\ \A j \in 1 .. i - 1 : current[s][j].id # id
          /\ heal' = [heal EXCEPT ![s] = [pc |-> "stop", id |-> id, shared |-> TRUE,
                          service |-> [current[s][i] EXCEPT !.status = "running"]]]
    /\ StopMonitoring(s, id)
    /\ UNCHANGED <<docker, images, registry, target, current, steps, phase, sync, retry>>

HealStops(s) ==
    /\ Healing(s, "stop")
    /\ IF Present(s, heal[s].id) THEN StopById(s) /\ Goes(s, "remove") ELSE Ended(s) /\ UNCHANGED docker
    /\ UNCHANGED <<images, registry, target, current, steps, phase, sync, watched, retry, events>>

HealRemoves(s) ==
    /\ Healing(s, "remove")
    /\ IF Removable(s, heal[s].id) THEN RemoveById(s, heal[s].id) /\ Goes(s, "find")
       ELSE Ended(s) /\ UNCHANGED docker
    /\ UNCHANGED <<images, registry, target, current, steps, phase, sync, watched, retry, events>>

HealFinds(s) ==
    /\ Healing(s, "find")
    /\ heal' = [heal EXCEPT ![s].pc = AfterFind(s), ![s].id = docker[s].id]
    /\ UNCHANGED <<docker, images, registry, target, current, steps, phase, sync, watched,
                   retry, events>>

HealCreates(s) ==
    /\ Healing(s, "missing")
    /\ LET image == heal[s].service.image
       IN  IF Creatable(s, image)
           THEN /\ Create(s, image)
                /\ heal' = [heal EXCEPT ![s].pc = "created", ![s].id = NewId(s)]
           ELSE Ended(s) /\ UNCHANGED <<docker, images>>
    /\ UNCHANGED <<registry, target, current, steps, phase, sync, watched, retry, events>>

HealStarts(s) ==
    /\ heal[s].pc \in {"found", "created"}
    /\ IF Startable(s, heal[s].id)
       THEN \/ ToStatus(s, "running") /\ Goes(s, "started") /\ UNCHANGED events
            \/ Event /\ Ended(s) /\ UNCHANGED docker
       ELSE Ended(s) /\ UNCHANGED <<docker, events>>
    /\ UNCHANGED <<images, registry, target, current, steps, phase, sync, watched, retry>>

\* The entries of the service give way to one of the service that was picked, with the
\* new id; it is watched if that one had its probes.
HealLands(s) ==
    /\ Healing(s, "started")
    /\ current' = [current EXCEPT ![s] =
                      <<[heal[s].service EXCEPT !.id = heal[s].id]>>]
    /\ StartMonitoring(s, heal[s].id, heal[s].service.probed)
    /\ Ended(s)
    /\ UNCHANGED <<docker, images, registry, target, steps, phase, sync, retry, events>>

HealStep(s) ==
    \/ HealStops(s) \/ HealRemoves(s) \/ HealFinds(s) \/ HealCreates(s)
    \/ HealStarts(s) \/ HealLands(s)

-----------------------------------------------------------------------------
(* The callers *)

\* setTarget: saved at once, applied at once unless an apply is running.
SetTarget(new) ==
    /\ Event
    /\ target' = new
    /\ IF phase = "idle" THEN BeginApply(new) ELSE UNCHANGED <<steps, phase>>
    /\ UNCHANGED <<docker, images, registry, current, sync, healthVars, retry>>

\* The tick of startAutoReconciliation; it does not ask Docker first.
AutoReconcile ==
    /\ phase = "idle"
    /\ BeginApply(target)
    /\ UNCHANGED <<docker, images, registry, target, current, sync, healthVars, retry, events>>

\* getCurrentState, called for every report: Docker lists its containers ...
SyncLists ==
    /\ sync = NoListing
    /\ sync' = Listing
    /\ UNCHANGED <<docker, images, registry, target, current, steps, phase, healthVars, retry, events>>

\* ... each one is inspected, and the result replaces currentState.
SyncLands ==
    /\ sync # NoListing
    /\ current' = sync
    /\ sync' = NoListing
    /\ heal' = [s \in Services |-> Unshared(heal[s])]
    /\ UNCHANGED <<docker, images, registry, target, steps, phase, watched, retry, events>>

BackoffEnds ==
    /\ \E image \in Images :
          /\ retry[image].next = "later"
          /\ retry' = [retry EXCEPT ![image].next = "now"]
    /\ UNCHANGED <<docker, images, registry, target, current, steps, phase, sync, healthVars, events>>

RegistryFails ==
    /\ registry
    /\ registry' = FALSE
    /\ Event
    /\ UNCHANGED <<docker, images, target, current, steps, phase, sync, healthVars, retry>>

RegistryReturns ==
    /\ ~registry
    /\ registry' = TRUE
    /\ UNCHANGED <<docker, images, target, current, steps, phase, sync, healthVars, retry, events>>

ContainerExits ==
    /\ Event
    /\ \E s \in Services :
          /\ docker[s].status = "running"
          /\ docker' = [docker EXCEPT ![s].status = "exited"]
    /\ UNCHANGED <<images, registry, target, current, steps, phase, sync, healthVars, retry>>

\* The process dies and starts again: init() loads the target and syncs; nothing
\* watches the containers it finds.
Restart ==
    /\ Event
    /\ current' = Listing
    /\ steps' = <<>>
    /\ phase' = "idle"
    /\ sync' = NoListing
    /\ watched' = [s \in Services |-> {}]
    /\ heal' = [s \in Services |-> NoHeal]
    /\ UNCHANGED <<docker, images, registry, target, retry>>

-----------------------------------------------------------------------------
\* The container of a service that was set up for its target.
SetUp(want) ==
    CASE want = Absent -> NoContainer
      [] want.state = "running" -> [id |-> 1, image |-> want.image, status |-> "running"]
      [] want.state = "paused"  -> [id |-> 1, image |-> want.image, status |-> "paused"]
      [] want.state = "stopped" -> [id |-> 1, image |-> want.image, status |-> "exited"]

\* The device is new, or its target has been carried out: by an earlier process of the
\* agent, or by this one, which watches what it has set up.
Init ==
    /\ target \in Initial
    /\ docker = [s \in Services |-> SetUp(target[s])]
    /\ images = {target[s].image : s \in Services} \ {NoImage}
    /\ registry = TRUE
    /\ \/ /\ current = Listing
          /\ watched = [s \in Services |-> {}]
       \/ /\ current = [s \in Services |-> [i \in DOMAIN Listing[s] |->
                           [Listing[s][i] EXCEPT !.probed = (s \in Probed)]]]
          /\ watched = [s \in Services |->
                           IF s \in Probed /\ docker[s].status \in {"running", "paused"}
                           THEN {docker[s].id} ELSE {}]
    /\ steps = <<>>
    /\ phase = "idle"
    /\ sync = NoListing
    /\ heal = [s \in Services |-> NoHeal]
    /\ retry = [image \in Images |-> Fresh]
    /\ events = 0

ApplyStep ==
    \/ DownloadImage \/ StopContainer \/ PauseContainer \/ UnpauseContainer
    \/ RemoveContainer \/ StartStoppedContainer \/ StepReturns
    \/ FindContainer \/ CreateContainer \/ StartContainer
    \/ AddToCurrentState \/ StartHealthMonitoring

Next ==
    \/ ApplyStep
    \/ \E new \in Targets : SetTarget(new)
    \/ AutoReconcile
    \/ \E s \in Services : HealStep(s) \/ \E id \in watched[s] : LivenessFailed(s, id)
    \/ SyncLists
    \/ SyncLands
    \/ BackoffEnds
    \/ RegistryFails
    \/ RegistryReturns
    \/ ContainerExits
    \/ Restart

Spec == Init /\ [][Next]_vars

\* Docker answers, timers fire, the report loop asks for the current state, and
\* an outage of the registry ends.
Fairness ==
    /\ WF_vars(ApplyStep)
    /\ WF_vars(AutoReconcile)
    /\ \A s \in Services : WF_vars(HealStep(s))
    /\ WF_vars(SyncLists)
    /\ WF_vars(SyncLands)
    /\ WF_vars(BackoffEnds)
    /\ WF_vars(RegistryReturns)

FairSpec == Spec /\ Fairness

-----------------------------------------------------------------------------
(* Properties *)

(* Every variable has its type, and isApplyingState is set exactly while steps  *)
(* of a plan are left.  The code keeps it set until the snapshot is saved and   *)
(* the logs are attached, which only delays the next apply.                     *)
TypeOK ==
    /\ docker \in [Services -> [id : Nat, image : Images \cup {NoImage}, status : DockerStates]]
    /\ images \subseteq Images
    /\ registry \in BOOLEAN
    /\ target \in [Services -> Wanted \cup {Absent}]
    /\ current \in [Services -> Seq(Entries)]
    /\ watched \in [Services -> SUBSET Nat]
    /\ heal \in [Services -> [pc : {"idle", "stop", "remove", "find", "missing", "found",
                                    "created", "started"},
                              id : Nat, service : Entries \cup {NoEntry}, shared : BOOLEAN]]
    /\ steps \in Seq([action : {"downloadImage", "startContainer", "stopContainer",
                                "pauseContainer", "unpauseContainer",
                                "startStoppedContainer", "removeContainer"},
                      service : Services, id : Nat, want : Wanted \cup {Absent},
                      probed : BOOLEAN])
    /\ phase \in {"idle", "begin", "returned", "found", "missing", "created", "started",
                  "attaching"}
    /\ (phase = "idle") = (steps = <<>>)
    /\ retry \in [Images -> [count : 0 .. MaxRetries, next : {"now", "later", "never"}]]
    /\ events \in 0 .. MaxEvents

\* Is the service as the target wants it?  One that is not to run is never created.
Settled(s) ==
    CASE target[s] = Absent -> ~Exists(docker[s])
      [] target[s].state = "running" ->
            docker[s].status = "running" /\ docker[s].image = target[s].image
      [] target[s].state = "paused" ->
            Exists(docker[s]) =>
                docker[s].status = "paused" /\ docker[s].image = target[s].image
      [] target[s].state = "stopped" ->
            Exists(docker[s]) =>
                docker[s].status = "exited" /\ docker[s].image = target[s].image

PullsAllowed(s) == target[s] # Absent => ShouldRetry(target[s].image)

\* Is currentState what Docker would tell, probes aside?
UpToDate ==
    \A s \in Services :
        /\ Len(current[s]) = Len(Listing[s])
        /\ \A i \in DOMAIN current[s] : [current[s][i] EXCEPT !.probed = FALSE] = Listing[s][i]

NothingToDo == phase = "idle" /\ UpToDate /\ Plan(target) = <<>>

(* When the planner, looking at fresh information, finds nothing to do, every    *)
(* service is as the target wants it, unless its image may not be pulled now or  *)
(* its container was created and never started.                                  *)
NothingToDoMeansSettled ==
    NothingToDo =>
        \A s \in Services :
            Settled(s) \/ ~PullsAllowed(s) \/ docker[s].status = "created"

(* applyTargetState: "No changes needed - system is in desired state".           *)
DesiredStateReached ==
    NothingToDo => \A s \in Services : Settled(s) \/ ~PullsAllowed(s)

\* A container that was created and that nobody is about to start.
LeftCreated(s) ==
    docker[s].status = "created" /\ ~(phase = "created" /\ Svc = s) /\ ~Healing(s, "created")

\* Not to be had: the service is to be stopped, its image was given up for good,
\* or its container was left unstarted.
Excused(s) ==
    \/ target[s].state = "stopped"
    \/ target[s] # Absent /\ retry[target[s].image].next = "never"
    \/ LeftCreated(s)

(* The last target is carried out and stays carried out, whatever an apply that  *)
(* was planned for an earlier one, a container that exits, a pull that fails, a   *)
(* crash or a sync that lands late does on the way.                               *)
Settles == \A s \in Services : <>[](Settled(s) \/ Excused(s))

(* A service whose state is "stopped" has its container stopped, not running      *)
(* again and again.                                                               *)
StoppedStaysStopped ==
    \A s \in Services :
        <>[](target[s].state = "stopped") => <>[](docker[s].status # "running")
=============================================================================
