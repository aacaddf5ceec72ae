----------------------- MODULE ContainerManagerProofs -----------------------
(***************************************************************************)
(* Theorems about ContainerManager, for every number of services, every    *)
(* set of images and of targets and every bound.                           *)
(***************************************************************************)
EXTENDS ContainerManager, SequenceTheorems, FiniteSetTheorems, WellFoundedInduction, TLAPS

-----------------------------------------------------------------------------
(* Sequences laid end to end.  A plan is FlattenSeq of the services' steps.  *)
(* What it yields is shown by taking the least place where it might fail.    *)

LEMMA LeastNumber ==
    ASSUME NEW S, S \subseteq Nat, S # {}
    PROVE  \E m \in S : \A x \in S : m <= x
<1> DEFINE R == OpToRel(<, Nat)
<1>1. \A x \in Nat : \A y \in Nat : <<y, x>> \in R <=> y < x
    BY DEF OpToRel
<1>2. IsWellFoundedOn(R, Nat)
    BY NatLessThanWellFounded
<1> HIDE DEF R
<1>3. PICK m \in S : \A y \in S : ~(<<y, m>> \in R)
    BY <1>2, WFMin, Zenon
<1>4. ASSUME NEW y \in S PROVE m <= y
    <2>1. y \in Nat /\ m \in Nat
        OBVIOUS
    <2>2. ~(y < m)
        BY <1>1, <1>3, <2>1, Zenon
    <2> QED
        BY <2>1, <2>2
<1> QED
    BY <1>4

\* g[i] is the concatenation of the first i parts.
Joins(g, parts, n) ==
    \A i \in 1 .. n : g[i] = IF i = 1 THEN parts[i] ELSE g[i - 1] \o parts[i]

LEMMA JoinExists ==
    ASSUME NEW S, NEW n \in Nat \ {0}, NEW parts \in [1 .. n -> Seq(S)]
    PROVE  \E g \in [1 .. n -> Seq(S)] : Joins(g, parts, n)
<1> DEFINE Good(m) == \E g \in [1 .. m -> Seq(S)] : Joins(g, parts, m)
           Bad == {m \in 1 .. n : ~Good(m)}
<1>1. SUFFICES ASSUME Bad # {} PROVE FALSE
    <2>1. n \in 1 .. n
        OBVIOUS
    <2> QED
        BY <1>1, <2>1
<1>2. Bad \subseteq Nat
    OBVIOUS
<1> HIDE DEF Bad
<1>3. PICK m \in Bad : \A x \in Bad : m <= x
    BY <1>1, <1>2, LeastNumber
<1>4. m \in 1 .. n /\ ~Good(m)
    BY DEF Bad
<1>5. CASE m = 1
    <2> DEFINE g == [i \in 1 .. m |-> parts[i]]
    <2>1. g \in [1 .. m -> Seq(S)]
        BY <1>4, <1>5
    <2>2. Joins(g, parts, m)
        BY <1>4, <1>5 DEF Joins
    <2> HIDE DEF g
    <2> QED
        BY <1>4, <2>1, <2>2
<1>6. CASE m # 1
    <2>1. m - 1 \in 1 .. n /\ ~(m <= m - 1)
        BY <1>4, <1>6
    <2>2. Good(m - 1)
        <3>1. m - 1 \notin Bad
            BY <1>3, <2>1
        <3> HIDE DEF Good
        <3> QED
            BY <2>1, <3>1 DEF Bad
    <2>3. PICK h \in [1 .. m - 1 -> Seq(S)] : Joins(h, parts, m - 1)
        BY <2>2
    <2> DEFINE g == [i \in 1 .. m |-> IF i = m THEN h[m - 1] \o parts[m] ELSE h[i]]
    <2>4. h[m - 1] \in Seq(S) /\ parts[m] \in Seq(S)
        BY <1>4, <2>1
    <2>5. h[m - 1] \o parts[m] \in Seq(S)
        BY <2>4, ConcatProperties
    <2>6. g \in [1 .. m -> Seq(S)]
        BY <1>4, <2>1, <2>5
    <2>7. ASSUME NEW i \in 1 .. m
          PROVE  g[i] = IF i = 1 THEN parts[i] ELSE g[i - 1] \o parts[i]
        <3>1. CASE i = m
            <4>1. m - 1 \in 1 .. m /\ m - 1 # m
                BY <1>4, <1>6
            <4>2. g[m - 1] = h[m - 1]
                BY <4>1
            <4> QED
                BY <1>4, <1>6, <3>1, <4>2
        <3>2. CASE i # m
            <4>1. i \in 1 .. m - 1
                BY <1>4, <3>2
            <4>2. h[i] = IF i = 1 THEN parts[i] ELSE h[i - 1] \o parts[i]
                BY <2>3, <4>1 DEF Joins
            <4>3. i # 1 => g[i - 1] = h[i - 1]
                BY <1>4, <4>1
            <4>4. g[i] = h[i]
                BY <3>2
            <4> QED
                BY <4>2, <4>3, <4>4
        <3> QED
            BY <3>1, <3>2
    <2> HIDE DEF g
    <2>8. Joins(g, parts, m)
        BY <2>7 DEF Joins
    <2> QED
        BY <1>4, <2>6, <2>8
<1> QED
    BY <1>5, <1>6

LEMMA FlattenIsJoin ==
    ASSUME NEW S, NEW n \in Nat \ {0}, NEW parts \in [1 .. n -> Seq(S)]
    PROVE  \E g \in [1 .. n -> Seq(S)] : Joins(g, parts, n) /\ FlattenSeq(parts) = g[n]
<1>1. PICK g \in [1 .. n -> Seq(S)] : Joins(g, parts, n)
    BY JoinExists
<1> DEFINE Eq(f) == f = [i \in 1 .. n |-> IF i = 1 THEN parts[i] ELSE f[i - 1] \o parts[i]]
           flat == CHOOSE f : Eq(f)
<1>2. Eq(g)
    BY <1>1 DEF Joins
<1>3. Eq(flat)
    <2>1. \E f : Eq(f)
        BY <1>2
    <2> HIDE DEF Eq
    <2> QED
        BY <2>1, Zenon
<1>4. parts \in Seq(Seq(S)) /\ Len(parts) = n
    OBVIOUS
<1>5. FlattenSeq(parts) = flat[n]
    BY <1>4 DEF FlattenSeq
<1> HIDE DEF flat
<1> DEFINE Bad == {i \in 1 .. n : flat[i] # g[i]}
<1>6. Bad = {}
    <2>1. SUFFICES ASSUME Bad # {} PROVE FALSE
        OBVIOUS
    <2>2. Bad \subseteq Nat
        OBVIOUS
    <2> HIDE DEF Bad
    <2>3. PICK m \in Bad : \A x \in Bad : m <= x
        BY <2>1, <2>2, LeastNumber
    <2>4. m \in 1 .. n /\ flat[m] # g[m]
        BY DEF Bad
    <2>5. flat[m] = IF m = 1 THEN parts[m] ELSE flat[m - 1] \o parts[m]
        BY <1>3, <2>4
    <2>6. g[m] = IF m = 1 THEN parts[m] ELSE g[m - 1] \o parts[m]
        BY <1>1, <2>4 DEF Joins
    <2>7. m # 1
        BY <2>4, <2>5, <2>6
    <2>8. m - 1 \in 1 .. n /\ ~(m <= m - 1)
        BY <2>4, <2>7
    <2>9. flat[m - 1] = g[m - 1]
        BY <2>3, <2>8 DEF Bad
    <2> QED
        BY <2>4, <2>5, <2>6, <2>7, <2>9
<1>7. flat[n] = g[n]
    <2>1. n \in 1 .. n
        OBVIOUS
    <2> QED
        BY <1>6, <2>1
<1> QED
    BY <1>1, <1>5, <1>7

LEMMA FlattenType ==
    ASSUME NEW S, NEW n \in Nat, NEW parts \in [1 .. n -> Seq(S)]
    PROVE  FlattenSeq(parts) \in Seq(S)
<1>1. CASE n = 0
    <2>1. parts = <<>>
        BY <1>1
    <2>2. FlattenSeq(parts) = <<>>
        BY <2>1 DEF FlattenSeq
    <2> QED
        BY <2>2
<1>2. CASE n # 0
    <2>1. PICK g \in [1 .. n -> Seq(S)] : FlattenSeq(parts) = g[n]
        BY <1>2, FlattenIsJoin
    <2> QED
        BY <1>2, <2>1
<1> QED
    BY <1>1, <1>2

\* Nothing comes of the parts only if there is nothing in any of them.
LEMMA FlattenEmpty ==
    ASSUME NEW S, NEW n \in Nat \ {0}, NEW parts \in [1 .. n -> Seq(S)],
           FlattenSeq(parts) = <<>>, NEW m \in 1 .. n
    PROVE  parts[m] = <<>>
<1>1. PICK g \in [1 .. n -> Seq(S)] : Joins(g, parts, n) /\ FlattenSeq(parts) = g[n]
    BY FlattenIsJoin
<1> DEFINE Nothing == {j \in m .. n : g[j] = <<>>}
<1>2. n \in Nothing
    BY <1>1
<1>3. Nothing \subseteq Nat
    OBVIOUS
<1> HIDE DEF Nothing
<1>4. PICK e \in Nothing : \A x \in Nothing : e <= x
    BY <1>2, <1>3, LeastNumber
<1>5. e \in m .. n /\ g[e] = <<>>
    BY DEF Nothing
<1>6. e \in 1 .. n
    BY <1>5
<1>7. CASE e = 1
    <2>1. g[e] = parts[e] /\ m = e
        BY <1>1, <1>5, <1>6, <1>7 DEF Joins
    <2> QED
        BY <1>5, <2>1
<1>8. CASE e # 1
    <2>1. e - 1 \in 1 .. n /\ ~(e <= e - 1)
        BY <1>6, <1>8
    <2>2. g[e] = g[e - 1] \o parts[e]
        BY <1>1, <1>6, <1>8 DEF Joins
    <2>3. g[e - 1] \in Seq(S) /\ parts[e] \in Seq(S)
        BY <1>6, <2>1
    <2>4. g[e - 1] = <<>> /\ parts[e] = <<>>
        <3> DEFINE before == g[e - 1]
                   part == parts[e]
        <3>1. before \in Seq(S) /\ part \in Seq(S) /\ before \o part = <<>>
            BY <1>5, <2>2, <2>3
        <3> HIDE DEF before, part
        <3>2. before = <<>> /\ part = <<>>
            BY <3>1, ConcatEqualIffEmpty
        <3> QED
            BY <3>2 DEF before, part
    <2>5. e - 1 \notin Nothing
        BY <1>4, <2>1
    <2>6. ~(e - 1 \in m .. n)
        BY <2>4, <2>5 DEF Nothing
    <2>7. e = m
        BY <1>5, <1>6, <2>1, <2>6
    <2> QED
        BY <2>4, <2>7
<1> QED
    BY <1>7, <1>8
-----------------------------------------------------------------------------
(* The inductive invariant.  TypeOK does not say enough of the steps: one    *)
(* that is to pull or to start has a service to do it for, the step that has *)
(* come to start a container is one that starts, and what a restart of an    *)
(* unhealthy container has picked is a service.  Nor does it say that a      *)
(* container has an image, that a key may only be tried again while its      *)
(* count is below the maximum, and that there are ids nobody refers to.      *)

Phases == {"idle", "begin", "returned", "found", "missing", "created", "started", "attaching"}
Starting == {"found", "missing", "created", "started", "attaching"}
ContainerActions ==
    {"stopContainer", "pauseContainer", "unpauseContainer", "startStoppedContainer",
     "removeContainer"}
ContainerSteps ==
    [action : ContainerActions, service : Services, id : Nat, want : Wanted \cup {Absent},
     probed : BOOLEAN]
InstallSteps ==
    [action : {"downloadImage", "startContainer"}, service : Services, id : Nat, want : Wanted,
     probed : BOOLEAN]
StepSet == ContainerSteps \cup InstallSteps

PlanInv ==
    /\ steps \in Seq(StepSet)
    /\ phase \in Phases
    /\ (phase = "idle") = (steps = <<>>)
    /\ phase \in Starting => Step.action = "startContainer"
    /\ phase = "returned" /\ Step.action = "startStoppedContainer" => Step.want \in Wanted

Containers == [id : Nat, image : Images \cup {NoImage}, status : DockerStates]

DockerInv ==
    /\ docker \in [Services -> Containers]
    /\ \A s \in Services : Exists(docker[s]) => docker[s].image \in Images

CurrentInv ==
    /\ current \in [Services -> Seq(Entries)]
    /\ sync = NoListing \/ sync \in [Services -> Seq(Entries)]

WatchInv == watched \in [Services -> SUBSET Nat] /\ \A s \in Services : IsFiniteSet(watched[s])

HealPcs == {"idle", "stop", "remove", "find", "missing", "found", "created", "started"}
Heals == [pc : HealPcs, id : Nat, service : Entries \cup {NoEntry}, shared : BOOLEAN]

HealInv ==
    /\ heal \in [Services -> Heals]
    /\ \A s \in Services : heal[s].pc # "idle" \/ heal[s].shared => heal[s].service \in Entries

Retries == [count : 0 .. MaxRetries, next : {"now", "later", "never"}]

RetryInv ==
    /\ retry \in [Images -> Retries]
    /\ \A image \in Images : retry[image].next # "never" => retry[image].count < MaxRetries

RestInv ==
    /\ images \subseteq Images
    /\ registry \in BOOLEAN
    /\ target \in [Services -> Wanted \cup {Absent}]
    /\ events \in 0 .. MaxEvents

IInv == PlanInv /\ DockerInv /\ CurrentInv /\ WatchInv /\ HealInv /\ RetryInv /\ RestInv

LEMMA TypeFromInvariant == IInv => TypeOK
<1>1. PlanInv => steps \in Seq([action : {"downloadImage", "startContainer", "stopContainer",
                                "pauseContainer", "unpauseContainer",
                                "startStoppedContainer", "removeContainer"},
                      service : Services, id : Nat, want : Wanted \cup {Absent},
                      probed : BOOLEAN])
    <2> DEFINE All == [action : {"downloadImage", "startContainer", "stopContainer",
                                "pauseContainer", "unpauseContainer",
                                "startStoppedContainer", "removeContainer"},
                      service : Services, id : Nat, want : Wanted \cup {Absent},
                      probed : BOOLEAN]
    <2>1. StepSet \subseteq All
        BY DEF StepSet, ContainerSteps, InstallSteps, ContainerActions
    <2> HIDE DEF All
    <2>2. PlanInv => steps \in Seq(All)
        BY <2>1, SeqMonotonic DEF PlanInv
    <2> QED
        BY <2>2 DEF All
<1> QED
    BY <1>1 DEF IInv, TypeOK, PlanInv, DockerInv, CurrentInv, WatchInv, HealInv, RetryInv,
                RestInv, Phases, Containers, Heals, HealPcs, Retries

-----------------------------------------------------------------------------
(* The planner *)

LEMMA ServicesOf == Services \subseteq Nat /\ NumServices \in Nat \ {0} /\ Services = 1 .. NumServices
BY ServicesAssumption DEF Services

LEMMA OnContainerType ==
    ASSUME NEW a \in ContainerActions, NEW s \in Services, NEW id \in Nat
    PROVE  OnContainer(a, s, id) \in StepSet
BY DEF OnContainer, StepSet, ContainerSteps

LEMMA ForServiceType ==
    ASSUME NEW a \in {"downloadImage", "startContainer"}, NEW s \in Services, NEW want \in Wanted
    PROVE  ForService(a, s, want) \in StepSet
BY DEF ForService, StepSet, InstallSteps

LEMMA TakeDownType ==
    ASSUME NEW s \in Services, NEW id \in Nat
    PROVE  TakeDown(s, id) \in Seq(StepSet) /\ TakeDown(s, id) # <<>>
<1>1. OnContainer("stopContainer", s, id) \in StepSet
    BY OnContainerType DEF ContainerActions
<1>2. OnContainer("removeContainer", s, id) \in StepSet
    BY OnContainerType DEF ContainerActions
<1> QED
    BY <1>1, <1>2 DEF TakeDown

LEMMA InstallType ==
    ASSUME NEW s \in Services, NEW want \in Wanted
    PROVE  Install(s, want) \in Seq(StepSet) /\ Install(s, want) # <<>>
<1>1. ForService("downloadImage", s, want) \in StepSet
    BY ForServiceType
<1>2. ForService("startContainer", s, want) \in StepSet
    BY ForServiceType
<1> QED
    BY <1>1, <1>2 DEF Install

LEMMA RemoveStepsType ==
    ASSUME CurrentInv, NEW s \in Services
    PROVE  /\ RemoveSteps(s) \in Seq(StepSet)
           /\ RemoveSteps(s) = <<>> => current[s] = <<>>
<1> DEFINE n == Len(current[s])
           parts == [i \in DOMAIN current[s] |-> TakeDown(s, current[s][i].id)]
<1>1. current[s] \in Seq(Entries) /\ n \in Nat /\ DOMAIN current[s] = 1 .. n
    BY DEF CurrentInv
<1>2. ASSUME NEW i \in 1 .. n
      PROVE  TakeDown(s, current[s][i].id) \in Seq(StepSet) /\ TakeDown(s, current[s][i].id) # <<>>
    <2>1. current[s][i] \in Entries
        BY <1>1
    <2>2. current[s][i].id \in Nat
        BY <2>1 DEF Entries
    <2> HIDE DEF n, parts
    <2> QED
        BY <2>2, TakeDownType
<1>3. parts \in [1 .. n -> Seq(StepSet)]
    BY <1>1, <1>2
<1>4. RemoveSteps(s) = FlattenSeq(parts)
    BY DEF RemoveSteps
<1>5. \A i \in 1 .. n : parts[i] # <<>>
    BY <1>1, <1>2
<1>6. n = 0 => current[s] = <<>>
    BY <1>1
<1> HIDE DEF n, parts
<1>7. FlattenSeq(parts) \in Seq(StepSet)
    BY <1>1, <1>3, FlattenType
<1>8. FlattenSeq(parts) = <<>> => n = 0
    <2>1. SUFFICES ASSUME FlattenSeq(parts) = <<>>, n # 0 PROVE FALSE
        OBVIOUS
    <2>2. n \in Nat \ {0} /\ n \in 1 .. n
        BY <1>1, <2>1
    <2>3. parts[n] = <<>>
        BY <1>3, <2>1, <2>2, FlattenEmpty
    <2> QED
        BY <1>5, <2>2, <2>3
<1> QED
    BY <1>4, <1>6, <1>7, <1>8

LEMMA TransitionType ==
    ASSUME NEW s \in Services, NEW entry \in Entries, NEW want \in Wanted,
           entry.state # want.state
    PROVE  /\ TransitionSteps(s, entry, want) \in Seq(StepSet)
           /\ TransitionSteps(s, entry, want) # <<>>
<1>1. entry.id \in Nat /\ entry.state \in ServiceStates /\ want.state \in ServiceStates
    BY DEF Entries, Wanted
<1> DEFINE step(a) == OnContainer(a, s, entry.id)
<1>2. \A a \in ContainerActions : step(a) \in StepSet
    BY <1>1, OnContainerType
<1>3. \A a \in ContainerActions : <<step(a)>> \in Seq(StepSet) /\ <<step(a)>> # <<>>
    BY <1>2
<1>4. \A a, b \in ContainerActions : <<step(a), step(b)>> \in Seq(StepSet) /\ <<step(a), step(b)>> # <<>>
    BY <1>2
<1>5. \/ entry.state = "running" /\ want.state = "stopped"
      \/ entry.state = "running" /\ want.state = "paused"
      \/ entry.state = "stopped" /\ want.state = "running"
      \/ entry.state = "paused"  /\ want.state = "running"
      \/ entry.state = "paused"  /\ want.state = "stopped"
      \/ entry.state = "stopped" /\ want.state = "paused"
    BY <1>1 DEF ServiceStates
<1>6. \/ TransitionSteps(s, entry, want) = <<step("stopContainer")>>
      \/ TransitionSteps(s, entry, want) = <<step("pauseContainer")>>
      \/ TransitionSteps(s, entry, want) = <<step("startStoppedContainer")>>
      \/ TransitionSteps(s, entry, want) = <<step("unpauseContainer")>>
      \/ TransitionSteps(s, entry, want) = <<step("unpauseContainer"), step("stopContainer")>>
      \/ TransitionSteps(s, entry, want) = <<step("startStoppedContainer"), step("pauseContainer")>>
    BY <1>5 DEF TransitionSteps
<1> HIDE DEF step
<1>7. {"stopContainer", "pauseContainer", "startStoppedContainer", "unpauseContainer"}
        \subseteq ContainerActions
    BY DEF ContainerActions
<1> QED
    BY <1>3, <1>4, <1>6, <1>7

LEMMA RecreateType ==
    ASSUME NEW s \in Services, NEW entry \in Entries, NEW want \in Wanted
    PROVE  /\ RecreateSteps(s, entry, want) \in Seq(StepSet)
           /\ RecreateSteps(s, entry, want) = <<>> =>
                 entry.image = want.image /\ entry.status # "exited"
<1> DEFINE down == TakeDown(s, entry.id)
           pull == <<ForService("downloadImage", s, want)>>
           start == <<ForService("startContainer", s, want)>>
<1>1. entry.id \in Nat
    BY DEF Entries
<1>2. down \in Seq(StepSet) /\ down # <<>>
    BY <1>1, TakeDownType
<1>3. pull \in Seq(StepSet) /\ start \in Seq(StepSet) /\ pull # <<>>
    <2>1. ForService("downloadImage", s, want) \in StepSet
        BY ForServiceType
    <2>2. ForService("startContainer", s, want) \in StepSet
        BY ForServiceType
    <2> QED
        BY <2>1, <2>2
<1>4. RecreateSteps(s, entry, want) =
        IF entry.image # want.image THEN pull \o down \o start
        ELSE IF entry.status = "exited" THEN down \o start ELSE <<>>
    BY DEF RecreateSteps
<1> HIDE DEF down, pull, start
<1>5. pull \o down \in Seq(StepSet) /\ pull \o down # <<>>
    BY <1>2, <1>3, ConcatProperties, ConcatEqualIffEmpty
<1>6. pull \o down \o start \in Seq(StepSet) /\ pull \o down \o start # <<>>
    <2> DEFINE first == pull \o down
    <2>1. first \in Seq(StepSet) /\ first # <<>>
        BY <1>5
    <2> HIDE DEF first
    <2>2. first \o start \in Seq(StepSet) /\ first \o start # <<>>
        BY <1>3, <2>1, ConcatProperties, ConcatEqualIffEmpty
    <2> QED
        BY <2>2 DEF first
<1>7. down \o start \in Seq(StepSet) /\ down \o start # <<>>
    BY <1>2, <1>3, ConcatProperties, ConcatEqualIffEmpty
<1> QED
    BY <1>4, <1>6, <1>7, EmptySeq

LEMMA LastEntry ==
    ASSUME CurrentInv, NEW s \in Services, current[s] # <<>>
    PROVE  Last(current[s]) \in Entries
<1>1. current[s] \in Seq(Entries)
    BY DEF CurrentInv
<1>2. Len(current[s]) \in 1 .. Len(current[s])
    BY <1>1
<1> QED
    BY <1>1, <1>2 DEF Last

LEMMA UpdateStepsType ==
    ASSUME CurrentInv, NEW s \in Services, NEW want \in [Services -> Wanted \cup {Absent}]
    PROVE  UpdateSteps(s, want) \in Seq(StepSet)
<1> DEFINE entry == Last(current[s])
<1>0. want[s] \in Wanted \cup {Absent}
    OBVIOUS
<1>1. CASE current[s] = <<>>
    <2>1. CASE want[s].state = "running" /\ ShouldRetry(want[s].image)
        <3>1. want[s] \in Wanted
            BY <1>0, <2>1 DEF Absent
        <3> QED
            BY <1>1, <2>1, <3>1, InstallType DEF UpdateSteps
    <2>2. CASE ~(want[s].state = "running" /\ ShouldRetry(want[s].image))
        BY <1>1, <2>2, EmptySeq DEF UpdateSteps
    <2> QED
        BY <2>1, <2>2
<1>2. CASE current[s] # <<>>
    <2>1. entry \in Entries
        BY <1>2, LastEntry
    <2>2. UpdateSteps(s, want) =
            IF want[s] = Absent THEN TakeDown(s, entry.id)
            ELSE IF entry.state # want[s].state THEN TransitionSteps(s, entry, want[s])
            ELSE RecreateSteps(s, entry, want[s])
        BY <1>2 DEF UpdateSteps
    <2> HIDE DEF entry
    <2>3. entry.id \in Nat
        BY <2>1 DEF Entries
    <2>4. TakeDown(s, entry.id) \in Seq(StepSet)
        BY <2>3, TakeDownType
    <2>5. want[s] # Absent => RecreateSteps(s, entry, want[s]) \in Seq(StepSet)
        BY <1>0, <2>1, RecreateType
    <2>6. want[s] # Absent /\ entry.state # want[s].state =>
            TransitionSteps(s, entry, want[s]) \in Seq(StepSet)
        BY <1>0, <2>1, TransitionType
    <2> QED
        BY <2>2, <2>4, <2>5, <2>6
<1> QED
    BY <1>1, <1>2

LEMMA AddStepsType ==
    ASSUME NEW s \in Services, NEW want \in [Services -> Wanted \cup {Absent}]
    PROVE  AddSteps(s, want) \in Seq(StepSet)
<1>1. CASE want[s].state = "running"
    <2>1. want[s] \in Wanted
        BY <1>1 DEF Absent
    <2> QED
        BY <1>1, <2>1, InstallType DEF AddSteps
<1>2. CASE want[s].state # "running"
    BY <1>2, EmptySeq DEF AddSteps
<1> QED
    BY <1>1, <1>2

\* What the planner finds to do about each service.
InCurrent == \E s \in Services : current[s] # <<>>
InTarget(want) == \E s \in Services : want[s] # Absent
Part(s, want) ==
    CASE InCurrent /\ ~InTarget(want) -> RemoveSteps(s)
      [] ~InCurrent /\ InTarget(want) -> AddSteps(s, want)
      [] InCurrent /\ InTarget(want)  -> UpdateSteps(s, want)
      [] OTHER -> <<>>

LEMMA PartCases ==
    ASSUME NEW s, NEW want
    PROVE  /\ InCurrent /\ ~InTarget(want) => Part(s, want) = RemoveSteps(s)
           /\ ~InCurrent /\ InTarget(want) => Part(s, want) = AddSteps(s, want)
           /\ InCurrent /\ InTarget(want)  => Part(s, want) = UpdateSteps(s, want)
           /\ ~InCurrent /\ ~InTarget(want) => Part(s, want) = <<>>
<1> HIDE DEF InCurrent, InTarget
<1>1. CASE InCurrent /\ ~InTarget(want)
    BY <1>1 DEF Part
<1>2. CASE ~InCurrent /\ InTarget(want)
    BY <1>2 DEF Part
<1>3. CASE InCurrent /\ InTarget(want)
    BY <1>3 DEF Part
<1>4. CASE ~InCurrent /\ ~InTarget(want)
    BY <1>4 DEF Part
<1> QED
    BY <1>1, <1>2, <1>3, <1>4

\* A plan is made of known steps, and is empty only if there is nothing to do about
\* any service.
LEMMA PlanType ==
    ASSUME CurrentInv, NEW want \in [Services -> Wanted \cup {Absent}]
    PROVE  /\ Plan(want) \in Seq(StepSet)
           /\ Plan(want) = <<>> => \A s \in Services : Part(s, want) = <<>>
<1> DEFINE parts == [s \in Services |-> Part(s, want)]
<1>1. ASSUME NEW s \in Services
      PROVE  Part(s, want) \in Seq(StepSet)
    <2>1. RemoveSteps(s) \in Seq(StepSet)
        BY RemoveStepsType
    <2>2. AddSteps(s, want) \in Seq(StepSet)
        BY AddStepsType
    <2>3. UpdateSteps(s, want) \in Seq(StepSet)
        BY UpdateStepsType
    <2>4. <<>> \in Seq(StepSet)
        BY EmptySeq
    <2> QED
        BY <2>1, <2>2, <2>3, <2>4, PartCases, Zenon
<1>2. parts \in [1 .. NumServices -> Seq(StepSet)]
    BY <1>1, ServicesOf
<1>3. Plan(want) = FlattenSeq(parts)
    BY DEF Plan, Part, InCurrent, InTarget
<1>4. \A s \in Services : parts[s] = Part(s, want)
    OBVIOUS
<1> HIDE DEF parts
<1>5. FlattenSeq(parts) \in Seq(StepSet)
    BY <1>2, ServicesOf, FlattenType
<1>6. FlattenSeq(parts) = <<>> => \A s \in Services : parts[s] = <<>>
    BY <1>2, ServicesOf, FlattenEmpty
<1> QED
    BY <1>3, <1>4, <1>5, <1>6

LEMMA BeginApplyKeeps ==
    ASSUME CurrentInv, NEW want \in [Services -> Wanted \cup {Absent}], BeginApply(want)
    PROVE  PlanInv'
<1>1. Plan(want) \in Seq(StepSet)
    BY PlanType
<1>2. steps' \in Seq(StepSet) /\ phase' = IF steps' = <<>> THEN "idle" ELSE "begin"
    BY <1>1 DEF BeginApply
<1> QED
    BY <1>2 DEF PlanInv, Phases, Starting, Step
-----------------------------------------------------------------------------
(* The plan being worked off *)

LEMMA StepInProgress ==
    ASSUME PlanInv, phase # "idle"
    PROVE  /\ steps # <<>> /\ steps \in Seq(StepSet)
           /\ Step \in StepSet /\ Svc \in Services /\ Step.id \in Nat
           /\ Step.probed \in BOOLEAN /\ Step.want \in Wanted \cup {Absent}
<1>1. steps # <<>> /\ steps \in Seq(StepSet)
    BY DEF PlanInv
<1>2. Step \in StepSet
    BY <1>1 DEF Step
<1> QED
    BY <1>1, <1>2 DEF Svc, StepSet, ContainerSteps, InstallSteps

\* A step that pulls or starts has a service to do it for.
LEMMA StepWants ==
    ASSUME PlanInv, phase # "idle", Step.action \in {"downloadImage", "startContainer"}
    PROVE  Step.want \in Wanted /\ Step.want.image \in Images /\ Step.want.state \in ServiceStates
<1>1. Step \in StepSet
    BY StepInProgress
<1>2. Step.want \in Wanted
    BY <1>1 DEF StepSet, ContainerSteps, InstallSteps, ContainerActions
<1> QED
    BY <1>2 DEF Wanted

LEMMA NextStepKeeps ==
    ASSUME PlanInv, phase # "idle", NextStep
    PROVE  PlanInv'
<1>1. steps # <<>> /\ steps \in Seq(StepSet)
    BY StepInProgress
<1>2. steps' \in Seq(StepSet) /\ Len(steps') = Len(steps) - 1
    BY <1>1 DEF NextStep
<1>3. Len(steps) \in Nat /\ (steps' = <<>> <=> Len(steps) = 1)
    BY <1>1, <1>2
<1>4. phase' = IF steps' = <<>> THEN "idle" ELSE "begin"
    BY <1>3 DEF NextStep
<1> QED
    BY <1>2, <1>4 DEF PlanInv, Phases, Starting

LEMMA ReturnsKeeps ==
    ASSUME PlanInv, phase # "idle", Returns, Step.action # "startStoppedContainer"
    PROVE  PlanInv'
<1>1. steps' = steps /\ phase' = "returned" /\ steps # <<>> /\ steps \in Seq(StepSet)
    BY StepInProgress DEF Returns
<1>2. Step' = Step
    BY <1>1 DEF Step
<1> QED
    BY <1>1, <1>2 DEF PlanInv, Phases, Starting

\* The step in progress is changed, or only its place.
LEMMA ChangeStepKeeps ==
    ASSUME PlanInv, phase # "idle", NEW x \in StepSet, steps' = <<x>> \o Tail(steps),
           phase' \in Phases \ {"idle"},
           phase' \in Starting => x.action = "startContainer",
           phase' = "returned" /\ x.action = "startStoppedContainer" => x.want \in Wanted
    PROVE  PlanInv'
<1>1. steps # <<>> /\ steps \in Seq(StepSet)
    BY StepInProgress
<1>2. <<x>> \in Seq(StepSet) /\ Tail(steps) \in Seq(StepSet)
    BY <1>1
<1>3. steps' \in Seq(StepSet) /\ Len(steps') = 1 + Len(Tail(steps)) /\ steps'[1] = x
    BY <1>2
<1>4. steps' # <<>> /\ Step' = x
    BY <1>2, <1>3 DEF Step
<1> QED
    BY <1>3, <1>4 DEF PlanInv

LEMMA SamePlan == PlanInv /\ UNCHANGED <<steps, phase>> => PlanInv'
BY DEF PlanInv, Step

-----------------------------------------------------------------------------
(* Docker *)

LEMMA ContainerOf ==
    ASSUME DockerInv, NEW s \in Services
    PROVE  /\ docker[s] \in Containers /\ docker[s].id \in Nat /\ docker[s].status \in DockerStates
           /\ docker[s].image \in Images \cup {NoImage}
           /\ Exists(docker[s]) => docker[s].image \in Images
BY DEF DockerInv, Containers

\* One container is replaced.
LEMMA DockerChanges ==
    ASSUME DockerInv, NEW s \in Services, NEW c \in Containers,
           Exists(c) => c.image \in Images, docker' = [docker EXCEPT ![s] = c]
    PROVE  DockerInv'
BY DEF DockerInv, Exists

LEMMA ToStatusKeeps ==
    ASSUME DockerInv, NEW s \in Services, NEW status \in DockerStates, Exists(docker[s]),
           ToStatus(s, status)
    PROVE  DockerInv'
<1> DEFINE c == [docker[s] EXCEPT !.status = status]
<1>1. docker[s] \in Containers /\ docker[s].image \in Images
    BY ContainerOf
<1>2. c \in Containers /\ c.image \in Images
    BY <1>1 DEF Containers
<1>3. docker' = [docker EXCEPT ![s] = c]
    BY DEF ToStatus
<1> HIDE DEF c
<1> QED
    BY <1>2, <1>3, DockerChanges

LEMMA StopByIdKeeps ==
    ASSUME DockerInv, NEW s \in Services, StopById(s)
    PROVE  DockerInv'
<1>1. CASE docker[s].status \in {"running", "paused"}
    <2>1. ToStatus(s, "exited") /\ Exists(docker[s])
        BY <1>1 DEF StopById, Exists
    <2>2. "exited" \in DockerStates
        BY DEF DockerStates
    <2> QED
        BY <2>1, <2>2, ToStatusKeeps
<1>2. CASE ~(docker[s].status \in {"running", "paused"})
    BY <1>2 DEF StopById, DockerInv
<1> QED
    BY <1>1, <1>2

LEMMA RemoveByIdKeeps ==
    ASSUME DockerInv, NEW s \in Services, NEW id, RemoveById(s, id)
    PROVE  DockerInv'
<1>1. CASE Present(s, id)
    <2>1. docker' = [docker EXCEPT ![s] = NoContainer]
        BY <1>1 DEF RemoveById
    <2>2. NoContainer \in Containers /\ ~Exists(NoContainer)
        BY DEF NoContainer, Containers, DockerStates, Exists
    <2> QED
        BY <2>1, <2>2, DockerChanges
<1>2. CASE ~Present(s, id)
    BY <1>2 DEF RemoveById, DockerInv
<1> QED
    BY <1>1, <1>2

LEMMA SameDocker == DockerInv /\ UNCHANGED docker => DockerInv'
BY DEF DockerInv

LEMMA AfterFindPhase ==
    ASSUME NEW s
    PROVE  AfterFind(s) \in {"started", "found", "missing"}
<1>1. CASE docker[s].status \in {"running", "paused"}
    BY <1>1 DEF AfterFind
<1>2. CASE docker[s].status \in {"exited", "created"}
    BY <1>2 DEF AfterFind
<1>3. CASE ~(docker[s].status \in {"running", "paused", "exited", "created"})
    BY <1>3 DEF AfterFind
<1> QED
    BY <1>1, <1>2, <1>3

LEMMA StateOfType ==
    ASSUME NEW status \in DockerStates
    PROVE  /\ StateOf(status) \in ServiceStates
           /\ StateOf(status) = "stopped" <=> status = "exited"
           /\ StateOf(status) = "paused" <=> status = "paused"
<1>1. CASE status = "paused"
    BY <1>1 DEF StateOf, ServiceStates
<1>2. CASE status = "exited"
    BY <1>2 DEF StateOf, ServiceStates
<1>3. CASE status # "paused" /\ status # "exited"
    BY <1>3 DEF StateOf, ServiceStates
<1> QED
    BY <1>1, <1>2, <1>3

LEMMA ListingType ==
    ASSUME DockerInv
    PROVE  Listing \in [Services -> Seq(Entries)]
<1>1. ASSUME NEW s \in Services
      PROVE  (IF Exists(docker[s]) THEN <<EntryOf(docker[s])>> ELSE <<>>) \in Seq(Entries)
    <2>1. CASE Exists(docker[s])
        <3>1. EntryOf(docker[s]) \in Entries
            BY <2>1, ContainerOf, StateOfType DEF EntryOf, Entries
        <3> QED
            BY <2>1, <3>1
    <2>2. CASE ~Exists(docker[s])
        BY <2>2, EmptySeq
    <2> QED
        BY <2>1, <2>2
<1> QED
    BY <1>1 DEF Listing

\* There is always an id that nothing refers to: the references are finitely many.
LEMMA IdsFinite ==
    ASSUME NEW X, NEW q \in Seq(X), NEW J \in SUBSET DOMAIN q
    PROVE  IsFiniteSet({q[i].id : i \in J})
<1> DEFINE T == {q[i].id : i \in J}
           f == [i \in J |-> q[i].id]
<1>1. Len(q) \in Int /\ DOMAIN q = 1 .. Len(q) /\ 1 \in Int
    OBVIOUS
<1>2. IsFiniteSet(DOMAIN q)
    BY <1>1, FS_Interval
<1>3. IsFiniteSet(J)
    BY <1>2, FS_Subset
<1>4. f \in Surjection(J, T)
    BY DEF Surjection
<1> HIDE DEF T, f
<1>5. IsFiniteSet(T)
    BY <1>3, <1>4, FS_Surjection
<1> QED
    BY <1>5 DEF T

LEMMA FreeNumber ==
    ASSUME NEW R, IsFiniteSet(R)
    PROVE  \E n \in 1 .. Cardinality(R) + 1 : n \notin R
<1> DEFINE k == Cardinality(R) + 1
<1>1. Cardinality(R) \in Nat
    BY FS_CardinalityType
<1>2. SUFFICES ASSUME 1 .. k \subseteq R PROVE FALSE
    OBVIOUS
<1>3. 1 \in Int /\ k \in Int /\ ~(1 > k) /\ k - 1 + 1 = k
    BY <1>1
<1>4. Cardinality(1 .. k) = k
    <2> HIDE DEF k
    <2>1. Cardinality(1 .. k) = IF 1 > k THEN 0 ELSE k - 1 + 1
        BY <1>3, FS_Interval
    <2> QED
        BY <1>3, <2>1
<1>5. Cardinality(1 .. k) <= Cardinality(R)
    <2> DEFINE I == 1 .. k
    <2>1. I \in SUBSET R
        BY <1>2
    <2> HIDE DEF I, k
    <2>2. Cardinality(I) <= Cardinality(R)
        BY <2>1, FS_Subset
    <2> QED
        BY <2>2 DEF I
<1> QED
    BY <1>1, <1>4, <1>5

LEMMA ReferencedFinite ==
    ASSUME PlanInv, CurrentInv, WatchInv, NEW s \in Services
    PROVE  IsFiniteSet(Referenced(s))
<1> DEFINE A == {docker[s].id}
           B == {current[s][i].id : i \in DOMAIN current[s]}
           C == {steps[i].id : i \in {j \in DOMAIN steps : steps[j].service = s}}
           D == IF sync = NoListing THEN {} ELSE {sync[s][i].id : i \in DOMAIN sync[s]}
           E == watched[s]
           F == {heal[s].id, heal[s].service.id}
<1>1. IsFiniteSet(A)
    BY FS_Singleton
<1>2. IsFiniteSet(B)
    <2> DEFINE q == current[s]
               J == DOMAIN q
    <2>1. q \in Seq(Entries) /\ J \in SUBSET DOMAIN q
        BY DEF CurrentInv
    <2> HIDE DEF q, J
    <2>2. IsFiniteSet({q[i].id : i \in J})
        BY <2>1, IdsFinite
    <2> QED
        BY <2>2 DEF q, J
<1>3. IsFiniteSet(C)
    <2> DEFINE J == {j \in DOMAIN steps : steps[j].service = s}
    <2>1. steps \in Seq(StepSet) /\ J \in SUBSET DOMAIN steps
        BY DEF PlanInv
    <2> HIDE DEF J
    <2>2. IsFiniteSet({steps[i].id : i \in J})
        BY <2>1, IdsFinite
    <2> QED
        BY <2>2 DEF J
<1>4. IsFiniteSet(D)
    <2>1. CASE sync = NoListing
        BY <2>1, FS_EmptySet
    <2>2. CASE sync # NoListing
        <3> DEFINE q == sync[s]
                   J == DOMAIN q
        <3>1. q \in Seq(Entries) /\ J \in SUBSET DOMAIN q
            BY <2>2 DEF CurrentInv
        <3> HIDE DEF q, J
        <3>2. IsFiniteSet({q[i].id : i \in J})
            BY <3>1, IdsFinite
        <3> QED
            BY <2>2, <3>2 DEF q, J
    <2> QED
        BY <2>1, <2>2
<1>5. IsFiniteSet(E)
    BY DEF WatchInv
<1>6. IsFiniteSet(F)
    <2> DEFINE x == heal[s].id
               y == heal[s].service.id
               X == {x}
    <2>1. IsFiniteSet(X)
        BY FS_Singleton
    <2> HIDE DEF x, y, X
    <2>2. IsFiniteSet(X \cup {y})
        BY <2>1, FS_AddElement
    <2>3. X \cup {y} = {x, y}
        BY DEF X
    <2> QED
        BY <2>2, <2>3 DEF x, y
<1>7. Referenced(s) = A \cup B \cup C \cup D \cup E \cup F
    BY DEF Referenced
<1> HIDE DEF A, B, C, D, E, F
<1>8. IsFiniteSet(A \cup B)
    BY <1>1, <1>2, FS_Union
<1>9. IsFiniteSet(A \cup B \cup C)
    BY <1>3, <1>8, FS_Union
<1>10. IsFiniteSet(A \cup B \cup C \cup D)
    BY <1>4, <1>9, FS_Union
<1>11. IsFiniteSet(A \cup B \cup C \cup D \cup E)
    BY <1>5, <1>10, FS_Union
<1>12. IsFiniteSet(A \cup B \cup C \cup D \cup E \cup F)
    BY <1>6, <1>11, FS_Union
<1> QED
    BY <1>7, <1>12

LEMMA NewIdType ==
    ASSUME PlanInv, CurrentInv, WatchInv, NEW s \in Services
    PROVE  NewId(s) \in Nat
<1> DEFINE R == Referenced(s)
           I == 1 .. Cardinality(R) + 1
<1>1. IsFiniteSet(R)
    BY ReferencedFinite
<1>2. \E n \in I : n \notin R
    <2> HIDE DEF R
    <2> QED
        BY <1>1, FreeNumber
<1>3. NewId(s) = CHOOSE n \in I : n \notin R
    BY DEF NewId
<1>4. I \subseteq Nat
    <2>1. Cardinality(R) \in Nat
        BY <1>1, FS_CardinalityType
    <2> HIDE DEF R
    <2> QED
        BY <2>1
<1> HIDE DEF R, I
<1>5. NewId(s) \in I
    BY <1>2, <1>3, Zenon
<1> QED
    BY <1>4, <1>5

LEMMA CreateKeeps ==
    ASSUME PlanInv, DockerInv, CurrentInv, WatchInv, NEW s \in Services, NEW image \in Images,
           Create(s, image)
    PROVE  DockerInv'
<1> DEFINE id == NewId(s)
           c == [id |-> id, image |-> image, status |-> "created"]
<1>1. id \in Nat
    BY NewIdType
<1>2. docker' = [docker EXCEPT ![s] = c]
    BY DEF Create
<1> HIDE DEF id
<1>3. c \in Containers /\ c.image \in Images
    BY <1>1 DEF Containers, DockerStates
<1> HIDE DEF c
<1> QED
    BY <1>2, <1>3, DockerChanges
-----------------------------------------------------------------------------
(* What a step leaves alone, and the small changes *)

LEMMA SameCurrent == CurrentInv /\ UNCHANGED <<current, sync>> => CurrentInv'
BY DEF CurrentInv

LEMMA SameWatch == WatchInv /\ UNCHANGED watched => WatchInv'
BY DEF WatchInv

LEMMA SameHeal == HealInv /\ UNCHANGED heal => HealInv'
BY DEF HealInv

LEMMA SameRetry == RetryInv /\ UNCHANGED retry => RetryInv'
BY DEF RetryInv

LEMMA SameRest == RestInv /\ UNCHANGED <<images, registry, target, events>> => RestInv'
BY DEF RestInv

LEMMA EventKeeps ==
    ASSUME RestInv, Event
    PROVE  events' \in 0 .. MaxEvents
<1>1. events \in 0 .. MaxEvents /\ events < MaxEvents /\ events' = events + 1 /\ MaxEvents \in Nat
    BY BoundsAssumption DEF RestInv, Event
<1> QED
    BY <1>1

\* A container is no longer probed, or is from now on.
LEMMA StopMonitoringKeeps ==
    ASSUME WatchInv, NEW s \in Services, NEW id, StopMonitoring(s, id)
    PROVE  WatchInv'
<1> DEFINE W == watched[s]
           V == W \ {id}
<1>1. W \in SUBSET Nat /\ IsFiniteSet(W)
    BY DEF WatchInv
<1>2. watched' = [watched EXCEPT ![s] = V]
    BY DEF StopMonitoring
<1> HIDE DEF W
<1>3. V \in SUBSET Nat
    BY <1>1
<1>4. IsFiniteSet(V)
    BY <1>1, FS_RemoveElement
<1> HIDE DEF V
<1> QED
    BY <1>2, <1>3, <1>4 DEF WatchInv

LEMMA StartMonitoringKeeps ==
    ASSUME WatchInv, NEW s \in Services, NEW id \in Nat, NEW probed, StartMonitoring(s, id, probed)
    PROVE  WatchInv'
<1>1. CASE probed
    <2> DEFINE W == watched[s]
               V == W \cup {id}
    <2>1. W \in SUBSET Nat /\ IsFiniteSet(W)
        BY DEF WatchInv
    <2>2. watched' = [watched EXCEPT ![s] = V]
        BY <1>1 DEF StartMonitoring
    <2> HIDE DEF W
    <2>3. V \in SUBSET Nat
        BY <2>1
    <2>4. IsFiniteSet(V)
        BY <2>1, FS_AddElement
    <2> HIDE DEF V
    <2> QED
        BY <2>2, <2>3, <2>4 DEF WatchInv
<1>2. CASE ~probed
    BY <1>2, SameWatch DEF StartMonitoring
<1> QED
    BY <1>1, <1>2

LEMMA HealOf ==
    ASSUME HealInv, NEW s \in Services
    PROVE  /\ heal[s] \in Heals /\ heal[s].id \in Nat /\ heal[s].pc \in HealPcs
           /\ heal[s].service \in Entries \cup {NoEntry} /\ heal[s].shared \in BOOLEAN
           /\ heal[s].pc # "idle" \/ heal[s].shared => heal[s].service \in Entries
BY DEF HealInv, Heals

LEMMA HealChanges ==
    ASSUME HealInv, NEW s \in Services, NEW h \in Heals,
           h.pc # "idle" \/ h.shared => h.service \in Entries, heal' = [heal EXCEPT ![s] = h]
    PROVE  HealInv'
BY DEF HealInv

LEMMA NoHealType == NoHeal \in Heals /\ NoHeal.pc = "idle" /\ ~NoHeal.shared
BY DEF NoHeal, Heals, HealPcs

LEMMA EndedKeeps ==
    ASSUME HealInv, NEW s \in Services, Ended(s)
    PROVE  HealInv'
<1>1. heal' = [heal EXCEPT ![s] = NoHeal]
    BY DEF Ended
<1> QED
    BY <1>1, NoHealType, HealChanges

\* It goes on to its next phase, with its container or with a new one.
LEMMA HealGoesOn ==
    ASSUME HealInv, NEW s \in Services, heal[s].pc # "idle", NEW pc \in HealPcs, NEW id \in Nat,
           heal' = [heal EXCEPT ![s].pc = pc, ![s].id = id]
    PROVE  HealInv'
<1> DEFINE h == [heal[s] EXCEPT !.pc = pc, !.id = id]
<1>1. heal[s] \in Heals /\ heal[s].service \in Entries
    BY HealOf
<1>2. h \in Heals /\ h.service \in Entries
    BY <1>1 DEF Heals
<1>3. heal' = [heal EXCEPT ![s] = h]
    BY DEF HealInv
<1> HIDE DEF h
<1> QED
    BY <1>2, <1>3, HealChanges

LEMMA GoesKeeps ==
    ASSUME HealInv, NEW s \in Services, heal[s].pc # "idle", NEW pc \in HealPcs, Goes(s, pc)
    PROVE  HealInv'
<1> DEFINE h == [heal[s] EXCEPT !.pc = pc]
<1>1. heal[s] \in Heals /\ heal[s].service \in Entries
    BY HealOf
<1>2. h \in Heals /\ h.service \in Entries
    BY <1>1 DEF Heals
<1>3. heal' = [heal EXCEPT ![s] = h]
    BY DEF HealInv, Goes
<1> HIDE DEF h
<1> QED
    BY <1>2, <1>3, HealChanges

LEMMA UnsharedType ==
    ASSUME NEW h \in Heals, h.pc # "idle" \/ h.shared => h.service \in Entries
    PROVE  /\ Unshared(h) \in Heals
           /\ Unshared(h).pc # "idle" \/ Unshared(h).shared => Unshared(h).service \in Entries
<1>1. h.service \in Entries \cup {NoEntry}
    BY DEF Heals
<1>2. CASE h.service \in Entries
    <2>1. [h.service EXCEPT !.id = 0] \in Entries
        BY <1>2 DEF Entries
    <2> QED
        BY <1>2, <2>1 DEF Unshared, Heals
<1>3. CASE h.service = NoEntry
    <2>1. [h.service EXCEPT !.id = 0] = NoEntry
        <3> DEFINE R == [id : Nat, image : {NoImage}, state : {"running"}, status : {"none"},
                         probed : {FALSE}]
                   e == [NoEntry EXCEPT !.id = 0]
        <3>1. NoEntry \in R /\ NoEntry.id = 0
            BY DEF NoEntry
        <3>2. e \in R /\ e.id = 0
            BY <3>1
        <3>3. e = NoEntry
            BY <3>1, <3>2
        <3> QED
            BY <1>3, <3>3
    <2> QED
        BY <1>3, <2>1 DEF Unshared, Heals
<1> QED
    BY <1>1, <1>2, <1>3

LEMMA RecordFailureKeeps ==
    ASSUME RetryInv, NEW image \in Images, ShouldRetry(image), RecordFailure(image)
    PROVE  RetryInv'
<1> DEFINE n == retry[image].count
           r == [count |-> n + 1, next |-> IF n + 1 >= MaxRetries THEN "never" ELSE "later"]
<1>1. n \in 0 .. MaxRetries /\ n < MaxRetries /\ MaxRetries \in Nat
    BY RetriesAssumption DEF RetryInv, Retries, ShouldRetry
<1>2. retry' = [retry EXCEPT ![image] = r]
    BY DEF RecordFailure, RetryInv
<1> HIDE DEF n
<1>3. n + 1 \in 0 .. MaxRetries
    BY <1>1
<1>4. r \in Retries /\ (r.next # "never" => r.count < MaxRetries)
    <2>1. CASE n + 1 >= MaxRetries
        BY <1>3, <2>1 DEF Retries
    <2>2. CASE ~(n + 1 >= MaxRetries)
        <3>1. n + 1 < MaxRetries
            BY <1>1, <2>2
        <3> QED
            BY <1>3, <2>2, <3>1 DEF Retries
    <2> QED
        BY <2>1, <2>2
<1> HIDE DEF r
<1> QED
    BY <1>2, <1>4 DEF RetryInv

LEMMA RetryChanges ==
    ASSUME RetryInv, NEW image \in Images, NEW r \in Retries,
           r.next # "never" => r.count < MaxRetries, retry' = [retry EXCEPT ![image] = r]
    PROVE  RetryInv'
BY DEF RetryInv

LEMMA RecordFatalKeeps ==
    ASSUME RetryInv, NEW image \in Images, RecordFatal(image)
    PROVE  RetryInv'
<1> DEFINE r == [retry[image] EXCEPT !.next = "never"]
<1>1. r \in Retries /\ r.next = "never"
    BY DEF RetryInv, Retries
<1>2. retry' = [retry EXCEPT ![image] = r]
    BY DEF RecordFatal, RetryInv
<1> HIDE DEF r
<1> QED
    BY <1>1, <1>2, RetryChanges

LEMMA RecordSuccessKeeps ==
    ASSUME RetryInv, NEW image \in Images, RecordSuccess(image)
    PROVE  RetryInv'
<1>1. Fresh \in Retries /\ Fresh.count < MaxRetries
    BY RetriesAssumption DEF Fresh, Retries
<1>2. retry' = [retry EXCEPT ![image] = Fresh]
    BY DEF RecordSuccess
<1> QED
    BY <1>1, <1>2, RetryChanges
-----------------------------------------------------------------------------
(* Every action keeps the invariant: the apply *)

LEMMA DownloadImageKeeps == ASSUME IInv, DownloadImage PROVE IInv'
<1> DEFINE image == Step.want.image
<1>1. PlanInv /\ RetryInv /\ RestInv /\ phase # "idle" /\ Step.action = "downloadImage"
    BY DEF IInv, DownloadImage, Doing
<1>2. image \in Images
    BY <1>1, StepWants
<1>3. PlanInv'
    BY <1>1, NextStepKeeps DEF DownloadImage
<1>4. UNCHANGED <<docker, registry, target, current, sync, watched, heal>>
    BY DEF DownloadImage, healthVars
<1>5. \/ UNCHANGED <<images, retry, events>>
      \/ images' = images \cup {image} /\ RecordSuccess(image) /\ UNCHANGED events
      \/ ShouldRetry(image) /\ RecordFailure(image) /\ UNCHANGED <<images, events>>
      \/ Event /\ RecordFatal(image) /\ UNCHANGED images
    BY DEF DownloadImage
<1> HIDE DEF image
<1>6. RetryInv'
    BY <1>1, <1>2, <1>5, SameRetry, RecordSuccessKeeps, RecordFailureKeeps, RecordFatalKeeps
<1>7. images' \subseteq Images
    BY <1>1, <1>2, <1>5 DEF RestInv
<1>8. events' \in 0 .. MaxEvents
    BY <1>1, <1>5, EventKeeps DEF RestInv
<1>9. RestInv'
    BY <1>1, <1>4, <1>7, <1>8 DEF RestInv
<1> QED
    BY <1>3, <1>4, <1>6, <1>9, SameDocker, SameCurrent, SameWatch, SameHeal DEF IInv

LEMMA StopContainerKeeps == ASSUME IInv, StopContainer PROVE IInv'
<1>1. PlanInv /\ DockerInv /\ phase # "idle" /\ Step.action = "stopContainer"
    BY DEF IInv, StopContainer, Doing
<1>2. UNCHANGED <<images, registry, target, current, sync, watched, heal, retry, events>>
    BY DEF StopContainer, healthVars
<1>3. \/ Returns /\ StopById(Svc)
      \/ NextStep /\ UNCHANGED docker
    BY DEF StopContainer
<1>4. Svc \in Services
    BY <1>1, StepInProgress
<1>5. PlanInv'
    BY <1>1, <1>3, ReturnsKeeps, NextStepKeeps
<1>6. DockerInv'
    BY <1>1, <1>3, <1>4, StopByIdKeeps, SameDocker
<1> QED
    BY <1>2, <1>5, <1>6, SameCurrent, SameWatch, SameHeal, SameRetry, SameRest DEF IInv

LEMMA PauseContainerKeeps == ASSUME IInv, PauseContainer PROVE IInv'
<1>1. PlanInv /\ DockerInv /\ phase # "idle" /\ Step.action = "pauseContainer"
    BY DEF IInv, PauseContainer, Doing
<1>2. UNCHANGED <<images, registry, target, current, sync, watched, heal, retry, events>>
    BY DEF PauseContainer, healthVars
<1>3. \/ Returns /\ ToStatus(Svc, "paused") /\ Exists(docker[Svc])
      \/ NextStep /\ UNCHANGED docker
    BY DEF PauseContainer, Exists
<1>4. Svc \in Services /\ "paused" \in DockerStates
    BY <1>1, StepInProgress DEF DockerStates
<1>5. PlanInv'
    BY <1>1, <1>3, ReturnsKeeps, NextStepKeeps
<1>6. DockerInv'
    BY <1>1, <1>3, <1>4, ToStatusKeeps, SameDocker
<1> QED
    BY <1>2, <1>5, <1>6, SameCurrent, SameWatch, SameHeal, SameRetry, SameRest DEF IInv

LEMMA UnpauseContainerKeeps == ASSUME IInv, UnpauseContainer PROVE IInv'
<1>1. PlanInv /\ DockerInv /\ phase # "idle" /\ Step.action = "unpauseContainer"
    BY DEF IInv, UnpauseContainer, Doing
<1>2. UNCHANGED <<images, registry, target, current, sync, watched, heal, retry, events>>
    BY DEF UnpauseContainer, healthVars
<1>3. \/ Returns /\ ToStatus(Svc, "running") /\ Exists(docker[Svc])
      \/ NextStep /\ UNCHANGED docker
    BY DEF UnpauseContainer, Exists
<1>4. Svc \in Services /\ "running" \in DockerStates
    BY <1>1, StepInProgress DEF DockerStates
<1>5. PlanInv'
    BY <1>1, <1>3, ReturnsKeeps, NextStepKeeps
<1>6. DockerInv'
    BY <1>1, <1>3, <1>4, ToStatusKeeps, SameDocker
<1> QED
    BY <1>2, <1>5, <1>6, SameCurrent, SameWatch, SameHeal, SameRetry, SameRest DEF IInv

LEMMA RemoveContainerKeeps == ASSUME IInv, RemoveContainer PROVE IInv'
<1>1. PlanInv /\ DockerInv /\ phase # "idle" /\ Step.action = "removeContainer"
    BY DEF IInv, RemoveContainer, Doing
<1>2. UNCHANGED <<images, registry, target, current, sync, watched, heal, retry, events>>
    BY DEF RemoveContainer, healthVars
<1>3. \/ Returns /\ RemoveById(Svc, Step.id)
      \/ NextStep /\ UNCHANGED docker
    BY DEF RemoveContainer
<1>4. Svc \in Services
    BY <1>1, StepInProgress
<1>5. PlanInv'
    BY <1>1, <1>3, ReturnsKeeps, NextStepKeeps
<1>6. DockerInv'
    BY <1>1, <1>3, <1>4, RemoveByIdKeeps, SameDocker
<1> QED
    BY <1>2, <1>5, <1>6, SameCurrent, SameWatch, SameHeal, SameRetry, SameRest DEF IInv

LEMMA StartStoppedContainerKeeps == ASSUME IInv, StartStoppedContainer PROVE IInv'
<1>1. PlanInv /\ DockerInv /\ CurrentInv /\ WatchInv /\ phase # "idle"
      /\ Step.action = "startStoppedContainer"
    BY DEF IInv, StartStoppedContainer, Doing
<1>2. UNCHANGED <<images, registry, target, current, sync, heal, retry, events>>
    BY DEF StartStoppedContainer
<1>3. Svc \in Services /\ Step \in StepSet
    BY <1>1, StepInProgress
<1>4. PlanInv' /\ DockerInv' /\ WatchInv'
    <2>1. CASE NextStep /\ UNCHANGED <<docker, watched>>
        BY <1>1, <2>1, NextStepKeeps, SameDocker, SameWatch
    <2>2. CASE StopMonitoring(Svc, Step.id) /\ NextStep /\ UNCHANGED docker
        BY <1>1, <1>3, <2>2, NextStepKeeps, SameDocker, StopMonitoringKeeps
    <2>3. CASE /\ current[Svc] # <<>> /\ StopMonitoring(Svc, Step.id) /\ RemoveById(Svc, Step.id)
               /\ phase' = "returned"
               /\ steps' = <<[Step EXCEPT !.want = [image |-> Head(current[Svc]).image,
                                                    state |-> Head(current[Svc]).state],
                                          !.probed = Head(current[Svc]).probed]>> \o Tail(steps)
        <3> DEFINE entry == Head(current[Svc])
                   want == [image |-> entry.image, state |-> entry.state]
                   x == [Step EXCEPT !.want = want, !.probed = entry.probed]
        <3>1. entry \in Entries
            BY <1>1, <1>3, <2>3 DEF CurrentInv
        <3>2. want \in Wanted /\ entry.probed \in BOOLEAN
            BY <3>1 DEF Entries, Wanted
        <3>3. Step \in ContainerSteps
            BY <1>1, <1>3 DEF StepSet, InstallSteps
        <3>4. x \in ContainerSteps /\ x.want \in Wanted /\ x.action = "startStoppedContainer"
            <4> HIDE DEF entry, want
            <4> QED
                BY <1>1, <3>2, <3>3 DEF ContainerSteps
        <3>5. steps' = <<x>> \o Tail(steps)
            BY <2>3
        <3> HIDE DEF x
        <3>6. x \in StepSet /\ phase' \in Phases \ {"idle"} /\ phase' \notin Starting
            BY <2>3, <3>4 DEF StepSet, Phases, Starting
        <3>7. PlanInv'
            BY <1>1, <3>4, <3>5, <3>6, ChangeStepKeeps
        <3> QED
            BY <1>1, <1>3, <2>3, <3>7, RemoveByIdKeeps, StopMonitoringKeeps
    <2> QED
        BY <2>1, <2>2, <2>3 DEF StartStoppedContainer
<1> QED
    BY <1>2, <1>4, SameCurrent, SameHeal, SameRetry, SameRest DEF IInv

\* updateServiceState changes an entry and, through it, what a restart has picked.
LEMMA UpdateServiceStateKeeps ==
    ASSUME CurrentInv, HealInv, UNCHANGED sync, Svc \in Services, NEW state \in ServiceStates,
           UpdateServiceState(state)
    PROVE  CurrentInv' /\ HealInv'
<1>1. CASE current[Svc] = <<>>
    BY <1>1, SameCurrent, SameHeal DEF UpdateServiceState
<1>2. CASE current[Svc] # <<>>
    <2> DEFINE s == Svc
               q == current[s]
               e == [q[1] EXCEPT !.state = state]
               r == [q EXCEPT ![1] = e]
               h == [heal[s] EXCEPT !.service.state = state]
    <2>1. q \in Seq(Entries) /\ q # <<>>
        BY <1>2 DEF CurrentInv
    <2>2. 1 \in 1 .. Len(q) /\ q[1] \in Entries
        BY <2>1
    <2>3. e \in Entries
        BY <2>2 DEF Entries
    <2>4. current' = [current EXCEPT ![s] = r]
        BY <1>2 DEF UpdateServiceState, CurrentInv
    <2>5. heal' = heal \/ (heal[s].service.id = q[1].id /\ heal[s].shared /\ heal' = [heal EXCEPT ![s] = h])
        BY <1>2 DEF UpdateServiceState, HealInv
    <2>6. r \in Seq(Entries)
        <3> HIDE DEF e, q
        <3> QED
            BY <2>1, <2>2, <2>3, ExceptSeq
    <2>7. CurrentInv'
        <3> HIDE DEF r, s
        <3>1. s \in Services
            BY DEF s
        <3> QED
            BY <2>4, <2>6, <3>1 DEF CurrentInv
    <2>8. HealInv'
        <3>1. heal[s] \in Heals /\ (heal[s].pc # "idle" \/ heal[s].shared => heal[s].service \in Entries)
              /\ heal[s].service \in Entries \cup {NoEntry}
            BY HealOf
        <3>2. CASE heal[s].service \in Entries
            <4>1. [heal[s].service EXCEPT !.state = state] \in Entries
                BY <3>2 DEF Entries
            <4>2. h \in Heals /\ h.service \in Entries
                BY <3>1, <4>1 DEF Heals
            <4> HIDE DEF h
            <4> QED
                BY <2>5, <4>2, HealChanges, SameHeal
        <3>3. CASE heal[s].service \notin Entries
            BY <2>5, <3>1, <3>3, SameHeal
        <3> QED
            BY <3>2, <3>3
    <2> QED
        BY <2>7, <2>8
<1> QED
    BY <1>1, <1>2

LEMMA RemoveServiceKeeps ==
    ASSUME CurrentInv, HealInv, UNCHANGED sync, Svc \in Services, RemoveServiceFromCurrentState
    PROVE  CurrentInv' /\ HealInv'
<1>1. current' = [current EXCEPT ![Svc] = <<>>] /\ heal' = [heal EXCEPT ![Svc] = Unshared(heal[Svc])]
    BY DEF RemoveServiceFromCurrentState, HealInv
<1>2. <<>> \in Seq(Entries)
    BY EmptySeq
<1>3. CurrentInv'
    BY <1>1, <1>2 DEF CurrentInv
<1> DEFINE h == Unshared(heal[Svc])
<1>4. h \in Heals /\ (h.pc # "idle" \/ h.shared => h.service \in Entries)
    BY HealOf, UnsharedType
<1>5. heal' = [heal EXCEPT ![Svc] = h]
    BY <1>1
<1> HIDE DEF h
<1>6. HealInv'
    BY <1>4, <1>5, HealChanges
<1> QED
    BY <1>3, <1>6

LEMMA StepReturnsKeeps == ASSUME IInv, StepReturns PROVE IInv'
<1>1. PlanInv /\ CurrentInv /\ WatchInv /\ HealInv /\ phase = "returned" /\ phase # "idle"
    BY DEF IInv, StepReturns
<1>2. UNCHANGED <<docker, images, registry, target, sync, retry, events>>
    BY DEF StepReturns
<1>3. Svc \in Services /\ Step \in StepSet /\ {"stopped", "paused", "running"} \subseteq ServiceStates
    BY <1>1, StepInProgress DEF ServiceStates
<1>4. PlanInv' /\ CurrentInv' /\ WatchInv' /\ HealInv'
    <2>1. CASE UpdateServiceState("stopped") /\ StopMonitoring(Svc, Step.id) /\ NextStep
        BY <1>1, <1>2, <1>3, <2>1, UpdateServiceStateKeeps, StopMonitoringKeeps, NextStepKeeps
    <2>2. CASE UpdateServiceState("paused") /\ NextStep /\ UNCHANGED watched
        BY <1>1, <1>2, <1>3, <2>2, UpdateServiceStateKeeps, SameWatch, NextStepKeeps
    <2>3. CASE UpdateServiceState("running") /\ NextStep /\ UNCHANGED watched
        BY <1>1, <1>2, <1>3, <2>3, UpdateServiceStateKeeps, SameWatch, NextStepKeeps
    <2>4. CASE RemoveServiceFromCurrentState /\ StopMonitoring(Svc, Step.id) /\ NextStep
        BY <1>1, <1>2, <1>3, <2>4, RemoveServiceKeeps, StopMonitoringKeeps, NextStepKeeps
    <2>5. CASE /\ Step.action = "startStoppedContainer"
               /\ RemoveServiceFromCurrentState /\ UNCHANGED watched
               /\ steps' = <<[Step EXCEPT !.action = "startContainer", !.id = 0]>> \o Tail(steps)
               /\ phase' = "begin"
        <3> DEFINE x == [Step EXCEPT !.action = "startContainer", !.id = 0]
        <3>1. Step.want \in Wanted
            BY <1>1, <2>5 DEF PlanInv
        <3>2. Step \in ContainerSteps
            BY <1>3, <2>5 DEF StepSet, InstallSteps
        <3>3. x \in StepSet
            BY <3>1, <3>2 DEF StepSet, ContainerSteps, InstallSteps
        <3>4. steps' = <<x>> \o Tail(steps) /\ phase' \in Phases \ {"idle"}
              /\ phase' \notin Starting /\ phase' # "returned"
            BY <2>5 DEF Phases, Starting
        <3> HIDE DEF x
        <3>5. PlanInv'
            BY <1>1, <3>3, <3>4, ChangeStepKeeps
        <3> QED
            BY <1>1, <1>2, <1>3, <2>5, <3>5, RemoveServiceKeeps, SameWatch
    <2> QED
        BY <2>1, <2>2, <2>3, <2>4, <2>5 DEF StepReturns
<1> QED
    BY <1>2, <1>4, SameDocker, SameRetry, SameRest DEF IInv

LEMMA FindContainerKeeps == ASSUME IInv, FindContainer PROVE IInv'
<1>1. PlanInv /\ DockerInv /\ phase # "idle" /\ Step.action = "startContainer"
    BY DEF IInv, FindContainer, Doing
<1>2. UNCHANGED <<docker, images, registry, target, current, sync, watched, heal, retry, events>>
    BY DEF FindContainer, healthVars
<1>3. Svc \in Services /\ Step \in StepSet
    BY <1>1, StepInProgress
<1> DEFINE id == docker[Svc].id
           x == [Step EXCEPT !.id = id]
<1>4. id \in Nat
    BY <1>1, <1>3, ContainerOf
<1>5. steps' = <<x>> \o Tail(steps) /\ phase' = AfterFind(Svc)
    BY DEF FindContainer
<1> HIDE DEF id
<1>6. x \in StepSet /\ x.action = "startContainer"
    BY <1>1, <1>3, <1>4 DEF StepSet, ContainerSteps, InstallSteps
<1>7. phase' \in Phases \ {"idle"}
    BY <1>5, AfterFindPhase DEF Phases
<1> HIDE DEF x
<1>8. PlanInv'
    BY <1>1, <1>5, <1>6, <1>7, ChangeStepKeeps
<1> QED
    BY <1>2, <1>8, SameDocker, SameCurrent, SameWatch, SameHeal, SameRetry, SameRest DEF IInv

LEMMA CreateContainerKeeps == ASSUME IInv, CreateContainer PROVE IInv'
<1>1. PlanInv /\ DockerInv /\ CurrentInv /\ WatchInv /\ RestInv /\ phase = "missing" /\ phase # "idle"
    BY DEF IInv, CreateContainer
<1>2. UNCHANGED <<registry, target, current, sync, watched, heal, retry, events>>
    BY DEF CreateContainer, healthVars
<1>3. Step.action = "startContainer"
    BY <1>1 DEF PlanInv, Starting
<1>4. Svc \in Services /\ Step \in StepSet /\ Step.want.image \in Images
    BY <1>1, <1>3, StepInProgress, StepWants
<1>5. PlanInv' /\ DockerInv' /\ images' \subseteq Images
    <2>1. CASE NextStep /\ UNCHANGED <<docker, images>>
        BY <1>1, <2>1, NextStepKeeps, SameDocker DEF RestInv
    <2>2. CASE /\ Create(Svc, Step.want.image) /\ phase' = "created"
               /\ steps' = <<[Step EXCEPT !.id = NewId(Svc)]>> \o Tail(steps)
        <3> DEFINE id == NewId(Svc)
                   x == [Step EXCEPT !.id = id]
        <3>1. id \in Nat
            BY <1>1, <1>4, NewIdType
        <3>2. steps' = <<x>> \o Tail(steps) /\ phase' = "created"
            BY <2>2
        <3> HIDE DEF id
        <3>3. x \in StepSet /\ x.action = "startContainer"
            BY <1>3, <1>4, <3>1 DEF StepSet, ContainerSteps, InstallSteps
        <3> HIDE DEF x
        <3>4. phase' \in Phases \ {"idle"}
            BY <3>2 DEF Phases
        <3>5. PlanInv'
            BY <1>1, <3>2, <3>3, <3>4, ChangeStepKeeps
        <3>6. DockerInv'
            BY <1>1, <1>4, <2>2, CreateKeeps
        <3>7. images' = images \cup {Step.want.image}
            BY <2>2 DEF Create
        <3> QED
            BY <1>1, <1>4, <3>5, <3>6, <3>7 DEF RestInv
    <2> QED
        BY <2>1, <2>2 DEF CreateContainer
<1>6. RestInv'
    BY <1>1, <1>2, <1>5 DEF RestInv
<1> QED
    BY <1>2, <1>5, <1>6, SameCurrent, SameWatch, SameHeal, SameRetry DEF IInv

LEMMA StartContainerKeeps == ASSUME IInv, StartContainer PROVE IInv'
<1>1. PlanInv /\ DockerInv /\ RestInv /\ phase \in {"found", "created"} /\ phase # "idle"
    BY DEF IInv, StartContainer
<1>2. UNCHANGED <<images, registry, target, current, sync, watched, heal, retry>>
    BY DEF StartContainer, healthVars
<1>3. Svc \in Services /\ steps # <<>> /\ "running" \in DockerStates
    BY <1>1, StepInProgress DEF DockerStates
<1>4. PlanInv' /\ DockerInv' /\ events' \in 0 .. MaxEvents
    <2>1. CASE /\ Startable(Svc, Step.id) /\ ToStatus(Svc, "running") /\ phase' = "started"
               /\ UNCHANGED <<steps, events>>
        <3>1. Exists(docker[Svc])
            BY <2>1 DEF Startable, Present
        <3>2. Step.action = "startContainer" /\ Step' = Step
            BY <1>1, <2>1 DEF PlanInv, Starting, Step
        <3>3. PlanInv'
            BY <1>1, <1>3, <2>1, <3>2 DEF PlanInv, Phases
        <3>4. DockerInv'
            BY <1>1, <1>3, <2>1, <3>1, ToStatusKeeps
        <3> QED
            BY <1>1, <2>1, <3>3, <3>4 DEF RestInv
    <2>2. CASE Event /\ NextStep /\ UNCHANGED docker
        BY <1>1, <2>2, NextStepKeeps, EventKeeps, SameDocker
    <2>3. CASE NextStep /\ UNCHANGED <<docker, events>>
        BY <1>1, <2>3, NextStepKeeps, SameDocker DEF RestInv
    <2> QED
        BY <2>1, <2>2, <2>3 DEF StartContainer
<1>5. RestInv'
    BY <1>1, <1>2, <1>4 DEF RestInv
<1> QED
    BY <1>2, <1>4, <1>5, SameCurrent, SameWatch, SameHeal, SameRetry DEF IInv

LEMMA AddToCurrentStateKeeps == ASSUME IInv, AddToCurrentState PROVE IInv'
<1>1. PlanInv /\ CurrentInv /\ phase = "started" /\ phase # "idle"
    BY DEF IInv, AddToCurrentState
<1>2. UNCHANGED <<docker, images, registry, target, steps, sync, watched, heal, retry, events>>
    BY DEF AddToCurrentState, healthVars
<1>3. Step.action = "startContainer" /\ Step' = Step
    BY <1>1, <1>2 DEF PlanInv, Starting, Step
<1>4. Svc \in Services /\ Step.id \in Nat /\ Step.probed \in BOOLEAN /\ steps # <<>>
      /\ Step.want.image \in Images /\ Step.want.state \in ServiceStates
    BY <1>1, <1>3, StepInProgress, StepWants
<1>5. PlanInv'
    BY <1>1, <1>2, <1>3, <1>4 DEF PlanInv, Phases, AddToCurrentState
<1> DEFINE entry == [id |-> Step.id, image |-> Step.want.image, state |-> Step.want.state,
                     status |-> "running", probed |-> Step.probed]
           q == Append(current[Svc], entry)
<1>6. entry \in Entries
    BY <1>4 DEF Entries, DockerStates
<1>7. q \in Seq(Entries)
    <2> HIDE DEF entry
    <2> QED
        BY <1>1, <1>4, <1>6 DEF CurrentInv
<1>8. current' = [current EXCEPT ![Svc] = q]
    BY <1>1 DEF AddToCurrentState, CurrentInv
<1> HIDE DEF q
<1>9. CurrentInv'
    BY <1>1, <1>2, <1>4, <1>7, <1>8 DEF CurrentInv
<1> QED
    BY <1>2, <1>5, <1>9, SameDocker, SameWatch, SameHeal, SameRetry, SameRest DEF IInv

LEMMA StartHealthMonitoringKeeps == ASSUME IInv, StartHealthMonitoring PROVE IInv'
<1>1. PlanInv /\ WatchInv /\ phase # "idle"
    BY DEF IInv, StartHealthMonitoring
<1>2. UNCHANGED <<docker, images, registry, target, current, sync, heal, retry, events>>
    BY DEF StartHealthMonitoring
<1>3. Svc \in Services /\ Step.id \in Nat
    BY <1>1, StepInProgress
<1>4. WatchInv'
    BY <1>1, <1>3, StartMonitoringKeeps DEF StartHealthMonitoring
<1>5. PlanInv'
    BY <1>1, NextStepKeeps DEF StartHealthMonitoring
<1> QED
    BY <1>2, <1>4, <1>5, SameDocker, SameCurrent, SameHeal, SameRetry, SameRest DEF IInv
-----------------------------------------------------------------------------
(* ... the restart of an unhealthy container *)

LEMMA LivenessFailedKeeps ==
    ASSUME IInv, NEW s \in Services, NEW id \in watched[s], LivenessFailed(s, id)
    PROVE  IInv'
<1>1. CurrentInv /\ WatchInv /\ HealInv /\ RestInv /\ id \in Nat
    BY DEF IInv, WatchInv
<1>2. UNCHANGED <<docker, images, registry, target, current, steps, phase, sync, retry>>
    BY DEF LivenessFailed
<1>3. PICK i \in DOMAIN current[s] :
        heal' = [heal EXCEPT ![s] = [pc |-> "stop", id |-> id, shared |-> TRUE,
                          service |-> [current[s][i] EXCEPT !.status = "running"]]]
    BY DEF LivenessFailed
<1> DEFINE e == current[s][i]
           e2 == [e EXCEPT !.status = "running"]
           h == [pc |-> "stop", id |-> id, shared |-> TRUE, service |-> e2]
<1>4. e \in Entries
    BY <1>1 DEF CurrentInv
<1>5. heal' = [heal EXCEPT ![s] = h]
    BY <1>3
<1> HIDE DEF e
<1>6. e2 \in Entries
    BY <1>4 DEF Entries, DockerStates
<1> HIDE DEF e2
<1>7. h \in Heals /\ h.service \in Entries
    BY <1>1, <1>6 DEF Heals, HealPcs
<1> HIDE DEF h
<1>8. HealInv'
    BY <1>1, <1>5, <1>7, HealChanges
<1>9. WatchInv'
    BY <1>1, StopMonitoringKeeps DEF LivenessFailed
<1>10. RestInv'
    BY <1>1, <1>2, EventKeeps DEF LivenessFailed, ProbeFails, RestInv
<1> QED
    BY <1>2, <1>8, <1>9, <1>10, SamePlan, SameDocker, SameCurrent, SameRetry DEF IInv

LEMMA HealStopsKeeps == ASSUME IInv, NEW s \in Services, HealStops(s) PROVE IInv'
<1>1. DockerInv /\ HealInv /\ heal[s].pc # "idle" /\ "remove" \in HealPcs
    BY DEF IInv, HealStops, Healing, HealPcs
<1>2. UNCHANGED <<images, registry, target, current, steps, phase, sync, watched, retry, events>>
    BY DEF HealStops
<1>3. \/ StopById(s) /\ Goes(s, "remove")
      \/ Ended(s) /\ UNCHANGED docker
    BY DEF HealStops
<1>4. DockerInv'
    BY <1>1, <1>3, StopByIdKeeps, SameDocker
<1>5. HealInv'
    BY <1>1, <1>3, GoesKeeps, EndedKeeps
<1> QED
    BY <1>2, <1>4, <1>5, SamePlan, SameCurrent, SameWatch, SameRetry, SameRest DEF IInv

LEMMA HealRemovesKeeps == ASSUME IInv, NEW s \in Services, HealRemoves(s) PROVE IInv'
<1>1. DockerInv /\ HealInv /\ heal[s].pc # "idle" /\ "find" \in HealPcs
    BY DEF IInv, HealRemoves, Healing, HealPcs
<1>2. UNCHANGED <<images, registry, target, current, steps, phase, sync, watched, retry, events>>
    BY DEF HealRemoves
<1>3. \/ RemoveById(s, heal[s].id) /\ Goes(s, "find")
      \/ Ended(s) /\ UNCHANGED docker
    BY DEF HealRemoves
<1>4. DockerInv'
    BY <1>1, <1>3, RemoveByIdKeeps, SameDocker
<1>5. HealInv'
    BY <1>1, <1>3, GoesKeeps, EndedKeeps
<1> QED
    BY <1>2, <1>4, <1>5, SamePlan, SameCurrent, SameWatch, SameRetry, SameRest DEF IInv

LEMMA HealFindsKeeps == ASSUME IInv, NEW s \in Services, HealFinds(s) PROVE IInv'
<1>1. DockerInv /\ HealInv /\ heal[s].pc # "idle"
    BY DEF IInv, HealFinds, Healing
<1>2. UNCHANGED <<docker, images, registry, target, current, steps, phase, sync, watched, retry,
                  events>>
    BY DEF HealFinds
<1> DEFINE pc == AfterFind(s)
           id == docker[s].id
<1>3. pc \in HealPcs
    BY AfterFindPhase DEF HealPcs
<1>4. id \in Nat
    BY <1>1, ContainerOf
<1>5. heal' = [heal EXCEPT ![s].pc = pc, ![s].id = id]
    BY DEF HealFinds
<1> HIDE DEF pc, id
<1>6. HealInv'
    BY <1>1, <1>3, <1>4, <1>5, HealGoesOn
<1> QED
    BY <1>2, <1>6, SamePlan, SameDocker, SameCurrent, SameWatch, SameRetry, SameRest DEF IInv

LEMMA HealCreatesKeeps == ASSUME IInv, NEW s \in Services, HealCreates(s) PROVE IInv'
<1> DEFINE image == heal[s].service.image
           id == NewId(s)
<1>1. PlanInv /\ DockerInv /\ CurrentInv /\ WatchInv /\ HealInv /\ RestInv /\ heal[s].pc # "idle"
    BY DEF IInv, HealCreates, Healing
<1>2. UNCHANGED <<registry, target, current, steps, phase, sync, watched, retry, events>>
    BY DEF HealCreates
<1>3. image \in Images
    BY <1>1, HealOf DEF Entries
<1>4. id \in Nat /\ "created" \in HealPcs
    BY <1>1, NewIdType DEF HealPcs
<1>5. \/ Create(s, image) /\ heal' = [heal EXCEPT ![s].pc = "created", ![s].id = id]
      \/ Ended(s) /\ UNCHANGED <<docker, images>>
    BY DEF HealCreates
<1> HIDE DEF image, id
<1>6. DockerInv'
    BY <1>1, <1>3, <1>5, CreateKeeps, SameDocker
<1>7. HealInv'
    BY <1>1, <1>4, <1>5, HealGoesOn, EndedKeeps
<1>8. images' \subseteq Images
    BY <1>1, <1>3, <1>5 DEF Create, RestInv
<1>9. RestInv'
    BY <1>1, <1>2, <1>8 DEF RestInv
<1> QED
    BY <1>2, <1>6, <1>7, <1>9, SamePlan, SameCurrent, SameWatch, SameRetry DEF IInv

LEMMA HealStartsKeeps == ASSUME IInv, NEW s \in Services, HealStarts(s) PROVE IInv'
<1>1. DockerInv /\ HealInv /\ RestInv /\ heal[s].pc # "idle" /\ "started" \in HealPcs
      /\ "running" \in DockerStates
    BY DEF IInv, HealStarts, HealPcs, DockerStates
<1>2. UNCHANGED <<images, registry, target, current, steps, phase, sync, watched, retry>>
    BY DEF HealStarts
<1>3. \/ Exists(docker[s]) /\ ToStatus(s, "running") /\ Goes(s, "started") /\ UNCHANGED events
      \/ Event /\ Ended(s) /\ UNCHANGED docker
      \/ Ended(s) /\ UNCHANGED <<docker, events>>
    BY DEF HealStarts, Startable, Present
<1>4. DockerInv'
    BY <1>1, <1>3, ToStatusKeeps, SameDocker
<1>5. HealInv'
    BY <1>1, <1>3, GoesKeeps, EndedKeeps
<1>6. events' \in 0 .. MaxEvents
    BY <1>1, <1>3, EventKeeps DEF RestInv
<1>7. RestInv'
    BY <1>1, <1>2, <1>6 DEF RestInv
<1> QED
    BY <1>2, <1>4, <1>5, <1>7, SamePlan, SameCurrent, SameWatch, SameRetry DEF IInv

LEMMA HealLandsKeeps == ASSUME IInv, NEW s \in Services, HealLands(s) PROVE IInv'
<1>1. CurrentInv /\ WatchInv /\ HealInv /\ heal[s].pc # "idle"
    BY DEF IInv, HealLands, Healing
<1>2. UNCHANGED <<docker, images, registry, target, steps, phase, sync, retry, events>>
    BY DEF HealLands
<1>3. heal[s].service \in Entries /\ heal[s].id \in Nat
    BY <1>1, HealOf
<1> DEFINE e == [heal[s].service EXCEPT !.id = heal[s].id]
           q == <<e>>
<1>4. e \in Entries
    BY <1>3 DEF Entries
<1>5. current' = [current EXCEPT ![s] = q]
    BY DEF HealLands
<1> HIDE DEF e
<1>6. q \in Seq(Entries)
    BY <1>4
<1> HIDE DEF q
<1>7. CurrentInv'
    BY <1>1, <1>2, <1>5, <1>6 DEF CurrentInv
<1>8. WatchInv'
    BY <1>1, <1>3, StartMonitoringKeeps DEF HealLands
<1>9. HealInv'
    BY <1>1, EndedKeeps DEF HealLands
<1> QED
    BY <1>2, <1>7, <1>8, <1>9, SamePlan, SameDocker, SameRetry, SameRest DEF IInv

-----------------------------------------------------------------------------
(* ... and the callers, Docker and the registry *)

LEMMA SetTargetKeeps == ASSUME IInv, NEW new \in Targets, SetTarget(new) PROVE IInv'
<1>1. PlanInv /\ CurrentInv /\ RestInv
    BY DEF IInv
<1>2. UNCHANGED <<docker, images, registry, current, sync, watched, heal, retry>>
    BY DEF SetTarget, healthVars
<1>3. new \in [Services -> Wanted \cup {Absent}]
    BY TargetsAssumption
<1>4. PlanInv'
    BY <1>1, <1>3, BeginApplyKeeps, SamePlan DEF SetTarget
<1>5. RestInv'
    BY <1>1, <1>2, <1>3, EventKeeps DEF SetTarget, RestInv
<1> QED
    BY <1>2, <1>4, <1>5, SameDocker, SameCurrent, SameWatch, SameHeal, SameRetry DEF IInv

LEMMA AutoReconcileKeeps == ASSUME IInv, AutoReconcile PROVE IInv'
<1>1. CurrentInv /\ RestInv /\ target \in [Services -> Wanted \cup {Absent}]
    BY DEF IInv, RestInv
<1>2. UNCHANGED <<docker, images, registry, target, current, sync, watched, heal, retry, events>>
    BY DEF AutoReconcile, healthVars
<1>3. PlanInv'
    BY <1>1, BeginApplyKeeps DEF AutoReconcile
<1> QED
    BY <1>2, <1>3, SameDocker, SameCurrent, SameWatch, SameHeal, SameRetry, SameRest DEF IInv

LEMMA SyncKeeps == ASSUME IInv, SyncLists \/ SyncLands PROVE IInv'
<1>1. DockerInv /\ CurrentInv /\ HealInv
    BY DEF IInv
<1>2. UNCHANGED <<docker, images, registry, target, steps, phase, watched, retry, events>>
    BY DEF SyncLists, SyncLands, healthVars
<1>3. CurrentInv'
    BY <1>1, ListingType DEF SyncLists, SyncLands, CurrentInv
<1>4. HealInv'
    <2>1. CASE SyncLists
        BY <1>1, <2>1, SameHeal DEF SyncLists, healthVars
    <2>2. CASE SyncLands
        <3>1. heal' = [s \in Services |-> Unshared(heal[s])]
            BY <2>2 DEF SyncLands
        <3>2. \A s \in Services :
                 /\ Unshared(heal[s]) \in Heals
                 /\ Unshared(heal[s]).pc # "idle" \/ Unshared(heal[s]).shared =>
                       Unshared(heal[s]).service \in Entries
            BY <1>1, HealOf, UnsharedType
        <3> QED
            BY <3>1, <3>2 DEF HealInv
    <2> QED
        BY <2>1, <2>2
<1> QED
    BY <1>2, <1>3, <1>4, SamePlan, SameDocker, SameWatch, SameRetry, SameRest DEF IInv

LEMMA BackoffEndsKeeps == ASSUME IInv, BackoffEnds PROVE IInv'
<1>1. RetryInv
    BY DEF IInv
<1>2. UNCHANGED <<docker, images, registry, target, current, steps, phase, sync, watched, heal, events>>
    BY DEF BackoffEnds, healthVars
<1>3. PICK image \in Images :
        retry[image].next = "later" /\ retry' = [retry EXCEPT ![image].next = "now"]
    BY DEF BackoffEnds
<1> DEFINE r == [retry[image] EXCEPT !.next = "now"]
<1>4. r \in Retries /\ r.count < MaxRetries
    BY <1>1, <1>3 DEF RetryInv, Retries
<1>5. retry' = [retry EXCEPT ![image] = r]
    BY <1>1, <1>3 DEF RetryInv
<1> HIDE DEF r
<1>6. RetryInv'
    BY <1>1, <1>4, <1>5, RetryChanges
<1> QED
    BY <1>2, <1>6, SamePlan, SameDocker, SameCurrent, SameWatch, SameHeal, SameRest DEF IInv

LEMMA RegistryKeeps == ASSUME IInv, RegistryFails \/ RegistryReturns PROVE IInv'
<1>1. RestInv
    BY DEF IInv
<1>2. UNCHANGED <<docker, images, target, current, steps, phase, sync, watched, heal, retry>>
    BY DEF RegistryFails, RegistryReturns, healthVars
<1>3. registry' \in BOOLEAN
    BY DEF RegistryFails, RegistryReturns
<1>4. events' \in 0 .. MaxEvents
    BY <1>1, EventKeeps DEF RegistryFails, RegistryReturns, RestInv
<1>5. RestInv'
    BY <1>1, <1>2, <1>3, <1>4 DEF RestInv
<1> QED
    BY <1>2, <1>5, SamePlan, SameDocker, SameCurrent, SameWatch, SameHeal, SameRetry DEF IInv

LEMMA ContainerExitsKeeps == ASSUME IInv, ContainerExits PROVE IInv'
<1>1. DockerInv /\ RestInv
    BY DEF IInv
<1>2. UNCHANGED <<images, registry, target, current, steps, phase, sync, watched, heal, retry>>
    BY DEF ContainerExits, healthVars
<1>3. PICK s \in Services : docker[s].status = "running" /\ ToStatus(s, "exited")
    BY DEF ContainerExits, ToStatus
<1>4. Exists(docker[s]) /\ "exited" \in DockerStates
    BY <1>3 DEF Exists, DockerStates
<1>5. DockerInv'
    BY <1>1, <1>3, <1>4, ToStatusKeeps
<1>6. RestInv'
    BY <1>1, <1>2, EventKeeps DEF ContainerExits, RestInv
<1> QED
    BY <1>2, <1>5, <1>6, SamePlan, SameCurrent, SameWatch, SameHeal, SameRetry DEF IInv

LEMMA RestartKeeps == ASSUME IInv, Restart PROVE IInv'
<1>1. DockerInv /\ RestInv
    BY DEF IInv
<1>2. UNCHANGED <<docker, images, registry, target, retry>>
    BY DEF Restart
<1>3. PlanInv'
    <2>1. steps' = <<>> /\ phase' = "idle"
        BY DEF Restart
    <2> QED
        BY <2>1, EmptySeq DEF PlanInv, Phases, Starting
<1>4. CurrentInv'
    BY <1>1, ListingType DEF Restart, CurrentInv
<1>5. WatchInv'
    <2>1. watched' = [s \in Services |-> {}]
        BY DEF Restart
    <2> QED
        BY <2>1, FS_EmptySet DEF WatchInv
<1>6. HealInv'
    <2>1. heal' = [s \in Services |-> NoHeal]
        BY DEF Restart
    <2> QED
        BY <2>1, NoHealType DEF HealInv
<1>7. RestInv'
    BY <1>1, <1>2, EventKeeps DEF Restart, RestInv
<1> QED
    BY <1>2, <1>3, <1>4, <1>5, <1>6, <1>7, SameDocker, SameRetry DEF IInv
-----------------------------------------------------------------------------
(* The theorems *)

LEMMA InitHolds == Init => IInv
<1> SUFFICES ASSUME Init PROVE IInv
    OBVIOUS
<1>1. target \in [Services -> Wanted \cup {Absent}]
    BY TargetsAssumption DEF Init
<1>2. ASSUME NEW s \in Services
      PROVE  SetUp(target[s]) \in Containers
             /\ (Exists(SetUp(target[s])) => SetUp(target[s]).image \in Images)
    <2> DEFINE want == target[s]
    <2>1. want \in Wanted \cup {Absent}
        BY <1>1
    <2> HIDE DEF want
    <2>2. CASE want = Absent
        <3>1. SetUp(want) = NoContainer
            BY <2>2 DEF SetUp, Absent
        <3>2. SetUp(want) \in Containers /\ ~Exists(SetUp(want))
            <4>1. NoContainer \in Containers /\ ~Exists(NoContainer)
                BY DEF NoContainer, Containers, DockerStates, Exists
            <4> QED
                BY <3>1, <4>1
        <3> QED
            BY <3>2 DEF want
    <2>3. CASE want # Absent
        <3>1. want.image \in Images /\ want.state \in {"running", "stopped", "paused"}
            BY <2>1, <2>3 DEF Wanted, ServiceStates
        <3>2. \E status \in DockerStates :
                SetUp(want) = [id |-> 1, image |-> want.image, status |-> status]
            <4>1. CASE want.state = "running"
                BY <2>3, <4>1 DEF SetUp, DockerStates
            <4>2. CASE want.state = "paused"
                BY <2>3, <4>2 DEF SetUp, DockerStates
            <4>3. CASE want.state = "stopped"
                BY <2>3, <4>3 DEF SetUp, DockerStates
            <4> QED
                BY <3>1, <4>1, <4>2, <4>3
        <3>3. SetUp(want) \in Containers /\ SetUp(want).image \in Images
            BY <3>1, <3>2 DEF Containers
        <3> QED
            BY <3>3 DEF want
    <2> QED
        BY <2>2, <2>3
<1>3. DockerInv
    <2>1. docker = [s \in Services |-> SetUp(target[s])]
        BY DEF Init
    <2>2. \A s \in Services : docker[s] = SetUp(target[s])
        BY <2>1
    <2> QED
        BY <1>2, <2>1, <2>2 DEF DockerInv
<1>4. PlanInv
    BY EmptySeq DEF Init, PlanInv, Phases, Starting
<1>5. CurrentInv
    <2>1. sync = NoListing
        BY DEF Init
    <2>2. Listing \in [Services -> Seq(Entries)]
        BY <1>3, ListingType
    <2>3. CASE current = Listing
        BY <2>1, <2>2, <2>3 DEF CurrentInv
    <2>4. CASE current = [s \in Services |-> [i \in DOMAIN Listing[s] |->
                             [Listing[s][i] EXCEPT !.probed = (s \in Probed)]]]
        <3>1. ASSUME NEW s \in Services PROVE current[s] \in Seq(Entries)
            <4> DEFINE q == Listing[s]
                       r == [i \in DOMAIN q |-> [q[i] EXCEPT !.probed = (s \in Probed)]]
            <4>1. q \in Seq(Entries)
                BY <2>2
            <4>2. current[s] = r
                BY <2>4
            <4> HIDE DEF q
            <4>3. Len(q) \in Nat /\ DOMAIN q = 1 .. Len(q)
                BY <4>1
            <4>4. \A i \in 1 .. Len(q) : [q[i] EXCEPT !.probed = (s \in Probed)] \in Entries
                <5> DEFINE b == (s \in Probed)
                <5>1. b \in BOOLEAN
                    OBVIOUS
                <5> HIDE DEF b
                <5>2. ASSUME NEW e \in Entries PROVE [e EXCEPT !.probed = b] \in Entries
                    BY <5>1 DEF Entries
                <5>3. \A i \in 1 .. Len(q) : q[i] \in Entries
                    BY <4>1
                <5>4. \A i \in 1 .. Len(q) : [q[i] EXCEPT !.probed = b] \in Entries
                    BY <5>2, <5>3
                <5> QED
                    BY <5>4 DEF b
            <4>5. r \in [1 .. Len(q) -> Entries]
                BY <4>3, <4>4
            <4> HIDE DEF r
            <4> QED
                BY <4>2, <4>3, <4>5, SeqDef
        <3> QED
            BY <2>1, <2>4, <3>1 DEF CurrentInv
    <2> QED
        BY <2>3, <2>4 DEF Init
<1>6. WatchInv
    <2>1. \A s \in Services : docker[s].id \in Nat
        BY <1>3, ContainerOf
    <2>2. IsFiniteSet({}) /\ \A x : IsFiniteSet({x})
        BY FS_EmptySet, FS_Singleton
    <2>3. CASE watched = [s \in Services |-> {}]
        BY <2>2, <2>3 DEF WatchInv
    <2>4. CASE watched = [s \in Services |->
                             IF s \in Probed /\ docker[s].status \in {"running", "paused"}
                             THEN {docker[s].id} ELSE {}]
        <3>1. \A s \in Services : watched[s] = {docker[s].id} \/ watched[s] = {}
            BY <2>4
        <3>2. \A s \in Services : IsFiniteSet(watched[s]) /\ watched[s] \in SUBSET Nat
            BY <2>1, <2>2, <3>1
        <3> QED
            BY <2>4, <3>2 DEF WatchInv
    <2> QED
        BY <2>3, <2>4 DEF Init
<1>7. HealInv
    BY NoHealType DEF Init, HealInv
<1>8. RetryInv
    BY RetriesAssumption DEF Init, RetryInv, Retries, Fresh
<1>9. RestInv
    <2>1. \A s \in Services : target[s].image \in Images \cup {NoImage}
        BY <1>1 DEF Wanted, Absent
    <2>2. images \subseteq Images
        BY <2>1 DEF Init
    <2>3. events \in 0 .. MaxEvents /\ registry \in BOOLEAN
        BY BoundsAssumption DEF Init
    <2> QED
        BY <1>1, <2>2, <2>3 DEF RestInv
<1> QED
    BY <1>3, <1>4, <1>5, <1>6, <1>7, <1>8, <1>9 DEF IInv

LEMMA NextKeeps == IInv /\ [Next]_vars => IInv'
<1> SUFFICES ASSUME IInv, [Next]_vars PROVE IInv'
    OBVIOUS
<1>1. CASE ApplyStep
    BY <1>1, DownloadImageKeeps, StopContainerKeeps, PauseContainerKeeps, UnpauseContainerKeeps,
       RemoveContainerKeeps, StartStoppedContainerKeeps, StepReturnsKeeps, FindContainerKeeps,
       CreateContainerKeeps, StartContainerKeeps, AddToCurrentStateKeeps,
       StartHealthMonitoringKeeps DEF ApplyStep
<1>2. CASE \E new \in Targets : SetTarget(new)
    BY <1>2, SetTargetKeeps
<1>3. CASE \E s \in Services : HealStep(s)
    BY <1>3, HealStopsKeeps, HealRemovesKeeps, HealFindsKeeps, HealCreatesKeeps, HealStartsKeeps,
       HealLandsKeeps DEF HealStep
<1>4. CASE \E s \in Services : \E id \in watched[s] : LivenessFailed(s, id)
    BY <1>4, LivenessFailedKeeps
<1>5. CASE AutoReconcile \/ SyncLists \/ SyncLands \/ BackoffEnds
    BY <1>5, AutoReconcileKeeps, SyncKeeps, BackoffEndsKeeps
<1>6. CASE RegistryFails \/ RegistryReturns \/ ContainerExits \/ Restart
    BY <1>6, RegistryKeeps, ContainerExitsKeeps, RestartKeeps
<1>7. CASE UNCHANGED vars
    <2>1. UNCHANGED <<docker, images, registry, target, current, steps, phase, sync, watched, heal,
                      retry, events>>
        BY <1>7 DEF vars
    <2> QED
        BY <2>1, SamePlan, SameDocker, SameCurrent, SameWatch, SameHeal, SameRetry, SameRest DEF IInv
<1> QED
    BY <1>1, <1>2, <1>3, <1>4, <1>5, <1>6, <1>7 DEF Next

(* The inductive invariant holds in every reachable state, through every         *)
(* interleaving of the apply, the sync, the restart of an unhealthy container,    *)
(* crashes and faults.                                                            *)
THEOREM Invariant == Spec => []IInv
<1>1. Init => IInv
    BY InitHolds
<1>2. IInv /\ [Next]_vars => IInv'
    BY NextKeeps
<1> QED
    BY <1>1, <1>2, PTL DEF Spec

(* Every variable keeps its type, a step that has come to start a container has a *)
(* service to start, there always is a fresh container id, a pull is counted at   *)
(* most MaxRetries times, and isApplyingState is set exactly while steps of the   *)
(* plan are left.                                                                 *)
THEOREM TypeCorrect == Spec => []TypeOK
<1>1. IInv => TypeOK
    BY TypeFromInvariant
<1> QED
    BY <1>1, Invariant, PTL

\* currentState tells of a service what Docker would.
LEMMA UpToDateSays ==
    ASSUME IInv, UpToDate, NEW s \in Services
    PROVE  /\ Exists(docker[s]) <=> current[s] # <<>>
           /\ current[s] # <<>> =>
                 /\ Last(current[s]) \in Entries
                 /\ Last(current[s]).image = docker[s].image
                 /\ Last(current[s]).status = docker[s].status
                 /\ Last(current[s]).state = StateOf(docker[s].status)
<1>1. current[s] \in Seq(Entries) /\ Listing[s] \in Seq(Entries) /\ DockerInv /\ CurrentInv
    BY ListingType DEF IInv, CurrentInv
<1>2. Listing[s] = IF Exists(docker[s]) THEN <<EntryOf(docker[s])>> ELSE <<>>
    BY DEF Listing
<1>3. Len(current[s]) = Len(Listing[s])
      /\ \A i \in DOMAIN current[s] : [current[s][i] EXCEPT !.probed = FALSE] = Listing[s][i]
    BY DEF UpToDate
<1>4. CASE ~Exists(docker[s])
    <2>1. current[s] = <<>>
        BY <1>1, <1>2, <1>3, <1>4
    <2> QED
        BY <1>4, <2>1
<1>5. CASE Exists(docker[s])
    <2> DEFINE e == current[s][1]
               c == EntryOf(docker[s])
    <2>1. Len(current[s]) = 1 /\ Listing[s][1] = c
        BY <1>2, <1>3, <1>5
    <2>2. current[s] # <<>> /\ 1 \in DOMAIN current[s] /\ e \in Entries
        <3> DEFINE q == current[s]
        <3>1. q \in Seq(Entries) /\ Len(q) = 1
            BY <1>1, <2>1
        <3> HIDE DEF q
        <3>2. q # <<>> /\ DOMAIN q = 1 .. 1 /\ 1 \in 1 .. Len(q)
            BY <3>1
        <3>3. q[1] \in Entries
            BY <3>1, <3>2, ElementOfSeq
        <3> QED
            BY <3>2, <3>3 DEF q
    <2>3. [e EXCEPT !.probed = FALSE] = c
        BY <1>3, <2>1, <2>2
    <2>4. Last(current[s]) = e
        BY <2>1 DEF Last
    <2>5. c.image = docker[s].image /\ c.status = docker[s].status
          /\ c.state = StateOf(docker[s].status)
        BY DEF EntryOf
    <2> HIDE DEF e, c
    <2>6. e.image = c.image /\ e.status = c.status /\ e.state = c.state
        <3> DEFINE f == [e EXCEPT !.probed = FALSE]
        <3>1. e.image = f.image /\ e.status = f.status /\ e.state = f.state
            BY <2>2 DEF Entries
        <3> QED
            BY <2>3, <3>1
    <2> QED
        BY <1>5, <2>2, <2>4, <2>5, <2>6
<1> QED
    BY <1>4, <1>5

\* An update that finds nothing to do about a service.
LEMMA NothingToUpdate ==
    ASSUME CurrentInv, NEW s \in Services, NEW want \in [Services -> Wanted \cup {Absent}],
           UpdateSteps(s, want) = <<>>
    PROVE  /\ current[s] = <<>> => ~(want[s].state = "running" /\ ShouldRetry(want[s].image))
           /\ current[s] # <<>> =>
                 /\ want[s] \in Wanted
                 /\ Last(current[s]).state = want[s].state
                 /\ Last(current[s]).image = want[s].image
                 /\ Last(current[s]).status # "exited"
<1>0. want[s] \in Wanted \cup {Absent}
    OBVIOUS
<1>1. CASE current[s] = <<>>
    <2>1. SUFFICES ASSUME want[s].state = "running", ShouldRetry(want[s].image) PROVE FALSE
        BY <1>1
    <2>2. want[s] \in Wanted
        BY <1>0, <2>1 DEF Absent
    <2>3. UpdateSteps(s, want) = Install(s, want[s])
        BY <1>1, <2>1 DEF UpdateSteps
    <2> QED
        BY <2>2, <2>3, InstallType
<1>2. CASE current[s] # <<>>
    <2> DEFINE entry == Last(current[s])
    <2>1. entry \in Entries
        BY <1>2, LastEntry
    <2>2. UpdateSteps(s, want) =
            IF want[s] = Absent THEN TakeDown(s, entry.id)
            ELSE IF entry.state # want[s].state THEN TransitionSteps(s, entry, want[s])
            ELSE RecreateSteps(s, entry, want[s])
        BY <1>2 DEF UpdateSteps
    <2> HIDE DEF entry
    <2>3. entry.id \in Nat
        BY <2>1 DEF Entries
    <2>4. want[s] # Absent
        BY <2>2, <2>3, TakeDownType
    <2>5. want[s] \in Wanted
        BY <1>0, <2>4
    <2>6. entry.state = want[s].state
        BY <2>1, <2>2, <2>4, <2>5, TransitionType
    <2>7. RecreateSteps(s, entry, want[s]) = <<>>
        BY <2>2, <2>4, <2>6
    <2>8. entry.image = want[s].image /\ entry.status # "exited"
        BY <2>1, <2>5, <2>7, RecreateType
    <2> QED
        BY <1>2, <2>5, <2>6, <2>8 DEF entry
<1> QED
    BY <1>1, <1>2

LEMMA SettledCases ==
    ASSUME NEW s \in Services, target[s] \in Wanted \cup {Absent}
    PROVE  /\ target[s] = Absent /\ ~Exists(docker[s]) => Settled(s)
           /\ target[s] \in Wanted /\ target[s].state # "running" /\ ~Exists(docker[s]) => Settled(s)
           /\ /\ target[s] \in Wanted /\ docker[s].image = target[s].image
              /\ \/ target[s].state = "running" /\ docker[s].status = "running"
                 \/ target[s].state = "paused" /\ docker[s].status = "paused"
              => Settled(s)
<1>1. CASE target[s] = Absent
    <2>1. Settled(s) <=> ~Exists(docker[s])
        BY <1>1 DEF Settled, Absent
    <2>2. target[s] \notin Wanted
        BY <1>1 DEF Absent, Wanted, ServiceStates
    <2> QED
        BY <2>1, <2>2
<1>2. CASE target[s] \in Wanted /\ target[s] # Absent
    <2>1. target[s].state \in {"running", "stopped", "paused"}
        BY <1>2 DEF Wanted, ServiceStates
    <2>2. CASE target[s].state = "running"
        BY <1>2, <2>2 DEF Settled
    <2>3. CASE target[s].state = "paused"
        BY <1>2, <2>3 DEF Settled
    <2>4. CASE target[s].state = "stopped"
        BY <1>2, <2>4 DEF Settled
    <2> QED
        BY <2>1, <2>2, <2>3, <2>4
<1> QED
    BY <1>1, <1>2

LEMMA NothingToDoSettles == IInv => NothingToDoMeansSettled
<1> SUFFICES ASSUME IInv, NothingToDo, NEW s \in Services
             PROVE  Settled(s) \/ ~PullsAllowed(s) \/ docker[s].status = "created"
    BY DEF NothingToDoMeansSettled
<1>1. target \in [Services -> Wanted \cup {Absent}] /\ CurrentInv /\ DockerInv /\ UpToDate
      /\ Plan(target) = <<>>
    BY DEF IInv, RestInv, NothingToDo
<1>2. \A t \in Services : Part(t, target) = <<>>
    BY <1>1, PlanType
<1>3. target[s] \in Wanted \cup {Absent} /\ docker[s].status \in DockerStates
    BY <1>1, ContainerOf
<1>4. Exists(docker[s]) <=> current[s] # <<>>
    BY <1>1, UpToDateSays
<1>5. CASE InCurrent /\ ~InTarget(target)
    <2>1. PICK t \in Services : current[t] # <<>>
        BY <1>5 DEF InCurrent
    <2>2. RemoveSteps(t) = <<>>
        BY <1>2, <1>5, PartCases
    <2> QED
        BY <1>1, <2>1, <2>2, RemoveStepsType
<1>6. CASE ~InCurrent /\ InTarget(target)
    <2>1. ~Exists(docker[s])
        BY <1>4, <1>6 DEF InCurrent
    <2>2. AddSteps(s, target) = <<>>
        BY <1>2, <1>6, PartCases
    <2>3. target[s].state # "running"
        <3>1. SUFFICES ASSUME target[s].state = "running" PROVE FALSE
            OBVIOUS
        <3>2. target[s] \in Wanted
            BY <1>3, <3>1 DEF Absent
        <3>3. Install(s, target[s]) = <<>>
            BY <2>2, <3>1 DEF AddSteps
        <3> QED
            BY <3>2, <3>3, InstallType
    <2> QED
        BY <1>3, <2>1, <2>3, SettledCases
<1>7. CASE InCurrent /\ InTarget(target)
    <2>1. UpdateSteps(s, target) = <<>>
        BY <1>2, <1>7, PartCases
    <2>2. CASE current[s] = <<>>
        <3>1. ~Exists(docker[s])
            BY <1>4, <2>2
        <3>2. ~(target[s].state = "running" /\ ShouldRetry(target[s].image))
            BY <1>1, <2>1, <2>2, NothingToUpdate
        <3>3. CASE target[s].state # "running"
            BY <1>3, <3>1, <3>3, SettledCases
        <3>4. CASE target[s].state = "running"
            <4>1. target[s] # Absent
                BY <3>4 DEF Absent
            <4> QED
                BY <3>2, <3>4, <4>1 DEF PullsAllowed
        <3> QED
            BY <3>3, <3>4
    <2>3. CASE current[s] # <<>>
        <3> DEFINE entry == Last(current[s])
        <3>1. /\ target[s] \in Wanted /\ entry.state = target[s].state
              /\ entry.image = target[s].image /\ entry.status # "exited"
            BY <1>1, <2>1, <2>3, NothingToUpdate
        <3>2. /\ entry.image = docker[s].image /\ entry.status = docker[s].status
              /\ entry.state = StateOf(docker[s].status)
            BY <1>1, <2>3, UpToDateSays
        <3> HIDE DEF entry
        <3>3. docker[s].status \in {"created", "running", "paused"}
            BY <1>3, <1>4, <2>3, <3>1, <3>2 DEF Exists, DockerStates
        <3>4. CASE docker[s].status = "running"
            <4>1. StateOf(docker[s].status) = "running"
                BY <3>4 DEF StateOf
            <4> QED
                BY <1>3, <3>1, <3>2, <3>4, <4>1, SettledCases
        <3>5. CASE docker[s].status = "paused"
            <4>1. StateOf(docker[s].status) = "paused"
                BY <3>5 DEF StateOf
            <4> QED
                BY <1>3, <3>1, <3>2, <3>5, <4>1, SettledCases
        <3> QED
            BY <3>3, <3>4, <3>5
    <2> QED
        BY <2>2, <2>3
<1>8. CASE ~InCurrent /\ ~InTarget(target)
    <2>1. target[s] = Absent /\ ~Exists(docker[s])
        BY <1>4, <1>8 DEF InCurrent, InTarget
    <2> QED
        BY <1>3, <2>1, SettledCases
<1> QED
    BY <1>5, <1>6, <1>7, <1>8

(* The planner is complete: for any number of services, when it sees what Docker   *)
(* would tell and plans no step, each service is as the target wants it, or its    *)
(* image may not be pulled now, or its container was created and never started.    *)
THEOREM PlannerIsComplete == Spec => []NothingToDoMeansSettled
<1>1. IInv => NothingToDoMeansSettled
    BY NothingToDoSettles
<1> QED
    BY <1>1, Invariant, PTL
=============================================================================
