------------------------- MODULE MCContainerManager -------------------------
(***************************************************************************)
(* ContainerManager with an app that is absent as a whole, or whose first  *)
(* service may be absent, wanted in any state with image i1, or running    *)
(* with another image, while the other services are to run.                *)
(***************************************************************************)
EXTENDS ContainerManager, TLC

CONSTANT i1

MCTargets ==
    {[s \in Services |-> Absent]} \cup
    {t \in [Services -> Wanted \cup {Absent}] :
        /\ t[1] = Absent \/ t[1].image = i1 \/ t[1].state = "running"
        /\ \A s \in Services \ {1} : t[s] = [image |-> i1, state |-> "running"]}

\* The device is new, or the app runs.
MCInitial ==
    {[s \in Services |-> Absent], [s \in Services |-> [image |-> i1, state |-> "running"]]}

\* The app is to run.
MCRunning == {[s \in Services |-> [image |-> i1, state |-> "running"]]}
=============================================================================
