-------------------------- MODULE StoreAndForward --------------------------
(***************************************************************************)
(* What a store-and-forward stage promises about the items it takes in,    *)
(* whatever it does inside.  The agent's telemetry path and the cloud's    *)
(* ingestion worker are both shown to implement it.                        *)
(*                                                                         *)
(* An item is taken once.  From then on it is held, or it has reached the  *)
(* other side, or the stage has given it up; it may be delivered again     *)
(* while it is held (at least once), but it never stops being held without *)
(* being delivered or given up, and what was given up or delivered stays   *)
(* so.                                                                     *)
(***************************************************************************)
CONSTANT Items

VARIABLES
    taken,               \* the items the stage was given
    held,                \* the items it has a copy of
    delivered,           \* the items that reached the other side
    givenUp              \* the items of which it dropped a copy

sfVars == <<taken, held, delivered, givenUp>>

Init == taken = {} /\ held = {} /\ delivered = {} /\ givenUp = {}

\* Items arrive, and the stage keeps a copy of each or gives it up at once.
Take(S) ==
    /\ S \subseteq Items \ taken
    /\ taken' = taken \cup S

\* Items that are held reach the other side.
Deliver(S) ==
    /\ S \subseteq held
    /\ delivered' = delivered \cup S

\* Copies of items that are held are dropped.
GiveUp(S) ==
    /\ S \subseteq held \cup (taken' \ taken)
    /\ givenUp' = givenUp \cup S

\* One step of the stage: any of the three at once, after which each item that
\* was held or came in is held, delivered or given up, and nothing else is held.
Next ==
    /\ \E S \in SUBSET Items : Take(S)
    /\ \E S \in SUBSET Items : Deliver(S)
    /\ \E S \in SUBSET Items : GiveUp(S)
    /\ held' \subseteq held \cup (taken' \ taken)
    /\ held \cup (taken' \ taken) \subseteq held' \cup delivered' \cup givenUp'

Spec == Init /\ [][Next]_sfVars
=============================================================================
