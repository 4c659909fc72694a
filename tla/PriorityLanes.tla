---------------------------- MODULE PriorityLanes ----------------------------
(***************************************************************************)
(* What JupiterLimiter promises its callers, with the queues, timers and   *)
(* retries left out: a request waits, may start when its lane has a free   *)
(* slot and no protective request is kept waiting for it, and is settled   *)
(* once, whether it started or not.  JupiterLimiter implements it.         *)
(***************************************************************************)
EXTENDS Naturals, FiniteSets

CONSTANTS
    Sells,            \* protective requests
    Buys,             \* opportunistic requests
    Cap               \* slots of a lane

VARIABLES waiting, running, settled

lanes == <<waiting, running, settled>>

LaneOf(r) == IF r \in Sells THEN Sells ELSE Buys

LanesInit == waiting = {} /\ running = {} /\ settled = {}

Arrive(r) ==
    /\ r \notin waiting \union running \union settled
    /\ waiting' = waiting \union {r}
    /\ UNCHANGED <<running, settled>>

\* A full lane answers at once.
Refuse(r) ==
    /\ r \notin waiting \union running \union settled
    /\ settled' = settled \union {r}
    /\ UNCHANGED <<waiting, running>>

Start(r) ==
    /\ r \in waiting
    /\ r \in Sells \/ waiting \intersect Sells = {}
    /\ Cardinality(running \intersect LaneOf(r)) < Cap
    /\ waiting' = waiting \ {r}
    /\ running' = running \union {r}
    /\ UNCHANGED settled

GiveUp(r) ==
    /\ r \in waiting
    /\ waiting' = waiting \ {r}
    /\ settled' = settled \union {r}
    /\ UNCHANGED running

Finish(r) ==
    /\ r \in running
    /\ running' = running \ {r}
    /\ settled' = settled \union {r}
    /\ UNCHANGED waiting

LanesNext ==
    \E r \in Sells \union Buys :
        Arrive(r) \/ Refuse(r) \/ Start(r) \/ GiveUp(r) \/ Finish(r)

LanesSpec == LanesInit /\ [][LanesNext]_lanes
=============================================================================
