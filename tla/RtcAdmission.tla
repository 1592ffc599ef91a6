---------------------------- MODULE RtcAdmission ----------------------------
(***************************************************************************)
(* Which RTC node a room token is for: the choice among regions and nodes  *)
(* (YujianRegionRouter), the admission by load (YujianRtcCapacity-         *)
(* Controller) and the probes (YujianRtcNodePool) of packages/             *)
(* livekit-compat, as the routes /readyz and room-tokens of services/      *)
(* platform-api use them.                                                  *)
(*                                                                         *)
(* A node's usage has five figures, each compared with its limit: rooms    *)
(* stands for the one that probes report, load for the four that only      *)
(* updateUsage sets.  Both have the limit Limit, so the greater of the two *)
(* is the utilization.  The token route awaits nothing between router and  *)
(* controller, so its choice is one step.                                  *)
(***************************************************************************)
EXTENDS Integers, FiniteSets

CONSTANTS
    NumNodes,        \* nodes are numbered in the order of the pool
    BestNodes,       \* the nodes whose capacityScore is highest
    Limit,
    Figures          \* values a usage figure can have

ASSUME AdmissionAssumption ==
    /\ NumNodes \in Nat \ {0}
    /\ BestNodes \subseteq 1 .. NumNodes /\ BestNodes # {}
    /\ Limit \in Nat /\ Figures \subseteq Nat /\ 0 \in Figures

VARIABLES
    states,          \* the controller's Map
    routerCursor,
    decision,        \* what the last token request came to
    drainOrdered,    \* history: nodes ordered to drain
    reports,         \* history: the last figures given for each node
    lead             \* history: how far a best node's picks are ahead of the least

rtcVars == <<states, routerCursor, decision, drainOrdered, reports, lead>>

RtcNodes == 1 .. NumNodes
Unseen == [seen |-> FALSE, rooms |-> 0, load |-> 0, draining |-> FALSE]
NoDecision == [kind |-> "none", node |-> 0]

AdmissionTypeOK ==
    /\ states \in [RtcNodes -> [seen : BOOLEAN, rooms : Figures, load : Figures, draining : BOOLEAN]]
    /\ routerCursor \in 0 .. Cardinality(BestNodes) - 1
    /\ decision.kind \in {"none", "preferred", "fallback", "refused", "unknown"}
    /\ decision.node \in 0 .. NumNodes
    /\ drainOrdered \subseteq RtcNodes
    /\ reports \in [RtcNodes -> [rooms : Figures, load : Figures]]
    /\ lead \in [BestNodes -> Nat]

AdmissionInit ==
    /\ states = [n \in RtcNodes |-> Unseen]
    /\ routerCursor = 0
    /\ decision = NoDecision
    /\ drainOrdered = {}
    /\ reports = [n \in RtcNodes |-> [rooms |-> 0, load |-> 0]]
    /\ lead = [n \in BestNodes |-> 0]

-----------------------------------------------------------------------------
(* The controller. *)

\* Mutation: a probe forgets that a node drains.
ObservedAfresh(n, rooms) ==
    [seen |-> TRUE, rooms |-> rooms, load |-> states[n].load, draining |-> FALSE]

\* A probe brings the number of rooms and keeps the rest of what is known.
Observed(n, rooms) ==
    [seen |-> TRUE, rooms |-> rooms, load |-> states[n].load, draining |-> states[n].draining]

\* A readiness probe ends.  It asked every node of the pool; its figures may
\* be older than those of a probe that ended before.
Observe ==
    /\ \E figures \in [RtcNodes -> Figures] :
        /\ states' = [n \in RtcNodes |-> Observed(n, figures[n])]
        /\ reports' = [n \in RtcNodes |-> [reports[n] EXCEPT !.rooms = figures[n]]]
    /\ decision' = NoDecision
    /\ UNCHANGED <<routerCursor, drainOrdered, lead>>

\* One node does not answer: 503, and the controller is not told.
NotReady ==
    /\ decision # NoDecision
    /\ decision' = NoDecision
    /\ UNCHANGED <<states, routerCursor, drainOrdered, reports, lead>>

UpdateUsage(n) ==
    /\ states[n].seen
    /\ \E rooms, load \in Figures :
        /\ states' = [states EXCEPT ![n].rooms = rooms, ![n].load = load]
        /\ reports' = [reports EXCEPT ![n] = [rooms |-> rooms, load |-> load]]
    /\ decision' = NoDecision
    /\ UNCHANGED <<routerCursor, drainOrdered, lead>>

SetDraining(n, draining) ==
    /\ states[n].seen
    /\ states' = [states EXCEPT ![n].draining = draining]
    /\ drainOrdered' = IF draining THEN drainOrdered \cup {n} ELSE drainOrdered \ {n}
    /\ decision' = NoDecision
    /\ UNCHANGED <<routerCursor, reports, lead>>

Utilization(usage) == IF usage.rooms > usage.load THEN usage.rooms ELSE usage.load

\* decide: probes only ever report nodes that are healthy.
Admitted(n) == ~states[n].draining /\ Utilization(states[n]) <= Limit

\* choose: the least utilized of the nodes that admit.
Fallbacks ==
    LET admitting == {n \in RtcNodes : states[n].seen /\ Admitted(n)}
    IN  {n \in admitting : \A m \in admitting : Utilization(states[n]) <= Utilization(states[m])}

-----------------------------------------------------------------------------
(* A token request. *)

\* The best nodes in the order of the pool.
BestNode(i) == CHOOSE n \in BestNodes : Cardinality({m \in BestNodes : m < n}) = i

\* The lead is counted from the least picked node.
LeadAfter(n) ==
    LET picked == [lead EXCEPT ![n] = @ + 1]
        least == CHOOSE x \in {picked[m] : m \in BestNodes} : \A m \in BestNodes : x <= picked[m]
    IN  [m \in BestNodes |-> picked[m] - least]

\* Array.sort is stable: among equals it is the first that was observed, and
\* which one that is depends on the order of the statuses.
RouteToken ==
    /\ LET n == BestNode(routerCursor) IN
        /\ routerCursor' = (routerCursor + 1) % Cardinality(BestNodes)
        /\ lead' = LeadAfter(n)
        /\ \/ ~states[n].seen /\ decision' = [kind |-> "unknown", node |-> n]
           \/ /\ states[n].seen /\ Admitted(n)
              /\ decision' = [kind |-> "preferred", node |-> n]
           \/ /\ states[n].seen /\ ~Admitted(n)
              /\ \/ \E m \in Fallbacks : decision' = [kind |-> "fallback", node |-> m]
                 \/ Fallbacks = {} /\ decision' = [kind |-> "refused", node |-> n]
    /\ UNCHANGED <<states, drainOrdered, reports>>

AdmissionNext ==
    \/ Observe \/ NotReady \/ RouteToken
    \/ \E n \in RtcNodes :
        UpdateUsage(n) \/ \E draining \in BOOLEAN : SetDraining(n, draining)

AdmissionSpec == AdmissionInit /\ [][AdmissionNext]_rtcVars

-----------------------------------------------------------------------------
(* Properties. *)

Overloaded(n) == reports[n].rooms > Limit \/ reports[n].load > Limit

\* A token is never for a node that was ordered to drain or whose last figures
\* are beyond a limit, whatever probes end in between; a request is refused
\* only when that holds of every node; and nodes of equal score take turns
\* (capacity-controller.ts:65-156, region-router.ts:17-24).
TokensGoToOpenNodes ==
    /\ AdmissionTypeOK
    /\ decision.kind \in {"preferred", "fallback"} =>
        decision.node \notin drainOrdered /\ ~Overloaded(decision.node)
    /\ decision.kind = "refused" =>
        \A n \in RtcNodes : n \in drainOrdered \/ Overloaded(n)
    /\ \A n \in BestNodes : lead[n] <= 1
=============================================================================
