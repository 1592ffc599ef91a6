--------------------------- MODULE MCAgentRuntime ---------------------------
(***************************************************************************)
(* The parts of an agent's runtime, for TLC: the fleet on a reliable       *)
(* network, the tool policy engine, the provider registry and the room     *)
(* connector.  They share no state, so a behaviour of all of them is good  *)
(* if what it does to each part is; TLC looks at one part at a time, the   *)
(* subject, while the others rest.                                         *)
(***************************************************************************)
EXTENDS AgentFleet, ToolPolicy, ProviderRegistry, RoomConnector

VARIABLE subject     \* never changes

partVars == <<vars, toolVars, providerVars, roomVars, subject>>

Parts == {"fleet", "tools", "providers", "rooms"}

Init ==
    /\ FleetInit /\ ToolInit /\ ProviderInit /\ RoomInit
    /\ subject \in Parts
    /\ subject # "rooms" => connector = "node"

FleetMoves == subject = "fleet" /\ FleetNext /\ UNCHANGED <<toolVars, providerVars, roomVars, subject>>
ToolsMove == subject = "tools" /\ ToolNext /\ UNCHANGED <<vars, providerVars, roomVars, subject>>
ProvidersMove == subject = "providers" /\ ProviderNext /\ UNCHANGED <<vars, toolVars, roomVars, subject>>
RoomsMove == subject = "rooms" /\ RoomNext /\ UNCHANGED <<vars, toolVars, providerVars, subject>>

Next == FleetMoves \/ ToolsMove \/ ProvidersMove \/ RoomsMove

-----------------------------------------------------------------------------
InFleet == subject = "fleet"

\* A runner keeps taking its steps and has its calls answered; a handler, the
\* deployment's own code, settles sooner or later; time passes.  Neither the
\* clock of a fleet nor its heartbeats need be fair.
Fairness ==
    /\ \A w \in Workers :
        /\ WF_vars(InFleet /\ RunnerStep(w))
        /\ WF_vars(InFleet /\ HandlerStep(w))
    /\ WF_providerVars(subject = "providers" /\ ProviderTick)

PartsSpec == Init /\ [][Next]_partVars /\ Fairness
=============================================================================
