---------------------------- MODULE MCAgentFleet ----------------------------
(***************************************************************************)
(* Small instances of the agent fleet for TLC.  A fleet has workers of one *)
(* runtime, Node (AgentFleet) or Python (PythonWorker).                    *)
(***************************************************************************)
EXTENDS PythonWorker, TLC

VARIABLE runtime     \* never changes

fleetVars == <<vars, pyVars, runtime>>

Init == FleetInit /\ PyInit /\ runtime \in {"node", "python"}

Next ==
    \/ runtime = "node" /\ FleetNext /\ UNCHANGED <<pyVars, runtime>>
    \/ runtime = "python" /\ PyNext /\ UNCHANGED runtime

FleetsSpec == Init /\ [][Next]_fleetVars

\* Workers are interchangeable, and so are processes, in the safety runs.
FleetSymmetry == Permutations(Workers) \cup Permutations(PyProcesses)
=============================================================================
