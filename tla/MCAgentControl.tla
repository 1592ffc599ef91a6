--------------------------- MODULE MCAgentControl ---------------------------
(* Small instances of AgentControl for TLC. *)
EXTENDS AgentControl, TLC

\* Workers are interchangeable: no operation compares two of them.  (Artifacts
\* and environments are kept apart, they are few.)
WorkerSymmetry == Permutations(Workers)
=============================================================================
