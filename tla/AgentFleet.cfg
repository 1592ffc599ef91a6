\* Two workers, one dispatch, lossy network, a crash, shutdowns, a restart of the control plane.
CONSTANTS
    Workers = {w1, w2}
    Envs = {e1}
    Artifacts = {a1}
    Triggers = {}
    Caps = {1}
    None = None
    Horizon = 1
    MaxDeployments = 1
    MaxRules = 0
    MaxDispatches = 1
    Lossy = TRUE
    Stops = TRUE
    MaxCrashes = 1
    MaxRestarts = 1
    PyProcesses = {p1, p2}
SYMMETRY FleetSymmetry
SPECIFICATION FleetsSpec
INVARIANTS ListsOK ExclusiveWork CompletedWasDone HeldIsDurable PyWorkIsExclusive
PROPERTIES DurableEndIsFinal
\* A fleet whose workers have all stopped or crashed takes no more steps.
CHECK_DEADLOCK FALSE
