\* Two workers that stay up, two dispatches, a reliable network; two processes with tools; two
\* providers and two callers; three joins of one dispatch.
CONSTANTS
    Workers = {w1, w2}
    Envs = {e1}
    Artifacts = {a1}
    Triggers = {}
    Caps = {1}
    None = None
    Horizon = 1
    MaxDeployments = 1
    MaxRules = 0
    MaxDispatches = 2
    Lossy = FALSE
    Stops = FALSE
    MaxCrashes = 0
    MaxRestarts = 0
    ToolProcesses = {p1, p2}
    ToolKeys = {k1}
    MaxToolRuns = 2
    Invocations = {c1, c2}
    NumProviders = 2
    FailureThreshold = 2
    Cooldown = 2
    MaxJoins = 3
SPECIFICATION PartsSpec
INVARIANTS ToolRunsOnce FailoverIsExhaustive RoomsAccounted
PROPERTIES QueuedIsServed OpenCircuitCloses
\* A fleet whose workers have nothing to do, and a worker that has made all its joins, rest.
CHECK_DEADLOCK FALSE
