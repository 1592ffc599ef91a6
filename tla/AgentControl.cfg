\* Two workers in two environments, one deployment, two rules, two dispatches.
CONSTANTS
    Workers = {w1, w2}
    Envs = {e1, e2}
    Artifacts = {a1}
    Triggers = {joined}
    Caps = {1}
    None = None
    Horizon = 2
    MaxDeployments = 1
    MaxRules = 2
    MaxDispatches = 2
SYMMETRY WorkerSymmetry
SPECIFICATION ControlSpec
INVARIANTS Ownership RuleCapHolds
PROPERTIES DispatchLifecycle ClaimServesTheEarliest
