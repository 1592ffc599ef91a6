\* Recordings and calls, two keys each, limit one; everything may fail; one restart.
SPECIFICATION Spec
CONSTANTS
    Kinds = {"egress", "call"}
    Keys = {k1, k2}
    Bodies = {b1}
    NoBody = NoBody
    Limit <- OneJobEach
    MaxJobs = 2
    Handlers = {h1, h2}
    Callbacks = {"starting", "completed"}
    HasProvider = TRUE
    Lossy = TRUE
    MaxRestarts = 1
SYMMETRY Symmetry
INVARIANTS JobsOK LimitHolds OnceWhileUp AnsweredIsDurable
PROPERTIES JobsMoveForward
CONSTRAINT OneKind
