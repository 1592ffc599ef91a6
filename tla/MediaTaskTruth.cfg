SPECIFICATION Spec
CONSTANTS
    Kinds = {"ingress"}
    Keys = {k1}
    Bodies = {b1}
    NoBody = NoBody
    Limit <- TwoJobsEach
    MaxJobs = 1
    Handlers = {h1, h2}
    Callbacks = {"starting", "active"}
    HasProvider = TRUE
    Lossy = FALSE
    MaxRestarts = 0
INVARIANTS TaskIsTruth
