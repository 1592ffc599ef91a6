\* Two recordings, nothing fails.
SPECIFICATION Spec
CONSTANTS
    Kinds = {"egress"}
    Keys = {k1}
    Bodies = {b1}
    NoBody = NoBody
    Limit <- Unlimited
    MaxJobs = 2
    BatchSize = 2
    Lossy = FALSE
    MaxQueue = 2
    MaxDeletions = 2
    MaxRestarts = 0
PROPERTIES DeletionStays
