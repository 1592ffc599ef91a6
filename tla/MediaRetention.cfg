\* Two recordings, one object the storage may never delete; everything may fail; one restart.
SPECIFICATION LiveSpec
CONSTANTS
    Kinds = {"egress"}
    Keys = {k1}
    Bodies = {b1}
    NoBody = NoBody
    Limit <- Unlimited
    MaxJobs = 2
    BatchSize = 2
    Lossy = TRUE
    MaxQueue = 1
    MaxDeletions = 2
    MaxRestarts = 1
INVARIANTS MarkedWasDeleted AnsweredEndIsDurable DeletedOnce
PROPERTIES ExpiredIsDeleted
