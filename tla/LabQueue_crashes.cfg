CONSTANTS
    Jobs = {j1}
    Workers = {w1, w2}
    MaxCopies = 1
    ApiFaults = FALSE
    Crashes = TRUE
    LongRuns = FALSE
SPECIFICATION FairSpec
INVARIANTS NoConcurrentTraining GoneMeansFinished
PROPERTY EventuallyFinished
