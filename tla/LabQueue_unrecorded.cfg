CONSTANTS
    Jobs = {j1}
    Workers = {w1}
    MaxCopies = 1
    ApiFaults = TRUE
    Crashes = FALSE
    LongRuns = FALSE
SPECIFICATION FairSpec
PROPERTY DeletedAfterRecording
