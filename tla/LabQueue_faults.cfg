CONSTANTS
    Jobs = {j1}
    Workers = {w1, w2}
    MaxCopies = 2
    ApiFaults = TRUE
    Crashes = FALSE
    LongRuns = TRUE
SPECIFICATION Spec
SYMMETRY Symmetry
INVARIANTS TypeOK CompletedHasArtifacts QueueFollowsRoute RowAgreesWithJournal
PROPERTY PolledStatusRerunnable
