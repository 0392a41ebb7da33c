CONSTANTS
    Jobs = {j1}
    Faults = FALSE
    AtomicStore = TRUE
SPECIFICATION FairSpec
PROPERTY OnlyActiveIsCancelled
