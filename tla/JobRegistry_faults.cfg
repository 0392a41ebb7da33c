CONSTANTS
    Jobs = {j1, j2}
    Faults = TRUE
    AtomicStore = FALSE
SPECIFICATION Spec
INVARIANTS TypeOK RetryableStartsNoTraining
PROPERTY CancelInTimePreventsWork
