CONSTANTS
    Jobs = {j1, j2}
    Faults = FALSE
    AtomicStore = TRUE
SPECIFICATION FairSpec
INVARIANTS ActiveHasOwner NewestRunAgrees
PROPERTIES RegistryIsDurable UncancelledJobSettles
