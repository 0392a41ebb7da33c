CONSTANTS
    Datasets = {d1}
    Models = {m1}
    Requests = {r1, r2}
    MaxUploads = 2
    MaxWork = 2
    ApiFaults = TRUE
SPECIFICATION Spec
SYMMETRY Symmetry
INVARIANTS
    TypeOK
    DatasetIsRecent
    SyncedModelSurvives
