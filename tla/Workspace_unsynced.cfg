CONSTANTS
    Datasets = {d1}
    Models = {m1}
    Requests = {r1}
    MaxUploads = 1
    MaxWork = 2
    ApiFaults = FALSE
SPECIFICATION Spec
INVARIANT TrainedModelIsSynced
