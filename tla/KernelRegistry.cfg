CONSTANTS
    Users = {u1, u2}
    Kernels = {p1, p2, p3}
    Requests = {r1, r2}
    MaxKernels = 1
    Faulty = {p1}
    Slow = {p1}
SPECIFICATION FairSpec
INVARIANTS TypeOK WithinQuota OneExecutionAtATime NoOrphanProcess
PROPERTIES NoKernelIsReplaced JanitorPicksUnused UnregisteredDies
