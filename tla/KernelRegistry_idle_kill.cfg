CONSTANTS
    Users = {u1}
    Kernels = {p1, p2}
    Requests = {r1, r2}
    MaxKernels = 2
    Faulty = {}
    Slow = {}
SPECIFICATION FairSpec
PROPERTY IdleShutdownOnlyIdle
