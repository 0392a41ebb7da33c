SPECIFICATION SelSpec
CONSTANTS
    Projects = {p1}  NewProjects = {n1}  None = None  MaxLoads = 2  MaxSaves = 2
INVARIANT LockStands
CHECK_DEADLOCK FALSE
