\* A late finalizer and an impatient user
SPECIFICATION Spec
CONSTANTS
    Projects = {p1}
    Clips = {c1, c2}
    Windows = {w1}
    Tasks = {t1, t2, t3, t4}
    Handlers = {h1}
    TopN = 2
    UserOps = {"start"}
    Faults = {}
    MaxRequests = 3
    MaxFaults = 0
    None = None
SYMMETRY MCSymmetry
INVARIANTS
    OneRunPerProject
