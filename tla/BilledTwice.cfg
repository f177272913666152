\* The last two renders of a run finish together
SPECIFICATION Spec
CONSTANTS
    Projects = {p1}
    Clips = {c1, c2}
    Windows = {w1}
    Tasks = {t1, t2, t3}
    Handlers = {h1}
    TopN = 2
    UserOps = {"start"}
    Faults = {}
    MaxRequests = 1
    MaxFaults = 0
    None = None
INVARIANTS
    BilledOnce
