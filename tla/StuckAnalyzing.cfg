\* A clip is deleted while its render waits
SPECIFICATION Spec
CONSTANTS
    Projects = {p1}
    Clips = {c1}
    Windows = {w1}
    Tasks = {t1, t2, t3}
    Handlers = {h1}
    TopN = 1
    UserOps = {"start", "deleteClip"}
    Faults = {}
    MaxRequests = 2
    MaxFaults = 0
    None = None
INVARIANTS
    AnalyzingIsDriven
