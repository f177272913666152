\* The highlight task is lost after its commit and runs again
SPECIFICATION FairSpec
CONSTANTS
    Projects = {p1}
    Clips = {c1, c2}
    Windows = {w1}
    Tasks = {t1, t2, t3}
    Handlers = {h1}
    TopN = 1
    UserOps = {"start"}
    Faults = {"workerLost"}
    MaxRequests = 1
    MaxFaults = 1
    None = None
PROPERTIES
    RunEnds
