\* Runs, edits and deletions of one clip
SPECIFICATION FairSpec
CONSTANTS
    Projects = {p1}
    Clips = {c1}
    Windows = {w1}
    Tasks = {t1, t2, t3}
    Handlers = {h1}
    TopN = 1
    UserOps = {"start", "regenerate", "deleteClip"}
    Faults = {}
    MaxRequests = 3
    MaxFaults = 0
    None = None
PROPERTIES
    RenderEnds
