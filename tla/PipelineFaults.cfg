\* One API process, a redelivered message or a lost worker
SPECIFICATION Spec
CONSTANTS
    Projects = {p1}
    Clips = {c1, c2}
    Windows = {w1}
    Tasks = {t1, t2, t3}
    Handlers = {h1}
    TopN = 2
    UserOps = {"start", "regenerate", "deleteClip", "deleteProject"}
    Faults = {"broker", "redeliver", "workerLost"}
    MaxRequests = 2
    MaxFaults = 1
    None = None
SYMMETRY MCSymmetry
INVARIANTS
    TranscribingIsDriven
    RenderingIsDriven
