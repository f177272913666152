\* Two API requests at a time and a run, one clip per run
SPECIFICATION Spec
CONSTANTS
    Projects = {p1}
    Clips = {c1, c2}
    Windows = {w1, w2}
    Tasks = {t1, t2, t3}
    Handlers = {h1, h2}
    TopN = 1
    UserOps = {"start", "regenerate", "deleteClip", "deleteProject"}
    Faults = {"broker", "childLost"}
    MaxRequests = 3
    MaxFaults = 1
    None = None
SYMMETRY MCSymmetry
INVARIANTS
    TypeOK
    RenderExclusive
    ReadyShowsWindow
    StartHoldsIdleProject
PROPERTIES
    ClipsAreQueued
