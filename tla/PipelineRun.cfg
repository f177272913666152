\* Two runs of a project whose user waits and may delete it
SPECIFICATION PatientFairSpec
CONSTANTS
    Projects = {p1}
    Clips = {c1, c2, c3}
    Windows = {w1}
    Tasks = {t1, t2, t3}
    Handlers = {h1}
    TopN = 2
    UserOps = {"start", "deleteProject"}
    Faults = {"broker"}
    MaxRequests = 2
    MaxFaults = 0
    None = None
INVARIANTS
    AnalyzingIsDriven
    AtMostTopN
    OneRunPerProject
    ReadyIsBilled
PROPERTIES
    ReadyOnlyWhenSettled
    NoRunningJobLeftBehind
    RunEnds
