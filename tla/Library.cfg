\* Two ids, two stored files and two requests at a time; every run overruns the minutes.
SPECIFICATION FairSpec
CONSTANTS
    Projects = {p1, p2}
    Files = {f1, f2}
    Handlers = {h1, h2}
    RunMinutes = 70
    RunClips = 8
    MinutesLimit = 60
    ClipsLimit = 20
    Together = 2
    MaxRequests = 3
    MaxFaults = 1
    None = None
INVARIANTS
    TypeOK
    SourceOnDisk
    FilesAccountedFor
    NoDownloadLeft
    OverrunBounded
PROPERTIES
    DeletionKeepsUsage
    RequestsAnswered
