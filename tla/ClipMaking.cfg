\* One source of up to three segments, in one request or two or three parts; two clips kept
SPECIFICATION Spec
CONSTANTS
    PartSize = 2
    Fragments = {"statement"}
    Speeches <- MCSpeeches
    Audios <- MCAudios
    TopN = 2
    Endings <- MCEndings
    Weight <- MCWeight
    NaN = NaN
    Blank = "blank"
    Replies <- MCReplies
    EditTimes <- MCEditTimes
INVARIANTS
    TypeOK
    SpeechInPlace
    SpeechGivesAClip
    WindowsEndWell
    ReplyWindowsBounded
    BestAreKept
    CaptionsInSync
    NoTemporaryFiles
