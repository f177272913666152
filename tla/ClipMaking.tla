---- MODULE ClipMaking ----
(***************************************************************************)
(* What one run makes of one source: its speech becomes a transcript, the  *)
(* transcript a few windows, each window a captioned video; a user may then *)
(* move a window and have it rendered again.  The composition of           *)
(* Transcription, Highlights and Captions, in the order in which the tasks *)
(* of tasks/pipeline.py call them; who may run them at the same time is    *)
(* the subject of Pipeline.                                                *)
(***************************************************************************)
EXTENDS Transcription, Highlights, Captions, SequencesExt

CONSTANTS
    Replies,   \* what the LLM may answer: sequences of suggested moments
    EditTimes  \* times a user may move the ends of a clip to

\* What is said has a beginning, an end and a text, lies inside the track and is given
\* in order; an LLM may give any numbers.
Texts == DOMAIN Weight
Segments == [start : Nat, end : Nat, text : Texts]
ASSUME SpeechAssumption == \A s \in Speeches :
    /\ s \in Seq(Segments)
    /\ \A i \in DOMAIN s : s[i].start < s[i].end /\ \A a \in Audios : s[i].end <= a.duration
    /\ \A i, j \in DOMAIN s : i < j => s[i].start <= s[j].start
ASSUME FragmentAssumption == Fragments \subseteq Texts
ASSUME ReplyAssumption == Replies \subseteq Seq([at : Int \cup {NaN}, score : Int \cup {NaN}])
ASSUME NumberAssumption == Weight \in [Texts -> Nat] /\ TopN \in Nat \ {0} /\ EditTimes \subseteq Int

VARIABLES
    stage,       \* how far the run is
    transcript,  \* projects.transcript_segments
    reply,       \* the LLM's suggestions, while they are being selected from
    picks,       \* the candidates selected
    clips        \* the windows of the clips rows and the snippet stored with them

runVars == <<stage, transcript, reply, picks, clips>>
vars == <<asrVars, captionVars, runVars>>

\* Without an answer of the LLM the heuristic detector is used.
NoReply == <<>>

ClipMakingTypeOK ==
    /\ stage \in {"transcribing", "analyzing", "byHeuristic", "byReply", "made", "failed"}
    /\ reply \in Replies \cup {NoReply}
    /\ \A c \in picks : c.start \in Int /\ c.end \in Int /\ c.score \in Int
    /\ \A c \in clips : c.start \in Int /\ c.end \in Int

TypeOK == TranscriptionTypeOK /\ CaptionsTypeOK /\ ClipMakingTypeOK

Init ==
    /\ TranscriptionInit
    /\ CaptionsInit
    /\ stage = "transcribing"
    /\ transcript = <<>>
    /\ reply = NoReply
    /\ picks = {}
    /\ clips = {}

----
Transcribe ==
    /\ stage = "transcribing"
    /\ TranscriptionStep
    /\ UNCHANGED <<captionVars, runVars>>

\* transcribe_project keeps the segments and hands them to the detection task.
KeepTranscript ==
    /\ stage = "transcribing" /\ asr = "done" /\ heard # <<>>
    /\ stage' = "analyzing"
    /\ transcript' = heard
    /\ UNCHANGED <<asrVars, captionVars, reply, picks, clips>>

TranscriptionFails ==
    /\ stage = "transcribing"
    /\ asr = "raised" \/ (asr = "done" /\ heard = <<>>)
    /\ stage' = "failed"
    /\ UNCHANGED <<asrVars, captionVars, transcript, reply, picks, clips>>

\* Without a key, and when the call or its answer is unusable.
DetectByHeuristic ==
    /\ stage = "analyzing"
    /\ picks' = HeuristicPicks(transcript)
    /\ stage' = "byHeuristic"
    /\ UNCHANGED <<asrVars, captionVars, transcript, reply, clips>>

DetectByReply ==
    /\ stage = "analyzing"
    /\ \E r \in Replies : reply' = r /\ picks' = LlmPicks(transcript, r)
    /\ stage' = "byReply"
    /\ UNCHANGED <<asrVars, captionVars, transcript, clips>>

Detected == stage \in {"byHeuristic", "byReply"}

NothingPicked ==
    /\ Detected /\ picks = {}
    /\ stage' = "failed"
    /\ reply' = NoReply
    /\ UNCHANGED <<asrVars, captionVars, transcript, picks, clips>>

\* The texts of a window, which both detectors store as the clip's snippet.
Snippet(o, c) ==
    [i \in {k \in Covered(o, c.start, c.end) : o[k].text # Blank} |-> o[i].text]

CreateClips ==
    /\ Detected /\ picks # {}
    /\ clips' = {[start |-> c.start, end |-> c.end,
                  snippet |-> Snippet(Ordered(transcript), c)] : c \in picks}
    /\ stage' = "made"
    /\ reply' = NoReply
    /\ picks' = {}
    /\ UNCHANGED <<asrVars, captionVars, transcript>>

RenderClip ==
    /\ stage = "made"
    /\ \E c \in clips : WriteCaptions(transcript, c)
    /\ UNCHANGED <<asrVars, runVars>>

\* regenerate_clip after _validate_regeneration_window; projects.duration_seconds is the
\* probed duration without its fraction.  The snippet stays as it was.
MaxClipDuration == 15 * 60 * Second

ValidEdit(start, end) ==
    /\ 0 <= start /\ start < end
    /\ end - start <= MaxClipDuration
    /\ end <= (audio.duration \div Second) * Second

MoveWindow ==
    /\ stage = "made" /\ shot \in {"published", "failed"}
    /\ \E start, end \in EditTimes :
           /\ ValidEdit(start, end)
           /\ clips' = {[start |-> start, end |-> end, snippet |-> window.snippet]}
    /\ UNCHANGED <<asrVars, captionVars, stage, transcript, reply, picks>>

Render ==
    /\ CaptionStep
    /\ UNCHANGED <<asrVars, runVars>>

\* The run has failed, or its clips stand rendered.
AtRest ==
    /\ stage = "failed" \/ shot \in {"published", "failed"}
    /\ UNCHANGED vars

Next ==
    \/ Transcribe \/ KeepTranscript \/ TranscriptionFails
    \/ DetectByHeuristic \/ DetectByReply \/ NothingPicked \/ CreateClips
    \/ RenderClip \/ Render \/ MoveWindow \/ AtRest

Spec == Init /\ [][Next]_vars

----
(* Safety. *)

Marks(segments) == UNION {{segments[i].start, segments[i].end} : i \in DOMAIN segments}
Said(segments, t) ==
    {segments[i].text : i \in {k \in DOMAIN segments : segments[k].start <= t /\ t < segments[k].end}}

\* Where the audio was cut, and what was said across a cut.
Cuts == {k * (audio.duration \div Parts) : k \in 1..(Parts - 1)}
AcrossCut(s) == \E c \in Cuts : s.start < c /\ c < s.end
Spoken(t) == {k \in DOMAIN speech : speech[k].start <= t /\ t < speech[k].end}
SpokenWhole(t) == {k \in Spoken(t) : ~AcrossCut(speech[k])}

\* Cutting the audio into parts neither loses nor shifts what no cut goes through: at every
\* moment the transcript says it, and nothing else unless something said across a cut is
\* being spoken then; and its segments are in order.  What was said across a cut may be
\* missing or misheard: the parts do not overlap.
SpeechInPlace ==
    stage # "transcribing" /\ transcript # <<>> =>
        /\ \A t \in Marks(transcript) \cup Marks(speech) :
               /\ \A k \in SpokenWhole(t) : speech[k].text \in Said(transcript, t)
               /\ SpokenWhole(t) = Spoken(t) => Said(transcript, t) = Said(speech, t)
        /\ \A i, j \in DOMAIN transcript : i < j => transcript[i].start <= transcript[j].start

\* A run never fails for want of highlights while the heuristic detector serves it and
\* something was said: every transcript of positive length gives it at least one window.
SpeechGivesAClip ==
    stage = "byHeuristic" =>
        LET o == Ordered(transcript)
        IN  TranscriptEnd(o) > TranscriptStart(o) => picks # {}

SentenceEnds(o, start) == {o[i].end : i \in {k \in DOMAIN o : EndsSentence(o[k]) /\ o[k].end > start}}

\* At one of these times, or, when that is past the end of the last segment, there: the
\* last to begin may not be the last to end.
EndsAmong(o, c, times) ==
    c.end \in times \/ (c.end = TranscriptEnd(o) /\ \E t \in times : t > c.end)

\* A clip ends with a sentence whenever one ends after its start, with one of 40 to 90
\* seconds when there is any such; it is cut in mid-sentence only where the last segment
\* ends or, an LLM's moment, at the ceiling of 90 seconds.  It has 40 to 90 seconds when a
\* sentence ends that far before the last segment does, and without any sentence it still
\* ends where some segment does.
WindowsEndWell ==
    Detected => \A c \in picks :
        LET o == Ordered(transcript)
            sentences == SentenceEnds(o, c.start)
            good == sentences \cap (c.start + MinClip)..(c.start + MaxClip)
            atCeiling == stage = "byReply" /\ c.end = c.start + MaxClip
        IN  /\ c.end <= TranscriptEnd(o)
            /\ good # {} => EndsAmong(o, c, good)
            /\ sentences # {} => EndsAmong(o, c, sentences) \/ atCeiling
            /\ (\E t \in good : t <= TranscriptEnd(o)) => c.end - c.start \in MinClip..MaxClip
            /\ c.end \in {o[i].end : i \in DOMAIN o} \/ atCeiling

\* An LLM's moment becomes a window of 5 to 90 seconds inside the transcript, whatever
\* times it gave.
ReplyWindowsBounded ==
    stage = "byReply" => \A c \in picks :
        LET o == Ordered(transcript)
        IN  /\ TranscriptStart(o) <= c.start /\ c.end <= TranscriptEnd(o)
            /\ c.end - c.start \in MinValidCandidate..MaxClip

\* What is selected from: every candidate the detector in use produced.
Offered ==
    LET o == Ordered(transcript)
        all == IF stage = "byHeuristic" THEN HeuristicCandidates(o) ELSE LlmCandidates(o, reply)
    IN  {all[i] : i \in DOMAIN all}

\* The selection is the best one: at most TopN windows, no two of the same start (to the
\* second for an LLM's), and a candidate is left out only for one of its own start that
\* scores no less or for TopN others that do.
BestAreKept ==
    Detected =>
        /\ Cardinality(picks) <= TopN
        /\ \A c, d \in picks : c.key = d.key => c = d
        /\ \A c \in Offered \ picks :
               \/ \E d \in picks : d.key = c.key /\ d.score >= c.score
               \/ /\ Cardinality(picks) = TopN
                  /\ \A d \in picks : d.score >= c.score

\* The captions of a finished video show, at every moment of it, the words spoken then.
\* A window in which nothing is said is the exception: it shows the stored snippet.
CaptionsInSync ==
    LET shown(t) == UNION {ToSet(video.cues[i].text) : i \in {k \in DOMAIN video.cues :
                               video.cues[k].from <= t /\ t < video.cues[k].to}}
        spoken == \E i \in DOMAIN transcript :
                      transcript[i].start < window.end /\ transcript[i].end > window.start
        moments == {0} \cup {m - window.start : m \in Marks(transcript)}
    IN  shot \in {"thumbnail", "published"} =>
            /\ video.length = window.end - window.start
            /\ spoken => \A t \in moments \cap 0..(video.length - 1) :
                   shown(t) = Said(transcript, t + window.start) \ {Blank}

\* No temporary audio or subtitle file outlives the step that made it, whether that returns
\* or raises.
NoTemporaryFiles ==
    /\ tmp => asr = "extracted"
    /\ srt => shot = "encoding"
====
