---- MODULE Captions ----
(***************************************************************************)
(* render_service: one clip is cut from its source and its captions are    *)
(* burned in from a temporary subtitle file, then a thumbnail is taken from *)
(* the video just written.  Times are in half seconds; the text of a caption *)
(* lists transcript texts by the number of their segment.                   *)
(***************************************************************************)
EXTENDS Integers, Sequences

CONSTANT Blank   \* a text of white space

VARIABLES
    shot,     \* where render_clip_video is
    window,   \* the clip it renders
    cues,     \* what the subtitle file says
    srt,      \* whether the temporary subtitle file exists
    video     \* what the output holds: its length and captions

captionVars == <<shot, window, cues, srt, video>>

NoVideo == [length |-> 0, cues |-> <<>>]
NoWindow == [start |-> 0, end |-> 0, snippet |-> <<>>]

CaptionsTypeOK ==
    /\ shot \in {"idle", "encoding", "thumbnail", "published", "failed"}
    /\ window.start \in Int /\ window.end \in Int
    /\ \A i \in DOMAIN cues : cues[i].from \in Nat /\ cues[i].to \in Nat /\ cues[i].text # <<>>
    /\ srt \in BOOLEAN
    /\ video.length \in Nat

CaptionsInit ==
    /\ shot = "idle"
    /\ window = NoWindow
    /\ cues = <<>>
    /\ srt = FALSE
    /\ video = NoVideo

----
\* Mutant: segments that begin before the clip are left out.
SliceStartingInside(transcript, clip) ==
    [i \in {k \in DOMAIN transcript : /\ transcript[k].start >= clip.start
                                      /\ transcript[k].start < clip.end} |->
        [transcript[i] EXCEPT !.text = <<@>>]]

\* The transcript segments that overlap a clip, as _build_caption_segments slices them;
\* each keeps the number it has in the transcript.
Slice(transcript, clip) ==
    [i \in {k \in DOMAIN transcript : /\ transcript[k].end > clip.start
                                      /\ transcript[k].start < clip.end} |->
        [transcript[i] EXCEPT !.text = <<@>>]]

\* With none of them, the snippet stored with the clip stands for the whole of it.
CaptionSegments(transcript, clip) ==
    LET sliced == Slice(transcript, clip)
    IN  IF DOMAIN sliced # {} THEN sliced
        ELSE <<[start |-> clip.start, end |-> clip.end, text |-> clip.snippet]>>

\* Mutant: an early start is not clamped.
CuesUnclamped(segments, clip) ==
    [i \in {k \in DOMAIN segments : /\ segments[k].end > clip.start
                                    /\ segments[k].text \notin {<<>>, <<Blank>>}} |->
        [from |-> segments[i].start - clip.start, to |-> segments[i].end - clip.start,
         text |-> segments[i].text]]

\* _write_srt: rebased to the clip's start, an early start clamped to it, segments that
\* are over or blank left out.
Cues(segments, clip) ==
    LET from(s) == IF s.start < clip.start THEN 0 ELSE s.start - clip.start
    IN  [i \in {k \in DOMAIN segments : /\ segments[k].end > clip.start
                                        /\ segments[k].text \notin {<<>>, <<Blank>>}} |->
            [from |-> from(segments[i]), to |-> segments[i].end - clip.start,
             text |-> segments[i].text]]

----
\* render_clip_video up to ffmpeg.  An empty window or an unknown caption style raises
\* before anything is written; no clip has either.
WriteCaptions(transcript, clip) ==
    /\ shot \in {"idle", "published", "failed"}
    /\ clip.end > clip.start
    /\ shot' = "encoding"
    /\ window' = clip
    /\ cues' = Cues(CaptionSegments(transcript, clip), clip)
    /\ srt' = TRUE
    /\ UNCHANGED video

\* ffmpeg replaces the output; the subtitle file is removed whether it succeeds or not.
Encode ==
    /\ shot = "encoding"
    /\ video' = [length |-> window.end - window.start, cues |-> cues]
    /\ shot' = "thumbnail"
    /\ srt' = FALSE
    /\ UNCHANGED <<window, cues>>

EncodeFails ==
    /\ shot = "encoding"
    /\ video' = NoVideo
    /\ shot' = "failed"
    /\ srt' = FALSE
    /\ UNCHANGED <<window, cues>>

\* _generate_thumbnail, from the middle of the video; its failure fails the render.
Thumbnail ==
    /\ shot = "thumbnail"
    /\ shot' \in {"published", "failed"}
    /\ UNCHANGED <<window, cues, srt, video>>

CaptionStep == Encode \/ EncodeFails \/ Thumbnail
====
