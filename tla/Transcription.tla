---- MODULE Transcription ----
(***************************************************************************)
(* asr_service: the audio track of a source is extracted into a temporary  *)
(* directory and sent to the speech recognition API, in one request or, when *)
(* it is too large for one, in parts whose segments are put back on the    *)
(* source's own timeline.  The parts meet without overlap, so what is said *)
(* across a cut may be lost or misheard.  Times are in half seconds.       *)
(***************************************************************************)
EXTENDS Integers, Sequences, Ranking

CONSTANTS
    PartSize,   \* _CHUNK_TARGET_BYTES
    Fragments,  \* what the remains of an utterance that a cut goes through may be heard as
    Speeches,   \* what the sources of this instance say: segments by start time
    Audios      \* their audio tracks: duration and size

\* A track is cut into parts of equal duration; the instance takes durations that
\* every number of parts divides.
CeilDiv(a, b) == (a + b - 1) \div b
ASSUME AudioAssumption ==
    /\ PartSize \in Nat \ {0}
    /\ \A a \in Audios : a.duration \in Nat \ {0} /\ a.size \in Nat \ {0}
    /\ \A a \in Audios : a.duration % CeilDiv(a.size, PartSize) = 0

VARIABLES
    audio,   \* the extracted track
    speech,  \* what is said in it
    asr,     \* where `transcribe` is
    part,    \* parts transcribed so far
    heard,   \* all_segments
    tmp      \* whether the temporary directory exists

asrVars == <<audio, speech, asr, part, heard, tmp>>

TranscriptionTypeOK ==
    /\ audio \in Audios
    /\ speech \in Speeches
    /\ asr \in {"idle", "extracted", "done", "raised"}
    /\ part \in 0..CeilDiv(audio.size, PartSize)
    /\ \A i \in DOMAIN heard : heard[i].start \in Int /\ heard[i].end \in Int
    /\ tmp \in BOOLEAN

TranscriptionInit ==
    /\ audio \in Audios
    /\ speech \in Speeches
    /\ asr = "idle"
    /\ part = 0
    /\ heard = <<>>
    /\ tmp = FALSE

----
\* What the API may make of the file that holds the sound of `length` from `from` on: the
\* segments spoken wholly in it as they are, timed from its beginning; of one that an edge
\* of the file goes through, any words or none for the part inside.
Hears(from, length) ==
    LET to == from + length
        sounds == {i \in DOMAIN speech : speech[i].start < to /\ speech[i].end > from}
        cut == {i \in sounds : speech[i].start < from \/ speech[i].end > to}
        piece(s, text) == [start |-> (IF s.start < from THEN from ELSE s.start) - from,
                           end |-> (IF s.end > to THEN to ELSE s.end) - from,
                           text |-> text]
        heardAs(words) == [i \in DOMAIN speech |->
            piece(speech[i], IF i \in cut THEN words[i] ELSE speech[i].text)]
    IN  {Picked(heardAs(words), sounds \ lost) : words \in [cut -> Fragments], lost \in SUBSET cut}

\* Mutant: the offset of the part is not added.
NotShifted(segments, offset) == segments

\* _transcribe_file: timestamps shifted by the part's position in the source.
Shifted(segments, offset) ==
    [i \in DOMAIN segments |->
        [segments[i] EXCEPT !.start = @ + offset, !.end = @ + offset]]

\* transcribe up to the choice between one request and parts.
ExtractAudio ==
    /\ asr = "idle"
    /\ asr' = "extracted"
    /\ tmp' = TRUE
    /\ UNCHANGED <<audio, speech, part, heard>>

\* Leaving `transcribe` removes the temporary directory, whatever happened in it.
Return(outcome, segments) ==
    /\ asr' = outcome
    /\ heard' = segments
    /\ tmp' = FALSE
    /\ UNCHANGED <<audio, speech>>

TranscribeWhole ==
    /\ asr = "extracted" /\ audio.size <= PartSize
    /\ \E h \in Hears(0, audio.duration) : Return("done", Shifted(h, 0))
    /\ UNCHANGED part

\* One turn of the loop of _transcribe_in_chunks.
Parts == CeilDiv(audio.size, PartSize)

TranscribePart ==
    LET length == audio.duration \div Parts
        start == part * length
    IN  /\ asr = "extracted" /\ audio.size > PartSize
        /\ part < Parts
        /\ \E h \in Hears(start, length) : heard' = heard \o Shifted(h, start)
        /\ part' = part + 1
        /\ UNCHANGED <<audio, speech, asr, tmp>>

JoinParts ==
    /\ asr = "extracted" /\ audio.size > PartSize
    /\ part = Parts
    /\ Return("done", heard)
    /\ UNCHANGED part

\* Mutant: a temporary directory made without a context manager.
RaiseWithoutCleanup ==
    /\ asr = "extracted"
    /\ asr' = "raised"
    /\ heard' = <<>>
    /\ UNCHANGED <<audio, speech, part, tmp>>

\* ffmpeg, ffprobe or a request failed: the parts already transcribed are lost.
AsrRaises ==
    /\ asr = "extracted"
    /\ Return("raised", <<>>)
    /\ UNCHANGED part

TranscriptionStep ==
    \/ ExtractAudio \/ TranscribeWhole \/ TranscribePart \/ JoinParts \/ AsrRaises
====
