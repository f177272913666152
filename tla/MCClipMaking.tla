---- MODULE MCClipMaking ----
(* A small instance of ClipMaking for TLC: four minutes of speech, in half seconds. *)
EXTENDS ClipMaking

Says(start, end, text) == [start |-> start, end |-> end, text |-> text]

MCEndings == {"statement", "hook"}
MCWeight == [clause |-> 8, statement |-> 10, hook |-> 35, blank |-> 0]

\* Sentences and parts of sentences, short and long, across the cuts of the track, of
\* equal starts, one inside another that outlasts it, blank, and reaching the very end.
MCUtterances == {
    Says(0, 60, "clause"), Says(0, 74, "statement"), Says(61, 62, "hook"),
    Says(74, 172, "statement"), Says(100, 160, "clause"), Says(100, 260, "clause"),
    Says(240, 250, "blank"), Says(250, 479, "hook"), Says(300, 480, "clause")}

MCSpeeches == {s \in UNION {[1..n -> MCUtterances] : n \in 0..3} :
    \A i, j \in DOMAIN s : i < j => s[i] # s[j] /\ s[i].start <= s[j].start}

MCAudios == {[duration |-> 480, size |-> n] : n \in {2, 3, 5}}

MCReplies ==
    LET moments == {[at |-> 1, score |-> 3], [at |-> 60, score |-> 5], [at |-> 61, score |-> -3],
                    [at |-> 240, score |-> NaN], [at |-> 999, score |-> 5], [at |-> NaN, score |-> 7]}
    IN  {<<>>} \cup {<<a>> : a \in moments} \cup (moments \X moments)

MCEditTimes == {0, 215, 229}
====
