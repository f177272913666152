---- MODULE ClipMakingProofs ----
(***************************************************************************)
(* What one run makes of one source, for every speech, audio track and     *)
(* answer of the LLM: what no cut goes through is in its place, windows end *)
(* well, the best candidates are kept, captions are in sync, and nothing   *)
(* temporary is left.                                                      *)
(***************************************************************************)
EXTENDS ClipMaking, HighlightsProofs

----
(* Transcription. *)

\* How long one part is.
PartLength == audio.duration \div Parts

\* The parts cover the track.
LEMMA PartsCoverTrack ==
    ASSUME audio \in Audios
    PROVE  /\ audio.duration \in Nat /\ audio.size \in Nat /\ PartSize \in Nat
           /\ Parts \in Nat \ {0} /\ PartLength \in Nat \ {0}
           /\ Parts * PartLength = audio.duration
<1> DEFINE d == audio.duration
           p == Parts
<1>1. /\ d \in Nat \ {0} /\ audio.size \in Nat \ {0} /\ PartSize \in Nat \ {0}
      /\ d % p = 0
  BY AudioAssumption DEF Parts
<1>2. p \in Nat \ {0}
  <2>1. p = (audio.size + PartSize - 1) \div PartSize
    BY DEF Parts, CeilDiv
  <2> HIDE DEF p
  <2>2. QED
    BY <1>1, <2>1
<1> HIDE DEF d, p
<1>3. d \div p \in Nat /\ p * (d \div p) = d
  BY <1>1, <1>2
<1>4. d \div p # 0
  BY <1>1, <1>2, <1>3
<1>5. QED
  BY <1>1, <1>2, <1>3, <1>4 DEF PartLength, d, p

\* Where a part begins or ends.
Edges == {k * PartLength : k \in 0..Parts}

\* What goes through such an edge goes through a cut: nothing goes through the ends of the
\* track.
LEMMA EdgesAreCuts ==
    ASSUME audio \in Audios, speech \in Speeches, NEW e \in Edges, NEW k \in DOMAIN speech,
           speech[k].start < e, e < speech[k].end
    PROVE  AcrossCut(speech[k])
<1>1. /\ audio.duration \in Nat /\ Parts \in Nat \ {0} /\ PartLength \in Nat \ {0}
      /\ Parts * PartLength = audio.duration
  BY PartsCoverTrack
<1>2. speech[k] \in Segments /\ speech[k].end <= audio.duration
  <2>1. speech \in Seq(Segments) /\ speech[k].end <= audio.duration
    BY SpeechAssumption
  <2>2. QED
    BY <2>1, LenProperties
<1>3. speech[k].start \in Nat /\ speech[k].end \in Nat
  BY <1>2 DEF Segments
<1>4. PICK n \in 0..Parts : e = n * PartLength
  BY DEF Edges
<1>5. n # 0 /\ n # Parts
  <2>1. 0 * PartLength = 0
    BY <1>1
  <2>2. ~(e < 0 \/ e = 0) /\ e # audio.duration
    BY <1>1, <1>2, <1>3, <1>4
  <2>3. QED
    BY <1>1, <1>4, <2>1, <2>2
<1>6. n \in 1..(Parts - 1)
  BY <1>1, <1>4, <1>5
<1>7. e \in Cuts
  BY <1>4, <1>6 DEF Cuts, PartLength
<1>8. QED
  BY <1>7 DEF AcrossCut

\* h says at a moment what was said then, but for what was said across a cut.
InPlace(h, t) ==
    /\ \A k \in SpokenWhole(t) : speech[k].text \in Said(h, t)
    /\ SpokenWhole(t) = Spoken(t) => Said(h, t) = Said(speech, t)

\* h holds what is said between two moments, on the timeline of the source.
Transcribes(h, from, to) ==
    /\ h \in Seq(Segments)
    /\ \A i \in DOMAIN h : from <= h[i].start /\ h[i].start < h[i].end /\ h[i].end <= to
    /\ \A i, j \in DOMAIN h : i < j => h[i].start <= h[j].start
    /\ \A t \in Nat : from <= t /\ t < to => InPlace(h, t)

\* Places of a sequence of segments and what they hold.
LEMMA SegmentsPlaces ==
    ASSUME NEW h \in Seq(Segments)
    PROVE  /\ Len(h) \in Nat /\ DOMAIN h = 1..Len(h)
           /\ \A i \in DOMAIN h : /\ h[i] \in Segments
                                  /\ h[i].start \in Nat /\ h[i].end \in Nat /\ h[i].text \in Texts
<1>1. Len(h) \in Nat /\ DOMAIN h = 1..Len(h) /\ \A i \in DOMAIN h : h[i] \in Segments
  BY LenProperties
<1>2. QED
  BY <1>1 DEF Segments

\* What is said at a moment, place by place.
LEMMA SaidBy ==
    ASSUME NEW h, NEW t, NEW x
    PROVE  x \in Said(h, t) <=>
               \E i \in DOMAIN h : h[i].start <= t /\ t < h[i].end /\ x = h[i].text
BY DEF Said

\* A request for a part, shifted back to its place, holds what is said in the part.
LEMMA PartSays ==
    ASSUME audio \in Audios, speech \in Speeches, NEW from \in Nat, NEW length \in Nat \ {0},
           from \in Edges, from + length \in Edges, NEW file \in Hears(from, length)
    PROVE  Transcribes(Shifted(file, from), from, from + length)
<1> DEFINE to == from + length
           sounds == {i \in DOMAIN speech : speech[i].start < to /\ speech[i].end > from}
           cut == {i \in sounds : speech[i].start < from \/ speech[i].end > to}
           piece(s, text) == [start |-> (IF s.start < from THEN from ELSE s.start) - from,
                              end |-> (IF s.end > to THEN to ELSE s.end) - from,
                              text |-> text]
           heardAs(words) == [i \in DOMAIN speech |->
               piece(speech[i], IF i \in cut THEN words[i] ELSE speech[i].text)]
           h == Shifted(file, from)
<1>1. PICK words \in [cut -> Fragments], lost \in SUBSET cut :
          file = Picked(heardAs(words), sounds \ lost)
  <2>1. Hears(from, length) = {Picked(heardAs(words), sounds \ lost) :
                                   words \in [cut -> Fragments], lost \in SUBSET cut}
    BY DEF Hears
  <2> HIDE DEF cut, sounds, heardAs
  <2>2. QED
    BY <2>1
<1> DEFINE places == sounds \ lost
           pieces == heardAs(words)
           n == Cardinality(places)
<1>2. /\ speech \in Seq(Segments)
      /\ \A i \in DOMAIN speech : speech[i].start < speech[i].end
      /\ \A i, j \in DOMAIN speech : i < j => speech[i].start <= speech[j].start
  BY SpeechAssumption
<1>3. /\ Len(speech) \in Int /\ DOMAIN speech = 1..Len(speech)
      /\ \A i \in DOMAIN speech : /\ speech[i].start \in Nat /\ speech[i].end \in Nat
                                  /\ speech[i].text \in Texts
  BY <1>2, SegmentsPlaces
<1>4. \A i \in DOMAIN speech : i \in sounds <=> speech[i].start < to /\ speech[i].end > from
  OBVIOUS
<1>5. \A i \in DOMAIN speech : i \in sounds /\ ~AcrossCut(speech[i]) => i \in places /\ i \notin cut
  <2> SUFFICES ASSUME NEW i \in cut PROVE AcrossCut(speech[i])
    OBVIOUS
  <2>1. /\ i \in DOMAIN speech /\ speech[i].start < to /\ speech[i].end > from
        /\ speech[i].start < from \/ speech[i].end > to
    OBVIOUS
  <2>2. speech[i].start \in Nat /\ speech[i].end \in Nat
    BY <1>3, <2>1
  <2>3. CASE speech[i].start < from
    BY <2>1, <2>2, <2>3, EdgesAreCuts
  <2>4. CASE speech[i].end > to
    BY <2>1, <2>2, <2>4, EdgesAreCuts
  <2>5. QED
    BY <2>1, <2>3, <2>4
<1>6. places \subseteq sounds /\ sounds \subseteq DOMAIN speech
  OBVIOUS
<1>7. \A i \in DOMAIN speech : /\ pieces[i] = piece(speech[i], pieces[i].text)
                               /\ pieces[i].text \in Texts
                               /\ i \notin cut => pieces[i].text = speech[i].text
  <2> SUFFICES ASSUME NEW i \in DOMAIN speech
               PROVE  /\ pieces[i] = piece(speech[i], pieces[i].text)
                      /\ pieces[i].text \in Texts
                      /\ i \notin cut => pieces[i].text = speech[i].text
    OBVIOUS
  <2> DEFINE text == IF i \in cut THEN words[i] ELSE speech[i].text
  <2>1. pieces[i] = piece(speech[i], text)
    OBVIOUS
  <2>2. text \in Texts /\ (i \notin cut => text = speech[i].text)
    <3>1. i \in cut => words[i] \in Fragments
      OBVIOUS
    <3>2. QED
      BY <1>3, <3>1, FragmentAssumption
  <2> HIDE DEF text, cut, pieces
  <2>3. pieces[i].text = text
    BY <2>1
  <2>4. QED
    BY <2>1, <2>2, <2>3
<1> HIDE DEF cut, sounds, pieces
<1>8. places \subseteq DOMAIN speech /\ places \subseteq Int /\ IsFiniteSet(places)
  <2>1. IsFiniteSet(1..Len(speech))
    BY <1>3, FS_Interval
  <2>2. QED
    BY <1>3, <1>6, <2>1, FS_Subset
<1> HIDE DEF places
<1>a. file = Picked(pieces, places)
  BY <1>1 DEF places, pieces
<1>9. n \in Nat /\ DOMAIN file = 1..n
  BY <1>a, <1>8, PickedInOrder
<1>10. PICK by : Lists(by, places) /\ \A i \in 1..n : file[i] = pieces[by[i]]
  BY <1>a, <1>8, PickedInOrder
<1>11. /\ by \in [1..n -> places]
       /\ \A i, j \in 1..n : i < j => by[i] < by[j]
       /\ \A x \in places : \E i \in 1..n : by[i] = x
  BY <1>10 DEF Lists
<1> HIDE DEF n
<1>12. h = [i \in 1..n |-> [file[i] EXCEPT !.start = @ + from, !.end = @ + from]]
  BY <1>9 DEF Shifted
<1> HIDE DEF h
<1>13. ASSUME NEW i \in 1..n
       PROVE  LET s == speech[by[i]]
              IN  /\ by[i] \in sounds /\ by[i] \in DOMAIN speech
                  /\ s.start \in Nat /\ s.end \in Nat
                  /\ s.start < s.end /\ s.start < to /\ s.end > from
                  /\ h[i].start = IF s.start < from THEN from ELSE s.start
                  /\ h[i].end = IF s.end > to THEN to ELSE s.end
                  /\ by[i] \notin cut => h[i].text = s.text
                  /\ h[i] \in Segments
  <2> DEFINE s == speech[by[i]]
             x == pieces[by[i]].text
             first == IF s.start < from THEN from ELSE s.start
             last == IF s.end > to THEN to ELSE s.end
  <2>1. by[i] \in places /\ by[i] \in sounds /\ by[i] \in DOMAIN speech
    BY <1>6, <1>8, <1>11
  <2>2. /\ s.start \in Nat /\ s.end \in Nat /\ s.start < s.end /\ s.start < to /\ s.end > from
    BY <1>2, <1>3, <1>4, <2>1
  <2>3. x \in Texts /\ (by[i] \notin cut => x = s.text)
    BY <1>7, <2>1
  <2>4. file[i] = [start |-> first - from, end |-> last - from, text |-> x]
    BY <1>7, <1>10, <2>1
  <2>5. first \in Nat /\ last \in Nat
    BY <2>2
  <2> HIDE DEF s, x, first, last
  <2>6. h[i] = [file[i] EXCEPT !.start = @ + from, !.end = @ + from]
    BY <1>12
  <2>7. h[i] = [start |-> (first - from) + from, end |-> (last - from) + from, text |-> x]
    <3> DEFINE a == first - from
               b == last - from
    <3>1. file[i] = [start |-> a, end |-> b, text |-> x]
      BY <2>4
    <3> HIDE DEF a, b
    <3>2. /\ DOMAIN file[i] = {"start", "end", "text"}
          /\ file[i].start = a /\ file[i].end = b /\ file[i].text = x
      BY <3>1
    <3>3. h[i] = [start |-> a + from, end |-> b + from, text |-> x]
      BY <2>6, <3>2
    <3>4. QED
      BY <3>3 DEF a, b
  <2>8. (first - from) + from = first /\ (last - from) + from = last
    BY <2>5
  <2>9. h[i] = [start |-> first, end |-> last, text |-> x]
    BY <2>7, <2>8
  <2>10. h[i].start = first /\ h[i].end = last /\ h[i].text = x /\ h[i] \in Segments
    BY <2>3, <2>5, <2>9 DEF Segments
  <2>11. QED
    BY <2>1, <2>2, <2>3, <2>10 DEF s, first, last
<1>14. DOMAIN h = 1..n /\ h = [i \in 1..n |-> h[i]]
  BY <1>12
<1>15. h \in Seq(Segments)
  <2>1. \A i \in 1..n : h[i] \in Segments
    BY <1>13
  <2>2. h \in [1..n -> Segments]
    BY <1>14, <2>1
  <2>3. QED
    BY <1>9, <2>2, SeqDef
<1>16. \A i \in 1..n : from <= h[i].start /\ h[i].start < h[i].end /\ h[i].end <= to
  BY <1>13
<1>17. ASSUME NEW i \in 1..n, NEW j \in 1..n, i < j PROVE h[i].start <= h[j].start
  <2>1. speech[by[i]].start <= speech[by[j]].start
    BY <1>2, <1>11, <1>13, <1>17
  <2>2. QED
    BY <1>13, <2>1
<1>18. ASSUME NEW t \in Nat, from <= t, t < to PROVE InPlace(h, t)
  <2>1. ASSUME NEW k \in SpokenWhole(t) PROVE speech[k].text \in Said(h, t)
    <3>1. /\ k \in DOMAIN speech /\ speech[k].start <= t /\ t < speech[k].end
          /\ ~AcrossCut(speech[k])
      BY DEF SpokenWhole, Spoken
    <3>2. k \in places /\ k \notin cut
      BY <1>3, <1>4, <1>5, <1>18, <3>1
    <3>3. PICK i \in 1..n : by[i] = k
      BY <1>11, <3>2
    <3>4. h[i].start <= t /\ t < h[i].end /\ speech[k].text = h[i].text
      BY <1>13, <1>18, <3>1, <3>2, <3>3
    <3>5. QED
      BY <1>14, <3>4, SaidBy
  <2>2. ASSUME SpokenWhole(t) = Spoken(t) PROVE Said(h, t) = Said(speech, t)
    <3>1. ASSUME NEW x \in Said(h, t) PROVE x \in Said(speech, t)
      <4>1. \E i \in DOMAIN h : h[i].start <= t /\ t < h[i].end /\ x = h[i].text
        BY <3>1, SaidBy
      <4>2. PICK i \in 1..n : h[i].start <= t /\ t < h[i].end /\ x = h[i].text
        BY <1>14, <4>1
      <4>3. /\ by[i] \in DOMAIN speech /\ by[i] \in sounds
            /\ speech[by[i]].start <= t /\ t < speech[by[i]].end
        BY <1>13, <1>18, <4>2
      <4>4. by[i] \in SpokenWhole(t)
        BY <2>2, <4>3 DEF Spoken
      <4>5. by[i] \notin cut
        BY <1>5, <4>3, <4>4 DEF SpokenWhole
      <4>6. x = speech[by[i]].text
        BY <1>13, <4>2, <4>5
      <4>7. QED
        BY <4>3, <4>6, SaidBy
    <3>2. ASSUME NEW x \in Said(speech, t) PROVE x \in Said(h, t)
      <4>1. PICK k \in DOMAIN speech :
                speech[k].start <= t /\ t < speech[k].end /\ x = speech[k].text
        BY <3>2, SaidBy
      <4>2. k \in SpokenWhole(t)
        BY <2>2, <4>1 DEF Spoken
      <4>3. QED
        BY <2>1, <4>1, <4>2
    <3>3. QED
      BY <3>1, <3>2
  <2>3. QED
    BY <2>1, <2>2 DEF InPlace
<1>19. QED
  BY <1>14, <1>15, <1>16, <1>17, <1>18 DEF Transcribes, h

\* Two stretches of speech that meet, joined.
LEMMA JoinTranscribes ==
    ASSUME NEW a \in Nat, NEW b \in Nat, a <= b, NEW h, Transcribes(h, 0, a),
           NEW k, Transcribes(k, a, b)
    PROVE  Transcribes(h \o k, 0, b)
<1> DEFINE hk == h \o k
           n == Len(h)
<1>1. h \in Seq(Segments) /\ k \in Seq(Segments)
  BY DEF Transcribes
<1>2. /\ n \in Nat /\ Len(k) \in Nat /\ DOMAIN h = 1..n /\ DOMAIN k = 1..Len(k)
      /\ \A i \in DOMAIN h : h[i].start \in Nat /\ h[i].end \in Nat
      /\ \A i \in DOMAIN k : k[i].start \in Nat /\ k[i].end \in Nat
  BY <1>1, SegmentsPlaces
<1>3. /\ hk \in Seq(Segments) /\ Len(hk) = n + Len(k)
      /\ \A i \in 1..(n + Len(k)) : hk[i] = IF i <= n THEN h[i] ELSE k[i - n]
  BY <1>1, ConcatProperties
<1>4. DOMAIN hk = 1..(n + Len(k))
  BY <1>3, LenProperties
<1> HIDE DEF hk, n
<1>5. \A i \in DOMAIN hk : (i \in DOMAIN h /\ hk[i] = h[i]) \/ (i - n \in DOMAIN k /\ hk[i] = k[i - n])
  <2> SUFFICES ASSUME NEW i \in DOMAIN hk
               PROVE  (i \in DOMAIN h /\ hk[i] = h[i]) \/ (i - n \in DOMAIN k /\ hk[i] = k[i - n])
    OBVIOUS
  <2>1. i \in 1..(n + Len(k)) /\ hk[i] = IF i <= n THEN h[i] ELSE k[i - n]
    BY <1>3, <1>4
  <2>2. n \in Nat /\ Len(k) \in Nat /\ DOMAIN h = 1..n /\ DOMAIN k = 1..Len(k)
    BY <1>2
  <2>3. CASE i <= n
    BY <2>1, <2>2, <2>3
  <2>4. CASE ~(i <= n)
    BY <2>1, <2>2, <2>4
  <2>5. QED
    BY <2>3, <2>4
<1>6. /\ \A i \in DOMAIN h : 0 <= h[i].start /\ h[i].start < h[i].end /\ h[i].end <= a
      /\ \A i \in DOMAIN k : a <= k[i].start /\ k[i].start < k[i].end /\ k[i].end <= b
  BY DEF Transcribes
<1>7. \A i \in DOMAIN hk : 0 <= hk[i].start /\ hk[i].start < hk[i].end /\ hk[i].end <= b
  BY <1>2, <1>5, <1>6
<1>8. ASSUME NEW i \in DOMAIN hk, NEW j \in DOMAIN hk, i < j PROVE hk[i].start <= hk[j].start
  <2>1. i \in Int /\ j \in Int
    BY <1>2, <1>4
  <2>2. CASE j <= n
    <3>1. i \in DOMAIN h /\ j \in DOMAIN h /\ hk[i] = h[i] /\ hk[j] = h[j]
      BY <1>2, <1>3, <1>4, <1>8, <2>2
    <3>2. QED
      BY <1>8, <3>1 DEF Transcribes
  <2>3. CASE i > n
    <3>1. i - n \in DOMAIN k /\ j - n \in DOMAIN k /\ hk[i] = k[i - n] /\ hk[j] = k[j - n]
      BY <1>2, <1>3, <1>4, <1>8, <2>3
    <3>2. i - n < j - n
      BY <1>2, <1>8, <2>1
    <3>3. QED
      BY <3>1, <3>2 DEF Transcribes
  <2>4. CASE i <= n /\ j > n
    <3>1. i \in DOMAIN h /\ j - n \in DOMAIN k /\ hk[i] = h[i] /\ hk[j] = k[j - n]
      BY <1>2, <1>3, <1>4, <1>8, <2>4
    <3>2. h[i].start <= a /\ a <= k[j - n].start
      BY <1>2, <1>6, <3>1
    <3>3. QED
      BY <1>2, <3>1, <3>2
  <2>5. QED
    BY <1>2, <2>1, <2>2, <2>3, <2>4
<1>9. ASSUME NEW t \in Nat, 0 <= t, t < b PROVE InPlace(hk, t)
  <2>1. Said(hk, t) = Said(h, t) \cup Said(k, t)
    <3>1. ASSUME NEW x \in Said(hk, t) PROVE x \in Said(h, t) \cup Said(k, t)
      <4>1. PICK i \in DOMAIN hk : hk[i].start <= t /\ t < hk[i].end /\ x = hk[i].text
        BY <3>1, SaidBy
      <4>2. QED
        BY <1>5, <4>1, SaidBy
    <3>2. ASSUME NEW x \in Said(h, t) PROVE x \in Said(hk, t)
      <4>1. PICK i \in DOMAIN h : h[i].start <= t /\ t < h[i].end /\ x = h[i].text
        BY <3>2, SaidBy
      <4>2. i \in DOMAIN hk /\ hk[i] = h[i]
        BY <1>2, <1>3, <1>4
      <4>3. QED
        BY <4>1, <4>2, SaidBy
    <3>3. ASSUME NEW x \in Said(k, t) PROVE x \in Said(hk, t)
      <4>1. PICK i \in DOMAIN k : k[i].start <= t /\ t < k[i].end /\ x = k[i].text
        BY <3>3, SaidBy
      <4>2. i + n \in DOMAIN hk /\ hk[i + n] = k[i]
        BY <1>2, <1>3, <1>4
      <4>3. QED
        BY <4>1, <4>2, SaidBy
    <3>4. QED
      BY <3>1, <3>2, <3>3
  <2>2. CASE t < a
    <3>1. InPlace(h, t)
      BY <2>2 DEF Transcribes
    <3>2. Said(k, t) = {}
      BY <1>2, <1>6, <2>2 DEF Said
    <3>3. QED
      BY <2>1, <3>1, <3>2 DEF InPlace
  <2>3. CASE t >= a
    <3>1. InPlace(k, t)
      BY <1>9, <2>3 DEF Transcribes
    <3>2. Said(h, t) = {}
      BY <1>2, <1>6, <2>3 DEF Said
    <3>3. QED
      BY <2>1, <3>1, <3>2 DEF InPlace
  <2>4. QED
    BY <2>2, <2>3
<1>10. QED
  BY <1>3, <1>7, <1>8, <1>9 DEF Transcribes, hk

\* Before the first part nothing is heard.
LEMMA NothingYet == Transcribes(<<>>, 0, 0)
<1>1. <<>> \in Seq(Segments) /\ DOMAIN <<>> = {}
  BY EmptySeq
<1>2. QED
  BY <1>1 DEF Transcribes

\* What `transcribe` has heard so far, at each of its points.
HeardInv ==
    /\ audio \in Audios /\ speech \in Speeches
    /\ asr \in {"idle", "extracted", "done", "raised"}
    /\ part \in 0..Parts
    /\ tmp = (asr = "extracted")
    /\ asr \in {"idle", "raised"} => heard = <<>>
    /\ asr = "idle" => part = 0
    /\ asr = "extracted" => /\ Transcribes(heard, 0, part * PartLength)
                            /\ audio.size <= PartSize => part = 0
    /\ asr = "done" => Transcribes(heard, 0, audio.duration)

\* Every step of the transcription keeps that.
LEMMA StepKeepsHeard ==
    ASSUME HeardInv, TranscriptionStep
    PROVE  HeardInv'
<1>1. /\ audio.duration \in Nat /\ audio.size \in Nat /\ PartSize \in Nat
      /\ Parts \in Nat \ {0} /\ PartLength \in Nat \ {0}
      /\ Parts * PartLength = audio.duration
  BY PartsCoverTrack DEF HeardInv
<1>2. audio' = audio /\ speech' = speech
  BY DEF TranscriptionStep, ExtractAudio, TranscribeWhole, TranscribePart, JoinParts, AsrRaises,
         Return
<1>3. Parts' = Parts /\ PartLength' = PartLength
  BY <1>2 DEF Parts, PartLength
<1>4. \A h, from, to : Transcribes(h, from, to)' <=> Transcribes(h, from, to)
  BY <1>2, <1>3 DEF Transcribes, InPlace, SpokenWhole, Spoken, AcrossCut, Cuts, Said
<1>5. part \in Nat /\ part * PartLength \in Nat
  BY <1>1 DEF HeardInv
<1>6. CASE ExtractAudio
  <2>1. Transcribes(heard, 0, part * PartLength)
    BY <1>1, <1>6, NothingYet DEF ExtractAudio, HeardInv
  <2>2. QED
    BY <1>2, <1>3, <1>4, <1>6, <2>1 DEF ExtractAudio, HeardInv
<1>7. CASE TranscribeWhole
  <2>1. Transcribes(heard', 0, audio.duration)
    <3>1. PICK file \in Hears(0, audio.duration) : heard' = Shifted(file, 0)
      BY <1>7 DEF TranscribeWhole, Return
    <3>2. audio.duration # 0
      BY <1>1
    <3>3. 0 \in Edges /\ 0 + audio.duration \in Edges
      <4>1. 0 \in 0..Parts /\ Parts \in 0..Parts /\ 0 * PartLength = 0
        BY <1>1
      <4>2. 0 + audio.duration = Parts * PartLength
        BY <1>1
      <4>3. QED
        BY <4>1, <4>2 DEF Edges
    <3>4. Transcribes(Shifted(file, 0), 0, 0 + audio.duration)
      BY <1>1, <3>2, <3>3, PartSays DEF HeardInv
    <3>5. QED
      BY <1>1, <3>1, <3>4
  <2>2. QED
    BY <1>2, <1>3, <1>4, <1>7, <2>1 DEF TranscribeWhole, Return, HeardInv
<1>8. CASE TranscribePart
  <2> DEFINE start == part * PartLength
  <2>1. PICK file \in Hears(start, PartLength) : heard' = heard \o Shifted(file, start)
    BY <1>8 DEF TranscribePart, PartLength
  <2>2. Transcribes(heard', 0, start + PartLength)
    <3>1. Transcribes(Shifted(file, start), start, start + PartLength)
      <4>1. start \in Edges /\ start + PartLength \in Edges
        <5>1. part \in 0..Parts /\ part + 1 \in 0..Parts
          BY <1>1, <1>8 DEF TranscribePart, HeardInv
        <5>2. start + PartLength = (part + 1) * PartLength
          BY <1>1, <1>5
        <5>3. QED
          BY <5>1, <5>2 DEF Edges
      <4> HIDE DEF start
      <4>2. start \in Nat
        BY <1>5 DEF start
      <4>3. QED
        BY <1>1, <4>1, <4>2, PartSays DEF HeardInv
    <3>2. Transcribes(heard, 0, start)
      BY <1>8 DEF TranscribePart, HeardInv
    <3>3. start \in Nat /\ start + PartLength \in Nat /\ start <= start + PartLength
      BY <1>1, <1>5
    <3> HIDE DEF start
    <3>4. QED
      BY <2>1, <3>1, <3>2, <3>3, JoinTranscribes
  <2>3. part' = part + 1 /\ part' \in 0..Parts /\ part' * PartLength = start + PartLength
    BY <1>1, <1>5, <1>8 DEF TranscribePart, HeardInv
  <2>4. QED
    BY <1>1, <1>2, <1>3, <1>4, <1>8, <2>2, <2>3 DEF TranscribePart, HeardInv
<1>9. CASE JoinParts
  BY <1>1, <1>2, <1>3, <1>4, <1>9 DEF JoinParts, Return, HeardInv
<1>10. CASE AsrRaises
  BY <1>2, <1>3, <1>4, <1>10 DEF AsrRaises, Return, HeardInv
<1>11. QED
  BY <1>6, <1>7, <1>8, <1>9, <1>10 DEF TranscriptionStep

----
(* Captions. *)

\* The captions written for a window show in it what the transcript says, moment by
\* moment, when it says anything there.
LEMMA CuesSayTranscript ==
    ASSUME NEW o \in Seq(Segments), NEW clip, clip.start \in Int, clip.end \in Int,
           NEW said \in DOMAIN o, o[said].start < clip.end, o[said].end > clip.start,
           NEW t \in Nat, t < clip.end - clip.start
    PROVE  LET c == Cues(CaptionSegments(o, clip), clip)
           IN  UNION {ToSet(c[i].text) : i \in {k \in DOMAIN c : c[k].from <= t /\ t < c[k].to}}
               = Said(o, t + clip.start) \ {Blank}
<1> DEFINE within == {k \in DOMAIN o : o[k].end > clip.start /\ o[k].start < clip.end}
           sliced == Slice(o, clip)
           c == Cues(CaptionSegments(o, clip), clip)
           at == {k \in DOMAIN c : c[k].from <= t /\ t < c[k].to}
<1>1. \A i \in DOMAIN o : /\ o[i] \in Segments
                          /\ o[i].start \in Nat /\ o[i].end \in Nat
  BY SegmentsPlaces
<1>2. /\ DOMAIN sliced = within
      /\ \A i \in within : sliced[i] = [o[i] EXCEPT !.text = <<@>>]
  BY DEF Slice
<1>3. ASSUME NEW i \in within
      PROVE  /\ sliced[i].start = o[i].start /\ sliced[i].end = o[i].end
             /\ sliced[i].text = <<o[i].text>>
  BY <1>1, <1>2 DEF Segments
<1>4. CaptionSegments(o, clip) = sliced
  BY <1>2 DEF CaptionSegments
<1> HIDE DEF sliced
<1>5. /\ DOMAIN c = {k \in within : o[k].text # Blank}
      /\ \A i \in DOMAIN c :
             /\ c[i].from = IF o[i].start < clip.start THEN 0 ELSE o[i].start - clip.start
             /\ c[i].to = o[i].end - clip.start
             /\ c[i].text = <<o[i].text>>
  <2>1. \A k \in within : /\ sliced[k].end > clip.start
                          /\ sliced[k].text \notin {<<>>, <<Blank>>} <=> o[k].text # Blank
    <3> SUFFICES ASSUME NEW k \in within
                 PROVE  /\ sliced[k].end > clip.start
                        /\ sliced[k].text \notin {<<>>, <<Blank>>} <=> o[k].text # Blank
      OBVIOUS
    <3>1. <<o[k].text>> # <<>> /\ (<<o[k].text>> = <<Blank>> <=> o[k].text = Blank)
      OBVIOUS
    <3>2. sliced[k].end = o[k].end /\ sliced[k].text = <<o[k].text>> /\ o[k].end > clip.start
      BY <1>3
    <3>3. QED
      BY <3>1, <3>2
  <2>2. DOMAIN Cues(sliced, clip) = {k \in within : o[k].text # Blank}
    BY <1>2, <2>1 DEF Cues
  <2>3. ASSUME NEW i \in DOMAIN Cues(sliced, clip)
        PROVE  Cues(sliced, clip)[i] =
                   [from |-> IF sliced[i].start < clip.start THEN 0 ELSE sliced[i].start - clip.start,
                    to |-> sliced[i].end - clip.start, text |-> sliced[i].text]
    BY DEF Cues
  <2>4. ASSUME NEW i \in DOMAIN Cues(sliced, clip)
        PROVE  LET s == Cues(sliced, clip)[i]
               IN  /\ s.from = IF o[i].start < clip.start THEN 0 ELSE o[i].start - clip.start
                   /\ s.to = o[i].end - clip.start /\ s.text = <<o[i].text>>
    <3>1. i \in within
      BY <2>2
    <3>2. /\ sliced[i].start = o[i].start /\ sliced[i].end = o[i].end
          /\ sliced[i].text = <<o[i].text>>
      BY <1>3, <3>1
    <3>3. Cues(sliced, clip)[i].text = sliced[i].text
      BY <2>3
    <3>4. Cues(sliced, clip)[i].to = sliced[i].end - clip.start
      BY <2>3
    <3>5. Cues(sliced, clip)[i].from =
              IF sliced[i].start < clip.start THEN 0 ELSE sliced[i].start - clip.start
      BY <2>3
    <3>6. QED
      BY <3>2, <3>3, <3>4, <3>5
  <2>5. QED
    BY <1>4, <2>2, <2>4
<1> HIDE DEF c
<1>6. \A i \in DOMAIN c : ToSet(c[i].text) = {o[i].text}
  BY <1>5 DEF ToSet
<1>7. \A i \in DOMAIN o : i \in at <=>
          o[i].text # Blank /\ o[i].start <= t + clip.start /\ t + clip.start < o[i].end
  <2> SUFFICES ASSUME NEW i \in DOMAIN o
               PROVE  i \in at <=> /\ o[i].text # Blank
                                   /\ o[i].start <= t + clip.start /\ t + clip.start < o[i].end
    OBVIOUS
  <2>1. CASE i \in DOMAIN c
    <3>1. o[i].text # Blank /\ o[i].start \in Nat /\ o[i].end \in Nat
      BY <1>1, <1>5, <2>1
    <3>2. /\ c[i].from = IF o[i].start < clip.start THEN 0 ELSE o[i].start - clip.start
          /\ c[i].to = o[i].end - clip.start
      BY <1>5, <2>1
    <3>3. c[i].from <= t <=> o[i].start <= t + clip.start
      BY <3>1, <3>2
    <3>4. t < c[i].to <=> t + clip.start < o[i].end
      BY <3>1, <3>2
    <3>5. QED
      BY <2>1, <3>1, <3>3, <3>4
  <2>2. CASE i \notin DOMAIN c
    BY <1>1, <1>5, <2>2
  <2>3. QED
    BY <2>1, <2>2
<1>8. at \subseteq DOMAIN o /\ at \subseteq DOMAIN c
  BY <1>5
<1> HIDE DEF at
<1>9. UNION {ToSet(c[i].text) : i \in at} = {o[i].text : i \in at}
  <2>1. \A i \in at : ToSet(c[i].text) = {o[i].text}
    BY <1>6, <1>8
  <2>2. QED
    <3> DEFINE f == [i \in at |-> ToSet(c[i].text)]
               g == [i \in at |-> o[i].text]
    <3>1. \A i \in at : f[i] = {g[i]}
      BY <2>1
    <3> HIDE DEF f, g
    <3>2. UNION {f[i] : i \in at} = {g[i] : i \in at}
      BY ONLY <3>1
    <3>3. QED
      BY <3>2 DEF f, g
<1>10. {o[i].text : i \in at} = Said(o, t + clip.start) \ {Blank}
  BY <1>7, <1>8 DEF Said
<1>11. QED
  BY <1>9, <1>10 DEF at, c

\* Captions have times and texts.
LEMMA CuesTyped ==
    ASSUME NEW o \in Seq(Segments), NEW clip, clip.start \in Int, clip.end \in Int
    PROVE  LET c == Cues(CaptionSegments(o, clip), clip)
           IN  \A i \in DOMAIN c : c[i].from \in Nat /\ c[i].to \in Nat /\ c[i].text # <<>>
<1> DEFINE segments == CaptionSegments(o, clip)
<1>1. \A i \in DOMAIN segments : segments[i].start \in Int /\ segments[i].end \in Int
  <2>1. \A i \in DOMAIN o : o[i] \in Segments /\ o[i].start \in Nat /\ o[i].end \in Nat
    BY SegmentsPlaces
  <2>2. \A i \in DOMAIN Slice(o, clip) :
            Slice(o, clip)[i].start \in Int /\ Slice(o, clip)[i].end \in Int
    BY <2>1 DEF Slice, Segments
  <2>3. QED
    BY <2>2 DEF CaptionSegments
<1> HIDE DEF segments
<1>2. QED
  BY <1>1 DEF Cues, segments

----
(* The run. *)

\* What was transcribed, picked and cut, at each stage.
RunInv ==
    /\ stage \in {"transcribing", "analyzing", "byHeuristic", "byReply", "made", "failed"}
    /\ reply \in Replies \cup {NoReply}
    /\ stage \in {"analyzing", "byHeuristic", "byReply", "made"} => transcript # <<>>
    /\ transcript # <<>> => Transcribes(transcript, 0, audio.duration)
    /\ stage = "byHeuristic" => picks = HeuristicPicks(transcript)
    /\ stage = "byReply" => reply \in Replies /\ picks = LlmPicks(transcript, reply)
    /\ ~Detected => picks = {}
    /\ \A c \in clips : c.start \in Int /\ c.end \in Int

\* What the clip in hand was rendered from, at each point of its render.
ShotInv ==
    /\ shot \in {"idle", "encoding", "thumbnail", "published", "failed"}
    /\ srt = (shot = "encoding")
    /\ window.start \in Int /\ window.end \in Int /\ video.length \in Nat
    /\ shot = "idle" => cues = <<>>
    /\ shot # "idle" => /\ stage = "made" /\ window.end > window.start
                        /\ cues = Cues(CaptionSegments(transcript, window), window)
    /\ shot \in {"thumbnail", "published"} =>
           video = [length |-> window.end - window.start, cues |-> cues]

\* The inductive invariant.
IInv == HeardInv /\ RunInv /\ ShotInv

\* A transcript is in order, so the detectors' sorting leaves it as it is.
LEMMA TranscriptInOrder ==
    ASSUME RunInv, transcript # <<>>
    PROVE  Track(transcript) /\ Ordered(transcript) = transcript
<1>1. Transcribes(transcript, 0, audio.duration)
  BY DEF RunInv
<1>2. transcript \in Seq([start : Int, end : Int, text : DOMAIN Weight])
  <2>1. Segments \subseteq [start : Int, end : Int, text : DOMAIN Weight]
    BY DEF Segments, Texts
  <2>2. transcript \in Seq(Segments)
    BY <1>1 DEF Transcribes
  <2>3. QED
    BY <2>1, <2>2, SeqMonotonic
<1>3. Track(transcript)
  BY <1>1, <1>2 DEF Transcribes, Track
<1>4. QED
  BY <1>3, OrderedTrack

\* What the detector in use selects from.
Candidates ==
    IF stage = "byHeuristic" THEN HeuristicCandidates(transcript)
    ELSE LlmCandidates(transcript, reply)

\* Both detectors' candidates suit, and the picks are selected from them.
LEMMA PicksAreSelected ==
    ASSUME RunInv, Detected
    PROVE  /\ picks = Select(Candidates)
           /\ IsFiniteSet(DOMAIN Candidates) /\ DOMAIN Candidates \subseteq Int
           /\ \A k \in DOMAIN Candidates :
                  /\ Suits(transcript, Candidates[k])
                  /\ \/ Finishes(transcript, Candidates[k])
                     \/ stage = "byReply" /\ Candidates[k].end = Candidates[k].start + MaxClip
                  /\ stage = "byReply" =>
                         Candidates[k].end - Candidates[k].start \in MinValidCandidate..MaxClip
           /\ stage = "byHeuristic" /\ TranscriptEnd(transcript) > TranscriptStart(transcript)
                  => DOMAIN Candidates # {}
<1>1. transcript # <<>>
  BY DEF RunInv, Detected
<1>2. Track(transcript) /\ Ordered(transcript) = transcript
  BY <1>1, TranscriptInOrder
<1>3. CASE stage = "byHeuristic"
  <2>1. Candidates = HeuristicCandidates(transcript) /\ stage # "byReply"
    BY <1>3 DEF Candidates
  <2>2. picks = Select(Candidates)
    BY <1>1, <1>2, <1>3, <2>1 DEF RunInv, HeuristicPicks
  <2>3. Weight \in [DOMAIN Weight -> Nat]
    BY NumberAssumption DEF Texts
  <2> HIDE DEF Candidates
  <2>4. QED
    BY <1>1, <1>2, <2>1, <2>2, <2>3, HeuristicCandidatesSuit
<1>4. CASE stage = "byReply"
  <2>1. Candidates = LlmCandidates(transcript, reply) /\ stage # "byHeuristic"
    BY <1>4 DEF Candidates
  <2>2. reply \in Seq([at : Int \cup {NaN}, score : Int \cup {NaN}])
    BY <1>4, ReplyAssumption DEF RunInv
  <2>3. /\ IsFiniteSet(DOMAIN Candidates) /\ DOMAIN Candidates \subseteq Int
        /\ \A k \in DOMAIN Candidates :
               /\ Suits(transcript, Candidates[k])
               /\ \/ Finishes(transcript, Candidates[k])
                  \/ Candidates[k].end = Candidates[k].start + MaxClip
               /\ Candidates[k].end - Candidates[k].start \in MinValidCandidate..MaxClip
    BY <1>1, <1>2, <2>1, <2>2, LlmCandidatesSuit
  <2>4. picks = Select(Candidates)
    <3>1. CASE reply = <<>>
      <4>1. DOMAIN reply = {}
        BY <3>1, EmptySeq
      <4>2. DOMAIN Candidates = {}
        BY <2>1, <4>1 DEF LlmCandidates, Restrict
      <4>3. BestOfKey(Candidates) = {}
        BY <4>2 DEF BestOfKey
      <4>4. Select(Candidates) = {}
        BY <4>3 DEF Select
      <4>5. QED
        BY <1>4, <3>1, <4>4 DEF RunInv, LlmPicks
    <3>2. CASE reply # <<>>
      BY <1>1, <1>2, <1>4, <2>1, <3>2 DEF RunInv, LlmPicks
    <3>3. QED
      BY <3>1, <3>2
  <2>5. QED
    BY <1>4, <2>1, <2>3, <2>4
<1>5. QED
  BY <1>3, <1>4 DEF Detected

\* The selection from them.
LEMMA PicksAreBest ==
    ASSUME RunInv, Detected
    PROVE  /\ \A c \in picks : \E k \in DOMAIN Candidates : c = Candidates[k]
           /\ Cardinality(picks) <= TopN
           /\ \A c, d \in picks : c.key = d.key => c = d
           /\ \A k \in DOMAIN Candidates :
                  \/ Candidates[k] \in picks
                  \/ \E d \in picks : d.key = Candidates[k].key /\ d.score >= Candidates[k].score
                  \/ /\ Cardinality(picks) = TopN
                     /\ \A d \in picks : d.score >= Candidates[k].score
           /\ DOMAIN Candidates # {} => picks # {}
<1>1. /\ picks = Select(Candidates)
      /\ IsFiniteSet(DOMAIN Candidates) /\ DOMAIN Candidates \subseteq Int
      /\ \A k \in DOMAIN Candidates : Candidates[k].score \in Int
  BY PicksAreSelected DEF Suits
<1>2. TopN \in Nat \ {0}
  BY NumberAssumption
<1>3. QED
  BY <1>1, <1>2, SelectIsBest

----
(* Invariance. *)

\* The run begins with nothing heard, picked or rendered.
LEMMA InitEstablishes == Init => IInv
<1> SUFFICES ASSUME Init PROVE IInv
  OBVIOUS
<1>1. audio \in Audios /\ Parts \in Nat \ {0}
  BY PartsCoverTrack DEF Init, TranscriptionInit
<1>2. HeardInv
  <2>1. /\ audio \in Audios /\ speech \in Speeches /\ asr = "idle" /\ part = 0 /\ heard = <<>>
        /\ tmp = FALSE
    BY DEF Init, TranscriptionInit
  <2>2. part \in 0..Parts
    BY <1>1, <2>1
  <2>3. tmp = (asr = "extracted")
    BY <2>1
  <2>4. QED
    BY <2>1, <2>2, <2>3 DEF HeardInv
<1>3. RunInv
  BY DEF Init, RunInv, Detected
<1>4. ShotInv
  <2>1. /\ shot = "idle" /\ cues = <<>> /\ srt = FALSE
        /\ window.start = 0 /\ window.end = 0 /\ video.length = 0
    BY DEF Init, CaptionsInit, NoWindow, NoVideo
  <2>2. srt = (shot = "encoding")
    BY <2>1
  <2>3. QED
    BY <2>1, <2>2 DEF ShotInv
<1>5. QED
  BY <1>2, <1>3, <1>4 DEF IInv

\* Outside the transcription nothing heard changes.
LEMMA HeardStays == ASSUME HeardInv, UNCHANGED asrVars PROVE HeardInv'
<1>1. Parts' = Parts /\ PartLength' = PartLength
  BY DEF asrVars, Parts, PartLength
<1>2. \A h, from, to : Transcribes(h, from, to)' <=> Transcribes(h, from, to)
  BY <1>1 DEF asrVars, Transcribes, InPlace, SpokenWhole, Spoken, AcrossCut, Cuts, Said
<1>3. QED
  BY <1>1, <1>2 DEF HeardInv, asrVars

\* Every step keeps what was heard.
LEMMA StepKeepsHeardInv == ASSUME HeardInv, [Next]_vars PROVE HeardInv'
<1>1. CASE Transcribe
  BY <1>1, StepKeepsHeard DEF Transcribe
<1>2. CASE ~Transcribe
  <2>1. UNCHANGED asrVars
    BY <1>2 DEF Next, KeepTranscript, TranscriptionFails, DetectByHeuristic, DetectByReply,
       NothingPicked, CreateClips, RenderClip, Render, MoveWindow, AtRest, vars, asrVars
  <2>2. QED
    BY <2>1, HeardStays
<1>3. QED
  BY <1>1, <1>2

\* The speech and the track of a source stay what they are.
LEMMA SourceStays ==
    ASSUME [Next]_vars
    PROVE  /\ audio' = audio /\ speech' = speech
           /\ \A h, from, to : Transcribes(h, from, to)' <=> Transcribes(h, from, to)
<1>1. audio' = audio /\ speech' = speech
  BY DEF Next, Transcribe, TranscriptionStep, ExtractAudio, TranscribeWhole, TranscribePart,
     JoinParts, AsrRaises, Return, KeepTranscript, TranscriptionFails, DetectByHeuristic,
     DetectByReply, NothingPicked, CreateClips, RenderClip, Render, MoveWindow, AtRest, vars,
     asrVars
<1>2. Parts' = Parts
  BY <1>1 DEF Parts
<1>3. QED
  BY <1>1, <1>2 DEF Transcribes, InPlace, SpokenWhole, Spoken, AcrossCut, Cuts, Said

\* Every step keeps the run in order.
LEMMA StepKeepsRun ==
    ASSUME HeardInv, RunInv, [Next]_vars
    PROVE  RunInv'
<1>1. /\ audio' = audio
      /\ \A h, from, to : Transcribes(h, from, to)' <=> Transcribes(h, from, to)
  BY SourceStays
<1>2. CASE Transcribe
  BY <1>1, <1>2 DEF Transcribe, runVars, RunInv, Detected
<1>3. CASE KeepTranscript
  <2>1. Transcribes(heard, 0, audio.duration)
    BY <1>3 DEF KeepTranscript, HeardInv
  <2>2. QED
    BY <1>1, <1>3, <2>1 DEF KeepTranscript, RunInv, Detected
<1>4. CASE TranscriptionFails
  BY <1>1, <1>4 DEF TranscriptionFails, RunInv, Detected
<1>5. CASE DetectByHeuristic
  BY <1>1, <1>5 DEF DetectByHeuristic, RunInv, Detected
<1>6. CASE DetectByReply
  BY <1>1, <1>6 DEF DetectByReply, RunInv, Detected
<1>7. CASE NothingPicked
  BY <1>1, <1>7 DEF NothingPicked, RunInv, Detected
<1>8. CASE CreateClips
  <2>1. \A c \in picks : c.start \in Int /\ c.end \in Int
    BY <1>8, PicksAreBest, PicksAreSelected DEF CreateClips, Suits
  <2>2. \A c \in clips' : c.start \in Int /\ c.end \in Int
    BY <1>8, <2>1 DEF CreateClips
  <2>3. QED
    BY <1>1, <1>8, <2>2 DEF CreateClips, RunInv, Detected
<1>9. CASE RenderClip
  BY <1>1, <1>9 DEF RenderClip, runVars, RunInv, Detected
<1>10. CASE Render
  BY <1>1, <1>10 DEF Render, runVars, RunInv, Detected
<1>11. CASE MoveWindow
  <2>1. \A c \in clips' : c.start \in Int /\ c.end \in Int
    BY <1>11, NumberAssumption DEF MoveWindow
  <2>2. QED
    BY <1>1, <1>11, <2>1 DEF MoveWindow, RunInv, Detected
<1>12. CASE AtRest \/ UNCHANGED vars
  BY <1>1, <1>12 DEF AtRest, vars, runVars, RunInv, Detected
<1>13. QED
  BY <1>2, <1>3, <1>4, <1>5, <1>6, <1>7, <1>8, <1>9, <1>10, <1>11, <1>12 DEF Next

\* Every step keeps the clip in hand in order.
LEMMA StepKeepsShot ==
    ASSUME RunInv, ShotInv, [Next]_vars
    PROVE  ShotInv'
<1>1. CASE Transcribe
  BY <1>1 DEF Transcribe, captionVars, runVars, ShotInv
<1>2. CASE KeepTranscript
  BY <1>2 DEF KeepTranscript, captionVars, ShotInv
<1>3. CASE TranscriptionFails
  BY <1>3 DEF TranscriptionFails, captionVars, ShotInv
<1>4. CASE DetectByHeuristic
  BY <1>4 DEF DetectByHeuristic, captionVars, ShotInv
<1>5. CASE DetectByReply
  BY <1>5 DEF DetectByReply, captionVars, ShotInv
<1>6. CASE NothingPicked
  BY <1>6 DEF NothingPicked, Detected, captionVars, ShotInv
<1>7. CASE CreateClips
  BY <1>7 DEF CreateClips, Detected, captionVars, ShotInv
<1>8. CASE RenderClip
  <2>1. PICK c \in clips : WriteCaptions(transcript, c)
    BY <1>8 DEF RenderClip
  <2>2. c.start \in Int /\ c.end \in Int
    BY DEF RunInv
  <2>3. transcript' = transcript /\ stage = "made" /\ stage' = "made"
    BY <1>8 DEF RenderClip, runVars
  <2>4. QED
    BY <2>1, <2>2, <2>3 DEF WriteCaptions, ShotInv
<1>9. CASE Render
  <2>1. transcript' = transcript /\ stage' = stage
    BY <1>9 DEF Render, runVars
  <2>2. CASE Encode
    <3>1. /\ window' = window /\ cues' = cues /\ shot' = "thumbnail" /\ srt' = FALSE
          /\ video' = [length |-> window.end - window.start, cues |-> cues]
          /\ shot = "encoding"
      BY <2>2 DEF Encode
    <3>2. video'.length = window.end - window.start
      BY <3>1
    <3>3. /\ window.start \in Int /\ window.end \in Int /\ window.end > window.start
          /\ stage = "made" /\ cues = Cues(CaptionSegments(transcript, window), window)
      BY <3>1 DEF ShotInv
    <3>4. video'.length \in Nat
      BY <3>2, <3>3
    <3>5. srt' = (shot' = "encoding")
      BY <3>1
    <3>6. QED
      BY <2>1, <3>1, <3>3, <3>4, <3>5 DEF ShotInv
  <2>3. CASE EncodeFails
    BY <2>1, <2>3 DEF EncodeFails, ShotInv, NoVideo
  <2>4. CASE Thumbnail
    BY <2>1, <2>4 DEF Thumbnail, ShotInv
  <2>5. QED
    BY <1>9, <2>2, <2>3, <2>4 DEF Render, CaptionStep
<1>10. CASE MoveWindow
  BY <1>10 DEF MoveWindow, captionVars, ShotInv
<1>11. CASE AtRest \/ UNCHANGED vars
  BY <1>11 DEF AtRest, vars, captionVars, runVars, ShotInv
<1>12. QED
  BY <1>1, <1>2, <1>3, <1>4, <1>5, <1>6, <1>7, <1>8, <1>9, <1>10, <1>11 DEF Next

\* The inductive invariant: at each point, what is kept is made of what was said.
THEOREM Invariance == Spec => []IInv
<1>1. IInv /\ [Next]_vars => IInv'
  BY StepKeepsHeardInv, StepKeepsRun, StepKeepsShot DEF IInv
<1>2. QED
  BY <1>1, InitEstablishes, PTL DEF Spec

----
(* The properties. *)

\* The types of everything a run keeps.
THEOREM ClipMakingTypes == Spec => []TypeOK
<1>1. IInv => TypeOK
  <2> SUFFICES ASSUME IInv PROVE TypeOK
    OBVIOUS
  <2>1. HeardInv /\ RunInv /\ ShotInv
    BY DEF IInv
  <2>2. TranscriptionTypeOK
    <3>1. heard \in Seq(Segments)
      BY <2>1, EmptySeq DEF HeardInv, Transcribes
    <3>2. \A i \in DOMAIN heard : heard[i].start \in Int /\ heard[i].end \in Int
      BY <3>1, SegmentsPlaces
    <3>3. QED
      BY <2>1, <3>2 DEF HeardInv, TranscriptionTypeOK, Parts
  <2>3. \A i \in DOMAIN cues : cues[i].from \in Nat /\ cues[i].to \in Nat /\ cues[i].text # <<>>
    <3>1. CASE shot = "idle"
      <4>1. DOMAIN cues = {}
        BY <2>1, <3>1, EmptySeq DEF ShotInv
      <4>2. QED
        BY <4>1
    <3>2. CASE shot # "idle"
      <4>1. cues = Cues(CaptionSegments(transcript, window), window) /\ stage = "made"
        BY <2>1, <3>2 DEF ShotInv
      <4>2. transcript \in Seq(Segments) /\ window.start \in Int /\ window.end \in Int
        BY <2>1, <4>1 DEF RunInv, ShotInv, Transcribes
      <4>3. QED
        BY <4>1, <4>2, CuesTyped
    <3>3. QED
      BY <3>1, <3>2
  <2>4. CaptionsTypeOK
    BY <2>1, <2>3 DEF ShotInv, CaptionsTypeOK
  <2>5. \A c \in picks : c.start \in Int /\ c.end \in Int /\ c.score \in Int
    <3>1. CASE Detected
      BY <2>1, <3>1, PicksAreBest, PicksAreSelected DEF Suits
    <3>2. CASE ~Detected
      BY <2>1, <3>2 DEF RunInv
    <3>3. QED
      BY <3>1, <3>2
  <2>6. QED
    BY <2>1, <2>2, <2>4, <2>5 DEF RunInv, ClipMakingTypeOK, TypeOK
<1>2. QED
  BY <1>1, Invariance, PTL

\* For every speech, into however many parts its audio is cut: what no cut goes through is in
\* the transcript at its own time, only what a cut goes through can be missing or stand there
\* in other words, and the segments are in order.
THEOREM TranscriptInPlace == Spec => []SpeechInPlace
<1>1. IInv => SpeechInPlace
  <2> SUFFICES ASSUME IInv, transcript # <<>>
               PROVE  /\ \A t \in Marks(transcript) \cup Marks(speech) : InPlace(transcript, t)
                      /\ \A i, j \in DOMAIN transcript :
                             i < j => transcript[i].start <= transcript[j].start
    BY DEF SpeechInPlace, InPlace
  <2>1. Transcribes(transcript, 0, audio.duration) /\ audio.duration \in Nat
    BY PartsCoverTrack DEF IInv, HeardInv, RunInv
  <2>2. \A s \in {transcript, speech} :
            /\ s \in Seq(Segments)
            /\ \A i \in DOMAIN s : s[i].end <= audio.duration
    BY <2>1, SpeechAssumption DEF Transcribes, IInv, HeardInv
  <2>3. \A s \in {transcript, speech} : \A i \in DOMAIN s : s[i].start \in Nat /\ s[i].end \in Nat
    BY <2>2, SegmentsPlaces
  <2>4. ASSUME NEW t \in Marks(transcript) \cup Marks(speech)
        PROVE  InPlace(transcript, t)
    <3>1. t \in Nat
      BY <2>3 DEF Marks
    <3>2. CASE t < audio.duration
      BY <2>1, <3>1, <3>2 DEF Transcribes
    <3>3. CASE t >= audio.duration
      <4>1. \A s \in {transcript, speech} : Said(s, t) = {}
        BY <2>1, <2>2, <2>3, <3>1, <3>3 DEF Said
      <4>2. Spoken(t) = {}
        BY <2>1, <2>2, <2>3, <3>1, <3>3 DEF Spoken
      <4>3. QED
        BY <4>1, <4>2 DEF InPlace, SpokenWhole
    <3>4. QED
      BY <2>1, <3>1, <3>2, <3>3
  <2>5. QED
    BY <2>1, <2>4 DEF Transcribes
<1>2. QED
  BY <1>1, Invariance, PTL

\* The heuristic detector finds a window in every transcript of positive length.
THEOREM SpeechIsClipped == Spec => []SpeechGivesAClip
<1>1. IInv => SpeechGivesAClip
  <2> SUFFICES ASSUME IInv, stage = "byHeuristic",
                      TranscriptEnd(Ordered(transcript)) > TranscriptStart(Ordered(transcript))
               PROVE  picks # {}
    BY DEF SpeechGivesAClip
  <2>1. RunInv /\ Detected /\ transcript # <<>>
    BY DEF IInv, RunInv, Detected
  <2>2. Ordered(transcript) = transcript
    BY <2>1, TranscriptInOrder
  <2>3. QED
    BY <2>1, <2>2, PicksAreBest, PicksAreSelected
<1>2. QED
  BY <1>1, Invariance, PTL

\* Whatever was said, a clip ends with a sentence whenever one ends after its start, with one
\* of 40 to 90 seconds when there is any such, and is cut in mid-sentence only where the last
\* segment ends or, an LLM's moment, at the ceiling of 90 seconds.
THEOREM WindowsSitWell == Spec => []WindowsEndWell
<1>1. IInv => WindowsEndWell
  <2> SUFFICES ASSUME IInv, Detected, NEW c \in picks
               PROVE  LET o == Ordered(transcript)
                          sentences == SentenceEnds(o, c.start)
                          good == sentences \cap (c.start + MinClip)..(c.start + MaxClip)
                          atCeiling == stage = "byReply" /\ c.end = c.start + MaxClip
                      IN  /\ c.end <= TranscriptEnd(o)
                          /\ good # {} => EndsAmong(o, c, good)
                          /\ sentences # {} => EndsAmong(o, c, sentences) \/ atCeiling
                          /\ (\E t \in good : t <= TranscriptEnd(o)) =>
                                 c.end - c.start \in MinClip..MaxClip
                          /\ c.end \in {o[i].end : i \in DOMAIN o} \/ atCeiling
    BY DEF WindowsEndWell
  <2>1. RunInv /\ transcript # <<>>
    BY DEF IInv, RunInv, Detected
  <2>2. Ordered(transcript) = transcript
    BY <2>1, TranscriptInOrder
  <2>3. PICK k \in DOMAIN Candidates : c = Candidates[k]
    BY <2>1, PicksAreBest
  <2>4. /\ Suits(transcript, c)
        /\ \/ Finishes(transcript, c)
           \/ stage = "byReply" /\ c.end = c.start + MaxClip
    BY <2>1, <2>3, PicksAreSelected
  <2>5. /\ SentenceEnds(transcript, c.start) = Sentences(transcript, c.start)
        /\ SentenceEnds(transcript, c.start) \cap (c.start + MinClip)..(c.start + MaxClip)
           = GoodEnds(transcript, c.start)
    BY DEF SentenceEnds, Sentences, GoodEnds
  <2>6. \A times : EndsAmong(transcript, c, times) <=> Among(transcript, c.end, times)
    BY DEF EndsAmong, Among
  <2>7. QED
    BY <2>2, <2>4, <2>5, <2>6 DEF Suits, EndsWell, Finishes
<1>2. QED
  BY <1>1, Invariance, PTL

\* Whatever times the LLM gives, its windows lie in the transcript and have 5 to 90 seconds.
THEOREM ReplyIsBounded == Spec => []ReplyWindowsBounded
<1>1. IInv => ReplyWindowsBounded
  <2> SUFFICES ASSUME IInv, stage = "byReply", NEW c \in picks
               PROVE  LET o == Ordered(transcript)
                      IN  /\ TranscriptStart(o) <= c.start /\ c.end <= TranscriptEnd(o)
                          /\ c.end - c.start \in MinValidCandidate..MaxClip
    BY DEF ReplyWindowsBounded
  <2>1. RunInv /\ Detected /\ transcript # <<>>
    BY DEF IInv, RunInv, Detected
  <2>2. Ordered(transcript) = transcript
    BY <2>1, TranscriptInOrder
  <2>3. PICK k \in DOMAIN Candidates : c = Candidates[k]
    BY <2>1, PicksAreBest
  <2>4. Suits(transcript, c) /\ c.end - c.start \in MinValidCandidate..MaxClip
    BY <2>1, <2>3, PicksAreSelected
  <2>5. QED
    BY <2>2, <2>4 DEF Suits
<1>2. QED
  BY <1>1, Invariance, PTL

\* At most TopN clips, no two of one start, and none left out for a worse one.
THEOREM BestKept == Spec => []BestAreKept
<1>1. IInv => BestAreKept
  <2> SUFFICES ASSUME IInv, Detected
               PROVE  /\ Cardinality(picks) <= TopN
                      /\ \A c, d \in picks : c.key = d.key => c = d
                      /\ \A c \in Offered \ picks :
                             \/ \E d \in picks : d.key = c.key /\ d.score >= c.score
                             \/ /\ Cardinality(picks) = TopN
                                /\ \A d \in picks : d.score >= c.score
    BY DEF BestAreKept
  <2>1. RunInv /\ transcript # <<>>
    BY DEF IInv, RunInv, Detected
  <2>2. Ordered(transcript) = transcript
    BY <2>1, TranscriptInOrder
  <2>3. Offered = {Candidates[k] : k \in DOMAIN Candidates}
    BY <2>2 DEF Offered, Candidates
  <2> HIDE DEF Candidates, Offered
  <2>4. QED
    BY <2>1, <2>3, PicksAreBest
<1>2. QED
  BY <1>1, Invariance, PTL

\* Captions show at every moment the words spoken then, for every transcript and window.
THEOREM CaptionsSync == Spec => []CaptionsInSync
<1>1. IInv => CaptionsInSync
  <2> SUFFICES ASSUME IInv, shot \in {"thumbnail", "published"}
               PROVE  /\ video.length = window.end - window.start
                      /\ \A n \in DOMAIN transcript, t \in 0..(video.length - 1) :
                             transcript[n].start < window.end /\ transcript[n].end > window.start =>
                             UNION {ToSet(video.cues[i].text) : i \in {k \in DOMAIN video.cues :
                                        video.cues[k].from <= t /\ t < video.cues[k].to}}
                             = Said(transcript, t + window.start) \ {Blank}
    BY DEF CaptionsInSync
  <2>1. /\ video = [length |-> window.end - window.start, cues |-> cues]
        /\ cues = Cues(CaptionSegments(transcript, window), window)
        /\ stage = "made" /\ window.start \in Int /\ window.end \in Int
    BY DEF IInv, ShotInv
  <2>2. video.length = window.end - window.start /\ video.cues = cues
    BY <2>1
  <2>3. transcript \in Seq(Segments)
    BY <2>1 DEF IInv, RunInv, Transcribes
  <2>4. ASSUME NEW n \in DOMAIN transcript, NEW t \in 0..(video.length - 1),
               transcript[n].start < window.end, transcript[n].end > window.start
        PROVE  UNION {ToSet(cues[i].text) : i \in {k \in DOMAIN cues :
                          cues[k].from <= t /\ t < cues[k].to}}
               = Said(transcript, t + window.start) \ {Blank}
    <3>1. t \in Nat /\ t < window.end - window.start
      BY <2>1, <2>2
    <3> DEFINE c == Cues(CaptionSegments(transcript, window), window)
    <3>2. UNION {ToSet(c[i].text) : i \in {k \in DOMAIN c : c[k].from <= t /\ t < c[k].to}}
          = Said(transcript, t + window.start) \ {Blank}
      BY <2>1, <2>3, <2>4, <3>1, CuesSayTranscript
    <3>3. cues = c
      BY <2>1
    <3> HIDE DEF c
    <3>4. QED
      BY <3>2, <3>3
  <2>5. QED
    BY <2>2, <2>4
<1>2. QED
  BY <1>1, Invariance, PTL

\* Whether a step returns or raises, it leaves no temporary audio or subtitle file.
THEOREM NothingTemporary == Spec => []NoTemporaryFiles
<1>1. IInv => NoTemporaryFiles
  BY DEF IInv, HeardInv, ShotInv, NoTemporaryFiles
<1>2. QED
  BY <1>1, Invariance, PTL

====
