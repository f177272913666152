---- MODULE Highlights ----
(***************************************************************************)
(* highlight_service: which moments of a transcript become clips, and how  *)
(* their windows are laid on sentence boundaries.  Operators only: the     *)
(* service keeps no state.  Times are in half seconds; what a text         *)
(* contributes is whether it ends a sentence and its weight in the score.  *)
(***************************************************************************)
EXTENDS Integers, Sequences, Functions, Ranking

CONSTANTS
    TopN,     \* DEFAULT_TOP_N
    Endings,  \* texts that end with . ! or ?
    Weight,   \* what each text adds to a snippet's score; 0 for a blank one
    NaN       \* a number an LLM gives that is not finite

Second == 2
TargetClip == 60 * Second
MinClip == 40 * Second
MaxClip == 90 * Second
MinValidCandidate == 5 * Second
ScanStep == 45 * Second

AbsDiff(a, b) == IF a < b THEN b - a ELSE a - b
Least(a, b) == IF a < b THEN a ELSE b
Greatest(a, b) == IF a < b THEN b ELSE a

\* sorted(segments, key=start), which keeps the order of equal starts.
Ordered(segments) ==
    LET places == DOMAIN segments
        before == {p \in places \X places :
                      \/ segments[p[1]].start < segments[p[2]].start
                      \/ segments[p[1]].start = segments[p[2]].start /\ p[1] < p[2]}
        by == Sorted(places, before)
    IN  [k \in DOMAIN by |-> segments[by[k]]]

EndsSentence(s) == s.text \in Endings

\* min(times, key=distance to a target): the first of the nearest.
Nearest(times, target) ==
    times[CHOOSE i \in DOMAIN times : \A j \in DOMAIN times :
              \/ AbsDiff(times[i], target) < AbsDiff(times[j], target)
              \/ AbsDiff(times[i], target) = AbsDiff(times[j], target) /\ i <= j]

\* A sentence starts where the segment before it ends one; without any such place
\* every segment start will do.
SnapStart(o, target) ==
    LET afterEnd == {i \in DOMAIN o : i > 1 /\ EndsSentence(o[i - 1])}
        starts == IF afterEnd = {} THEN DOMAIN o ELSE {1} \cup afterEnd
    IN  Nearest([i \in starts |-> o[i].start], target)

\* Mutant: the preference for 40 to 90 seconds is dropped.
SnapEndAnywhere(o, start) ==
    LET later == {i \in DOMAIN o : o[i].end > start}
        sentences == {i \in later : EndsSentence(o[i])}
        ends == IF sentences = {} THEN later ELSE sentences
    IN  IF ends = {} THEN start + TargetClip
        ELSE Nearest([i \in ends |-> o[i].end], start + TargetClip)

\* The sentence end nearest to the target length, among those of 40 to 90 seconds when
\* there are any.
SnapEnd(o, start) ==
    LET later == {i \in DOMAIN o : o[i].end > start}
        sentences == {i \in later : EndsSentence(o[i])}
        ends == IF sentences = {} THEN later ELSE sentences
        inRange == {i \in ends : o[i].end \in (start + MinClip)..(start + MaxClip)}
        pool == IF inRange = {} THEN ends ELSE inRange
    IN  IF ends = {} THEN start + TargetClip
        ELSE Nearest([i \in pool |-> o[i].end], start + TargetClip)

\* Segments at least partly inside a window.
Covered(o, start, end) == {i \in DOMAIN o : o[i].start < end /\ o[i].end > start}

\* _score_snippet counts words and marks, so it counts those of every part.
Score(o, covered) == Cardinality(UNION {{i} \X (1..Weight[o[i].text]) : i \in covered})

Candidate(key, start, end, score) == [key |-> key, start |-> start, end |-> end, score |-> score]

TranscriptStart(o) == o[1].start
TranscriptEnd(o) == o[Len(o)].end

----
(* Both detectors: one candidate per key, the best TopN of them. *)

\* Mutant: the first candidate of a key is kept, whatever the score.
FirstOfKey(cs) ==
    {i \in DOMAIN cs : \A j \in DOMAIN cs : cs[j].key = cs[i].key => i <= j}

\* best_by_start: of each key the candidate of the best score, the first of equals.
BestOfKey(cs) ==
    {i \in DOMAIN cs : \A j \in DOMAIN cs : cs[j].key = cs[i].key =>
        \/ cs[j].score < cs[i].score
        \/ cs[j].score = cs[i].score /\ i <= j}

\* A dictionary keeps a key where it was first inserted.
Place(cs, i) ==
    CHOOSE j \in DOMAIN cs :
        /\ cs[j].key = cs[i].key
        /\ \A k \in DOMAIN cs : cs[k].key = cs[i].key => j <= k

\* ranked[:top_n] of a stable sort by descending score.
Select(cs) ==
    LET kept == BestOfKey(cs)
        before == {p \in kept \X kept :
                      \/ cs[p[1]].score > cs[p[2]].score
                      \/ cs[p[1]].score = cs[p[2]].score /\ Place(cs, p[1]) < Place(cs, p[2])}
    IN  {cs[i] : i \in {k \in kept : Rank(kept, before, k) < TopN}}

----
(* HeuristicHighlightDetectionService. *)

\* Mutant: the last, incomplete step of the scan is left out.
FullStepsOnly(o) ==
    [k \in 1..((TranscriptEnd(o) - TranscriptStart(o)) \div ScanStep) |->
        TranscriptStart(o) + (k - 1) * ScanStep]

\* The scan: a target every 45 seconds from the first start up to the last end.
Targets(o) ==
    LET turns == (TranscriptEnd(o) - TranscriptStart(o) + ScanStep - 1) \div ScanStep
    IN  [k \in 1..turns |-> TranscriptStart(o) + (k - 1) * ScanStep]

ScanCandidate(o, target) ==
    LET start == SnapStart(o, target)
        end == Least(SnapEnd(o, start), TranscriptEnd(o))
    IN  Candidate(start, start, end, Score(o, Covered(o, start, end)))

HeuristicCandidates(o) ==
    LET targets == Targets(o)
        all == [k \in DOMAIN targets |-> ScanCandidate(o, targets[k])]
    IN  Restrict(all, {k \in DOMAIN all : /\ all[k].end > all[k].start
                                          /\ Covered(o, all[k].start, all[k].end) # {}})

HeuristicPicks(segments) ==
    IF segments = <<>> THEN {} ELSE Select(HeuristicCandidates(Ordered(segments)))

----
(* LLMHighlightDetectionService: only the start of a suggestion is believed. *)

\* round(): half to even, in whole seconds.
Rounded(t) ==
    LET whole == t \div Second
        below == t - whole * Second
        up == 2 * below > Second \/ (2 * below = Second /\ whole % 2 = 1)
    IN  IF up THEN whole + 1 ELSE whole

Anchor(o, at) == Least(Greatest(at, TranscriptStart(o)), TranscriptEnd(o))

\* Mutant: windows over 90 seconds are kept as they are.
NormalizedUncut(o, suggestion) ==
    LET start == SnapStart(o, Anchor(o, suggestion.at))
        end == Least(SnapEnd(o, start), TranscriptEnd(o))
        score == IF suggestion.score = NaN THEN 0 ELSE suggestion.score
    IN  Candidate(Rounded(start), start, end, score)

Normalized(o, suggestion) ==
    LET start == SnapStart(o, Anchor(o, suggestion.at))
        end == Least(SnapEnd(o, start), TranscriptEnd(o))
        score == IF suggestion.score = NaN THEN 0 ELSE suggestion.score
    IN  Candidate(Rounded(start), start, Least(end, start + MaxClip), score)

\* _validate_and_normalize_candidates: what is not a time, or leaves less than five
\* seconds, is dropped.
LlmCandidates(o, reply) ==
    LET all == [i \in {k \in DOMAIN reply : reply[k].at # NaN} |-> Normalized(o, reply[i])]
    IN  Restrict(all, {i \in DOMAIN all : all[i].end - all[i].start >= MinValidCandidate})

LlmPicks(segments, reply) ==
    IF segments = <<>> \/ reply = <<>> THEN {}
    ELSE Select(LlmCandidates(Ordered(segments), reply))
====
