---- MODULE HighlightsProofs ----
(***************************************************************************)
(* What the operators of Highlights return, for every transcript and every *)
(* answer of the LLM: sorting, the nearest sentence boundary, the windows  *)
(* of both detectors and the selection of the best.                        *)
(***************************************************************************)
EXTENDS Highlights, FiniteSetTheorems, SequenceTheorems, TLAPS

----
(* Places under a strict order. *)

\* before is a strict total order on S.
Orders(before, S) ==
    /\ \A x \in S : <<x, x>> \notin before
    /\ \A x, y \in S : x # y => <<x, y>> \in before \/ <<y, x>> \in before
    /\ \A x, y, z \in S : <<x, y>> \in before /\ <<y, z>> \in before => <<x, z>> \in before

\* A later element has more elements before it.
LEMMA RankGrows ==
    ASSUME NEW S, IsFiniteSet(S), NEW before, Orders(before, S),
           NEW x \in S, NEW y \in S, <<x, y>> \in before
    PROVE  Rank(S, before, x) < Rank(S, before, y)
<1> DEFINE B(z) == {w \in S : <<w, z>> \in before}
<1>1. B(x) \subseteq B(y) /\ x \in B(y) /\ x \notin B(x)
  BY DEF Orders
<1>2. IsFiniteSet(B(y))
  BY FS_Subset
<1>3. /\ Cardinality(B(x)) <= Cardinality(B(y))
      /\ Cardinality(B(y)) = Cardinality(B(x)) => B(y) = B(x)
  BY <1>1, <1>2, FS_Subset
<1>4. Cardinality(B(x)) \in Nat /\ Cardinality(B(y)) \in Nat
  BY <1>1, <1>2, FS_Subset, FS_CardinalityType
<1>5. QED
  BY <1>1, <1>3, <1>4 DEF Rank

\* Every place has exactly one element.
LEMMA RankPlaces ==
    ASSUME NEW S, IsFiniteSet(S), NEW before, Orders(before, S)
    PROVE  /\ \A x \in S : Rank(S, before, x) \in 0..(Cardinality(S) - 1)
           /\ \A x, y \in S : Rank(S, before, x) = Rank(S, before, y) => x = y
           /\ \A k \in 0..(Cardinality(S) - 1) : \E x \in S : Rank(S, before, x) = k
<1> DEFINE n == Cardinality(S)
           r == [x \in S |-> Rank(S, before, x)]
<1>1. n \in Nat
  BY FS_CardinalityType
<1>2. ASSUME NEW x \in S PROVE Rank(S, before, x) \in 0..(n - 1)
  <2> DEFINE B == {w \in S : <<w, x>> \in before}
  <2>1. B \subseteq S /\ x \notin B
    BY DEF Orders
  <2>2. IsFiniteSet(B) /\ Cardinality(B) <= n /\ Cardinality(B) # n
    BY <2>1, FS_Subset
  <2>3. Cardinality(B) \in Nat
    BY <2>2, FS_CardinalityType
  <2>4. QED
    BY <1>1, <2>2, <2>3 DEF Rank
<1>3. ASSUME NEW x \in S, NEW y \in S, Rank(S, before, x) = Rank(S, before, y) PROVE x = y
  <2> SUFFICES ASSUME x # y PROVE FALSE
    OBVIOUS
  <2>1. Rank(S, before, x) < Rank(S, before, y) \/ Rank(S, before, y) < Rank(S, before, x)
    BY RankGrows DEF Orders
  <2>2. QED
    BY <1>2, <1>3, <2>1
<1>4. r \in Injection(S, 0..(n - 1))
  BY <1>2, <1>3 DEF Injection, IsInjective
<1>5. IsFiniteSet(0..(n - 1)) /\ Cardinality(0..(n - 1)) = n
  BY <1>1, FS_Interval
<1>6. r \in Surjection(S, 0..(n - 1))
  BY <1>4, <1>5, FS_Injection
<1>7. QED
  BY <1>2, <1>3, <1>6 DEF Surjection

\* A set that is not empty has a first element.
LEMMA FirstExists ==
    ASSUME NEW S, IsFiniteSet(S), S # {}, NEW before, Orders(before, S)
    PROVE  \E x \in S : \A y \in S : y # x => <<x, y>> \in before
<1>1. Cardinality(S) \in Nat \ {0}
  BY FS_CardinalityType, FS_EmptySet
<1>2. PICK x \in S : Rank(S, before, x) = 0
  BY <1>1, RankPlaces
<1>3. IsFiniteSet({y \in S : <<y, x>> \in before})
  BY FS_Subset
<1>4. {y \in S : <<y, x>> \in before} = {}
  BY <1>2, <1>3, FS_EmptySet DEF Rank
<1>5. QED
  BY <1>4 DEF Orders

\* Sorting puts every element at one place, in order.
LEMMA SortedInOrder ==
    ASSUME NEW S, IsFiniteSet(S), NEW before, Orders(before, S)
    PROVE  LET by == Sorted(S, before)
           IN  /\ Cardinality(S) \in Nat
               /\ by \in [1..Cardinality(S) -> S]
               /\ \A i, j \in 1..Cardinality(S) : i < j => <<by[i], by[j]>> \in before
               /\ \A x \in S : \E i \in 1..Cardinality(S) : by[i] = x
<1> DEFINE n == Cardinality(S)
           by == Sorted(S, before)
<1>1. n \in Nat
  BY FS_CardinalityType
<1>2. ASSUME NEW k \in 1..n PROVE by[k] \in S /\ Rank(S, before, by[k]) = k - 1
  <2>1. \E x \in S : Rank(S, before, x) = k - 1
    BY <1>1, RankPlaces
  <2>2. by[k] = CHOOSE x \in S : Rank(S, before, x) = k - 1
    BY DEF Sorted
  <2>3. QED
    BY <2>1, <2>2
<1>3. by \in [1..n -> S]
  BY <1>2 DEF Sorted
<1>4. ASSUME NEW i \in 1..n, NEW j \in 1..n, i < j PROVE <<by[i], by[j]>> \in before
  <2>1. by[i] # by[j]
    BY <1>1, <1>2, <1>4
  <2>2. ~ (<<by[j], by[i]>> \in before)
    <3> SUFFICES ASSUME <<by[j], by[i]>> \in before PROVE FALSE
      OBVIOUS
    <3>1. Rank(S, before, by[j]) < Rank(S, before, by[i])
      BY <1>2, RankGrows
    <3>2. QED
      BY <1>1, <1>2, <1>4, <3>1
  <2>3. QED
    BY <1>2, <2>1, <2>2 DEF Orders
<1>5. ASSUME NEW x \in S PROVE \E i \in 1..n : by[i] = x
  <2> DEFINE i == Rank(S, before, x) + 1
  <2>1. i \in 1..n
    BY <1>1, RankPlaces
  <2>2. by[i] \in S /\ Rank(S, before, by[i]) = Rank(S, before, x)
    <3>1. Rank(S, before, by[i]) = i - 1
      BY <1>2, <2>1
    <3>2. Rank(S, before, x) \in Int
      BY <1>1, RankPlaces
    <3>3. QED
      BY <1>2, <2>1, <3>1, <3>2
  <2>3. by[i] = x
    BY <2>2, RankPlaces
  <2>4. QED
    BY <2>1, <2>3
<1>6. QED
  BY <1>1, <1>3, <1>4, <1>5

\* by lists a set of integers in order.
Lists(by, places) ==
    LET n == Cardinality(places)
    IN  /\ by \in [1..n -> places]
        /\ \A i, j \in 1..n : i < j => by[i] < by[j]
        /\ \A x \in places : \E i \in 1..n : by[i] = x

\* What is picked from a sequence is what its places hold, in its order.
LEMMA PickedInOrder ==
    ASSUME NEW s, NEW places, places \subseteq Int, IsFiniteSet(places)
    PROVE  /\ Cardinality(places) \in Nat /\ DOMAIN Picked(s, places) = 1..Cardinality(places)
           /\ \E by : /\ Lists(by, places)
                      /\ \A i \in 1..Cardinality(places) : Picked(s, places)[i] = s[by[i]]
<1> DEFINE before == {p \in places \X places : p[1] < p[2]}
           by == Sorted(places, before)
           n == Cardinality(places)
<1>1. \A x, y \in places : <<x, y>> \in before <=> x < y
  OBVIOUS
<1>2. Orders(before, places)
  BY <1>1 DEF Orders
<1> HIDE DEF before
<1>3. /\ n \in Nat /\ by \in [1..n -> places]
      /\ \A i, j \in 1..n : i < j => <<by[i], by[j]>> \in before
      /\ \A x \in places : \E i \in 1..n : by[i] = x
  BY <1>2, SortedInOrder
<1>4. Picked(s, places) = [k \in 1..n |-> s[by[k]]]
  BY <1>3 DEF Picked, before
<1> HIDE DEF by
<1>5. \A i, j \in 1..n : i < j => by[i] < by[j]
  BY <1>1, <1>3
<1>6. Lists(by, places)
  BY <1>3, <1>5 DEF Lists
<1>7. QED
  BY <1>3, <1>4, <1>6

----
(* A transcript in order. *)

\* Segments of positive length, by their start.
Track(o) ==
    /\ o \in Seq([start : Int, end : Int, text : DOMAIN Weight])
    /\ \A i \in DOMAIN o : o[i].start < o[i].end
    /\ \A i, j \in DOMAIN o : i < j => o[i].start <= o[j].start

\* Its places and what they hold.
LEMMA TrackPlaces ==
    ASSUME NEW o, Track(o)
    PROVE  /\ Len(o) \in Nat /\ DOMAIN o = 1..Len(o)
           /\ o = [k \in 1..Len(o) |-> o[k]]
           /\ \A i \in 1..Len(o) : /\ o[i].start \in Int /\ o[i].end \in Int
                                   /\ o[i].text \in DOMAIN Weight
           /\ o # <<>> => 1 \in 1..Len(o) /\ Len(o) \in 1..Len(o)
<1> DEFINE S == [start : Int, end : Int, text : DOMAIN Weight]
<1>1. o \in Seq(S)
  BY DEF Track
<1> HIDE DEF S
<1>2. Len(o) \in Nat /\ o \in [1..Len(o) -> S] /\ DOMAIN o = 1..Len(o)
  BY <1>1, LenProperties
<1>3. \A i \in 1..Len(o) : o[i] \in S
  BY <1>2
<1>4. o # <<>> => Len(o) # 0
  BY <1>1, EmptySeq
<1>5. QED
  BY <1>2, <1>3, <1>4 DEF S

\* Sorting it changes nothing.
LEMMA OrderedTrack ==
    ASSUME NEW o, Track(o)
    PROVE  Ordered(o) = o
<1> DEFINE places == DOMAIN o
           before == {p \in places \X places :
                         \/ o[p[1]].start < o[p[2]].start
                         \/ o[p[1]].start = o[p[2]].start /\ p[1] < p[2]}
           by == Sorted(places, before)
<1>1. PICK n \in Nat : places = 1..n /\ o = [k \in 1..n |-> o[k]]
  BY TrackPlaces
<1>2. \A i \in places : o[i].start \in Int
  BY TrackPlaces
<1>3. \A i, j \in places : <<i, j>> \in before <=> i < j
  <2> SUFFICES ASSUME NEW i \in places, NEW j \in places PROVE <<i, j>> \in before <=> i < j
    OBVIOUS
  <2>1. <<i, j>> \in before <=> \/ o[i].start < o[j].start
                                \/ o[i].start = o[j].start /\ i < j
    OBVIOUS
  <2>2. /\ i < j => o[i].start <= o[j].start
        /\ j < i => o[j].start <= o[i].start
    BY DEF Track
  <2>3. i \in Int /\ j \in Int /\ o[i].start \in Int /\ o[j].start \in Int
    BY <1>1, <1>2
  <2> HIDE DEF before, places
  <2>4. QED
    BY <2>1, <2>2, <2>3
<1> HIDE DEF before
<1>4. ASSUME NEW k \in places PROVE Rank(places, before, k) = k - 1
  <2>1. {y \in places : <<y, k>> \in before} = 1..(k - 1)
    BY <1>1, <1>3
  <2>2. Cardinality(1..(k - 1)) = k - 1
    BY <1>1, FS_Interval
  <2>3. QED
    BY <2>1, <2>2 DEF Rank
<1>5. Cardinality(places) = n
  BY <1>1, FS_Interval
<1>6. ASSUME NEW k \in places PROVE by[k] = k
  <2>1. by[k] = CHOOSE x \in places : Rank(places, before, x) = k - 1
    BY <1>1, <1>5 DEF Sorted
  <2>2. \A x \in places : Rank(places, before, x) = k - 1 <=> x = k
    BY <1>1, <1>4
  <2>3. QED
    BY <2>1, <2>2
<1>7. DOMAIN by = places
  BY <1>1, <1>5 DEF Sorted
<1>8. Ordered(o) = [k \in DOMAIN by |-> o[by[k]]]
  BY DEF Ordered, before
<1> HIDE DEF by
<1>9. QED
  BY <1>1, <1>6, <1>7, <1>8

\* min(..., key=distance) is one of the times, and none is nearer.
LEMMA NearestIsNearest ==
    ASSUME NEW times, IsFiniteSet(DOMAIN times), DOMAIN times \subseteq Int,
           DOMAIN times # {}, \A i \in DOMAIN times : times[i] \in Int,
           NEW target \in Int
    PROVE  \E i \in DOMAIN times :
               /\ Nearest(times, target) = times[i]
               /\ \A j \in DOMAIN times : AbsDiff(times[i], target) <= AbsDiff(times[j], target)
<1> DEFINE D == DOMAIN times
           d(i) == AbsDiff(times[i], target)
           first(i, j) == d(i) < d(j) \/ (d(i) = d(j) /\ i <= j)
           before == {p \in D \X D : d(p[1]) < d(p[2]) \/ (d(p[1]) = d(p[2]) /\ p[1] < p[2])}
<1>1. \A i \in D : d(i) \in Int
  BY DEF AbsDiff
<1> HIDE DEF d
<1>2. \A i, j \in D : <<i, j>> \in before <=> d(i) < d(j) \/ (d(i) = d(j) /\ i < j)
  OBVIOUS
<1> HIDE DEF before
<1>3. Orders(before, D)
  BY <1>1, <1>2 DEF Orders
<1>4. PICK x \in D : \A y \in D : y # x => <<x, y>> \in before
  BY <1>3, FirstExists
<1>5. \A j \in D : first(x, j)
  <2> SUFFICES ASSUME NEW j \in D PROVE first(x, j)
    OBVIOUS
  <2>1. x \in Int /\ j \in Int
    OBVIOUS
  <2>2. CASE j = x
    BY <2>1, <2>2
  <2>3. CASE j # x
    <3>1. <<x, j>> \in before
      BY <1>4, <2>3
    <3>2. d(x) < d(j) \/ (d(x) = d(j) /\ x < j)
      BY <1>2, <3>1
    <3> HIDE DEF D
    <3>3. QED
      BY <2>1, <3>2
  <2>4. QED
    BY <2>2, <2>3
<1>6. Nearest(times, target) = times[CHOOSE i \in D : \A j \in D : first(i, j)]
  BY DEF Nearest, d
<1> DEFINE c == CHOOSE i \in D : \A j \in D : first(i, j)
<1>7. c \in D /\ \A j \in D : first(c, j)
  BY <1>5
<1> HIDE DEF c
<1>8. \A j \in D : d(c) <= d(j)
  BY <1>1, <1>7
<1>9. QED
  BY <1>6, <1>7, <1>8 DEF c, d

\* A window begins where some segment does, and where the transcript does when asked to.
LEMMA SnapStartIsAStart ==
    ASSUME NEW o, Track(o), o # <<>>, NEW target \in Int
    PROVE  /\ \E i \in DOMAIN o : SnapStart(o, target) = o[i].start
           /\ target = o[1].start => SnapStart(o, target) = target
<1> DEFINE afterEnd == {i \in DOMAIN o : i > 1 /\ EndsSentence(o[i - 1])}
           starts == IF afterEnd = {} THEN DOMAIN o ELSE {1} \cup afterEnd
           times == [i \in starts |-> o[i].start]
<1>1. PICK n \in Nat : n >= 1 /\ DOMAIN o = 1..n
  BY TrackPlaces
<1>2. starts \subseteq 1..n /\ 1 \in starts
  BY <1>1
<1>3. IsFiniteSet(starts)
  BY <1>1, <1>2, FS_Interval, FS_Subset
<1>4. SnapStart(o, target) = Nearest(times, target)
  BY DEF SnapStart
<1> HIDE DEF starts
<1>5. \A i \in starts : times[i] = o[i].start /\ times[i] \in Int
  BY <1>1, <1>2, TrackPlaces
<1>6. DOMAIN times = starts
  OBVIOUS
<1> HIDE DEF times
<1>7. PICK i \in starts :
          /\ Nearest(times, target) = times[i]
          /\ \A j \in starts : AbsDiff(times[i], target) <= AbsDiff(times[j], target)
  <2>1. /\ IsFiniteSet(DOMAIN times) /\ DOMAIN times \subseteq Int /\ DOMAIN times # {}
        /\ \A i \in DOMAIN times : times[i] \in Int
    <3>1. starts \subseteq Int /\ starts # {}
      BY <1>1, <1>2
    <3>2. QED
      BY <1>3, <1>5, <1>6, <3>1
  <2>2. QED
    BY <1>6, <2>1, NearestIsNearest
<1>8. target = o[1].start => times[i] = target
  BY <1>2, <1>5, <1>7 DEF AbsDiff
<1>9. QED
  BY <1>1, <1>2, <1>4, <1>5, <1>7, <1>8

\* Where sentences end after a moment, and 40 to 90 seconds after it.
Sentences(o, start) == {o[i].end : i \in {k \in DOMAIN o : EndsSentence(o[k]) /\ o[k].end > start}}
GoodEnds(o, start) == Sentences(o, start) \cap (start + MinClip)..(start + MaxClip)

\* A window ends where some segment does: with a sentence when one ends after its start,
\* with one of 40 to 90 seconds when there is such; with nothing after its start it has the
\* target length.
LEMMA SnapEndIsAnEnd ==
    ASSUME NEW o, Track(o), NEW start \in Int
    PROVE  LET e == SnapEnd(o, start)
           IN  /\ \/ e > start /\ \E i \in DOMAIN o : e = o[i].end
                  \/ e = start + TargetClip /\ \A i \in DOMAIN o : o[i].end <= start
               /\ Sentences(o, start) # {} => e \in Sentences(o, start)
               /\ GoodEnds(o, start) # {} => e \in GoodEnds(o, start)
<1> DEFINE near == (start + MinClip)..(start + MaxClip)
           later == {i \in DOMAIN o : o[i].end > start}
           sentences == {i \in later : EndsSentence(o[i])}
           ends == IF sentences = {} THEN later ELSE sentences
           inRange == {i \in ends : o[i].end \in near}
           pool == IF inRange = {} THEN ends ELSE inRange
           times == [i \in pool |-> o[i].end]
<1>1. SnapEnd(o, start) = IF ends = {} THEN start + TargetClip
                          ELSE Nearest(times, start + TargetClip)
  BY DEF SnapEnd
<1>2. /\ \A i \in DOMAIN o : o[i].end \in Int
      /\ DOMAIN o \subseteq Int /\ IsFiniteSet(DOMAIN o)
  <2>1. DOMAIN o = 1..Len(o) /\ Len(o) \in Int /\ \A i \in DOMAIN o : o[i].end \in Int
    BY TrackPlaces
  <2>2. QED
    BY <2>1, FS_Interval
<1>a. Sentences(o, start) = {o[i].end : i \in sentences}
  BY DEF Sentences
<1>3. CASE ends = {}
  <2>1. later = {}
    BY <1>3
  <2>2. \A i \in DOMAIN o : o[i].end <= start
    BY <1>2, <2>1
  <2>3. Sentences(o, start) = {} /\ GoodEnds(o, start) = {}
    BY <1>a, <2>1 DEF GoodEnds
  <2>4. QED
    BY <1>1, <1>3, <2>2, <2>3
<1>4. CASE ends # {}
  <2>1. pool \subseteq later /\ pool # {}
    BY <1>4
  <2>2. /\ IsFiniteSet(pool) /\ pool \subseteq Int
        /\ \A i \in pool : times[i] = o[i].end /\ times[i] \in Int
    BY <1>2, <2>1, FS_Subset
  <2>3. Sentences(o, start) # {} => \A i \in pool : o[i].end \in Sentences(o, start)
    BY <1>a
  <2>4. GoodEnds(o, start) # {} => \A i \in pool : o[i].end \in GoodEnds(o, start)
    <3> SUFFICES ASSUME GoodEnds(o, start) # {}
                 PROVE  \A i \in pool : o[i].end \in GoodEnds(o, start)
      OBVIOUS
    <3>1. PICK i \in sentences : o[i].end \in near
      BY <1>a DEF GoodEnds
    <3>2. pool = {k \in sentences : o[k].end \in near}
      BY <3>1
    <3>3. QED
      BY <1>a, <3>2 DEF GoodEnds
  <2>5. DOMAIN times = pool
    OBVIOUS
  <2>6. start + TargetClip \in Int
    BY DEF TargetClip, Second
  <2> HIDE DEF pool, times
  <2>7. PICK i \in pool : Nearest(times, start + TargetClip) = times[i]
    BY <2>1, <2>2, <2>5, <2>6, NearestIsNearest
  <2>8. SnapEnd(o, start) = o[i].end
    BY <1>1, <1>4, <2>2, <2>7
  <2>9. i \in DOMAIN o /\ o[i].end > start
    BY <2>1, <2>7
  <2>10. QED
    BY <2>3, <2>4, <2>7, <2>8, <2>9
<1>5. QED
  BY <1>3, <1>4

\* A window from `start` that is to end at one of some times, and is cut to the transcript.
Among(o, end, times) ==
    end \in times \/ (end = TranscriptEnd(o) /\ \E t \in times : t > end)

\* It ends with a sentence of a good length when there is one.
EndsWell(o, start, end) ==
    /\ GoodEnds(o, start) # {} => Among(o, end, GoodEnds(o, start))
    /\ (\E t \in GoodEnds(o, start) : t <= TranscriptEnd(o)) => end - start \in MinClip..MaxClip

\* So does a window cut to the transcript, and it is not empty unless it begins at the end.
LEMMA WindowEnds ==
    ASSUME NEW o, Track(o), o # <<>>, NEW start \in Int
    PROVE  LET e == Least(SnapEnd(o, start), TranscriptEnd(o))
           IN  /\ e \in Int /\ e <= TranscriptEnd(o)
               /\ \E i \in DOMAIN o : e = o[i].end
               /\ start < TranscriptEnd(o) => start < e
               /\ EndsWell(o, start, e)
               /\ Sentences(o, start) # {} => Among(o, e, Sentences(o, start))
<1> DEFINE e == SnapEnd(o, start)
           last == TranscriptEnd(o)
           near == (start + MinClip)..(start + MaxClip)
<1>1. /\ Len(o) \in DOMAIN o /\ last = o[Len(o)].end
      /\ \A i \in DOMAIN o : o[i].end \in Int
  BY TrackPlaces DEF TranscriptEnd
<1>2. /\ \/ e > start /\ \E i \in DOMAIN o : e = o[i].end
         \/ e = start + TargetClip /\ \A i \in DOMAIN o : o[i].end <= start
      /\ Sentences(o, start) # {} => e \in Sentences(o, start)
      /\ GoodEnds(o, start) # {} => e \in GoodEnds(o, start)
  BY SnapEndIsAnEnd
<1>3. GoodEnds(o, start) \subseteq near /\ GoodEnds(o, start) \subseteq Sentences(o, start)
  BY DEF GoodEnds
<1> HIDE DEF e
<1>4. e \in Int /\ last \in Int
  BY <1>1, <1>2 DEF TargetClip, Second
<1>5. \A times : e \in times => Among(o, Least(e, last), times)
  BY <1>4 DEF Among, Least
<1>6. (\E t \in GoodEnds(o, start) : t <= last) => Least(e, last) - start \in MinClip..MaxClip
  <2> SUFFICES ASSUME NEW t \in GoodEnds(o, start), t <= last
               PROVE  Least(e, last) - start \in MinClip..MaxClip
    OBVIOUS
  <2>1. e \in near /\ t \in near
    BY <1>2, <1>3
  <2> HIDE DEF last
  <2>2. QED
    BY <1>4, <2>1 DEF Least, MinClip, MaxClip, Second
<1>7. /\ EndsWell(o, start, Least(e, last))
      /\ Sentences(o, start) # {} => Among(o, Least(e, last), Sentences(o, start))
  BY <1>2, <1>5, <1>6 DEF EndsWell
<1>8. CASE e > start /\ \E i \in DOMAIN o : e = o[i].end
  <2>1. Least(e, last) \in {e, last}
    BY DEF Least
  <2>2. \E i \in DOMAIN o : Least(e, last) = o[i].end
    BY <1>1, <1>8, <2>1
  <2>3. /\ Least(e, last) \in Int /\ Least(e, last) <= last
        /\ start < last => start < Least(e, last)
    BY <1>4, <1>8 DEF Least
  <2>4. QED
    BY <1>7, <2>2, <2>3 DEF e
<1>9. CASE e = start + TargetClip /\ \A i \in DOMAIN o : o[i].end <= start
  <2>1. last <= start
    BY <1>1, <1>9
  <2>2. Least(e, last) = last
    BY <1>4, <1>9, <2>1 DEF Least, TargetClip, Second
  <2>3. QED
    BY <1>1, <1>4, <1>7, <2>1, <2>2 DEF e
<1>10. QED
  BY <1>2, <1>8, <1>9

----
(* Candidates. *)

\* A snippet's score is a number.
LEMMA ScoreIsANumber ==
    ASSUME NEW o, Track(o), Weight \in [DOMAIN Weight -> Nat],
           NEW covered, covered \subseteq DOMAIN o
    PROVE  Score(o, covered) \in Nat
<1> DEFINE part(i) == {i} \X (1..Weight[o[i].text])
           parts == {part(i) : i \in covered}
           f == [i \in covered |-> part(i)]
<1>1. IsFiniteSet(covered)
  <2>1. IsFiniteSet(DOMAIN o)
    <3>1. DOMAIN o = 1..Len(o) /\ Len(o) \in Int
      BY TrackPlaces
    <3>2. QED
      BY <3>1, FS_Interval
  <2>2. QED
    BY <2>1, FS_Subset
<1>2. ASSUME NEW i \in covered PROVE IsFiniteSet(part(i))
  <2>1. PICK w \in Int : w = Weight[o[i].text]
    <3>1. o[i].text \in DOMAIN Weight
      BY TrackPlaces
    <3>2. QED
      BY <3>1
  <2>2. IsFiniteSet(1..Weight[o[i].text])
    <3>1. IsFiniteSet(1..w)
      BY FS_Interval
    <3>2. QED
      BY <2>1, <3>1
  <2>3. IsFiniteSet({i})
    BY FS_Singleton
  <2>4. QED
    BY <2>2, <2>3, FS_Product
<1>3. Score(o, covered) = Cardinality(UNION parts)
  BY DEF Score
<1> HIDE DEF part
<1>4. f \in Surjection(covered, parts)
  BY DEF Surjection
<1>5. IsFiniteSet(parts)
  BY <1>1, <1>4, FS_Surjection
<1>6. IsFiniteSet(UNION parts)
  BY <1>2, <1>5, FS_UNION
<1>7. QED
  BY <1>3, <1>6, FS_CardinalityType

\* A candidate lies in the transcript, and ends with a sentence of a good length when one
\* allows it.
Suits(o, c) ==
    /\ c.key \in Int /\ c.start \in Int /\ c.end \in Int /\ c.score \in Int
    /\ TranscriptStart(o) <= c.start /\ c.end <= TranscriptEnd(o)
    /\ EndsWell(o, c.start, c.end)

\* It ends where some segment does, with a sentence when one allows it.
Finishes(o, c) ==
    /\ \E i \in DOMAIN o : c.end = o[i].end
    /\ Sentences(o, c.start) # {} => Among(o, c.end, Sentences(o, c.start))

\* Both detectors lay a window at a target the same way.
LEMMA WindowLaid ==
    ASSUME NEW o, Track(o), o # <<>>, NEW target \in Int
    PROVE  LET start == SnapStart(o, target)
               end == Least(SnapEnd(o, start), TranscriptEnd(o))
           IN  /\ start \in Int /\ end \in Int
               /\ TranscriptStart(o) <= start /\ end <= TranscriptEnd(o)
               /\ \E i \in DOMAIN o : end = o[i].end
               /\ EndsWell(o, start, end)
               /\ Sentences(o, start) # {} => Among(o, end, Sentences(o, start))
<1> DEFINE start == SnapStart(o, target)
<1>1. PICK i \in DOMAIN o : start = o[i].start
  BY SnapStartIsAStart
<1>2. start \in Int /\ TranscriptStart(o) <= start
  <2>1. i \in 1..Len(o) /\ o[i].start \in Int /\ 1 \in DOMAIN o /\ o[1].start \in Int
    BY TrackPlaces
  <2>2. 1 < i => o[1].start <= o[i].start
    BY <2>1 DEF Track
  <2>3. QED
    BY <1>1, <2>1, <2>2 DEF TranscriptStart
<1> HIDE DEF start
<1>3. QED
  BY <1>2, WindowEnds DEF start

\* The heuristic detector's candidates suit and end with segments; a transcript of
\* positive length gives it one.
LEMMA HeuristicCandidatesSuit ==
    ASSUME NEW o, Track(o), o # <<>>, Weight \in [DOMAIN Weight -> Nat]
    PROVE  LET cs == HeuristicCandidates(o)
           IN  /\ IsFiniteSet(DOMAIN cs) /\ DOMAIN cs \subseteq Int
               /\ \A k \in DOMAIN cs : Suits(o, cs[k]) /\ Finishes(o, cs[k])
               /\ TranscriptEnd(o) > TranscriptStart(o) => DOMAIN cs # {}
<1> DEFINE targets == Targets(o)
           turns == (TranscriptEnd(o) - TranscriptStart(o) + ScanStep - 1) \div ScanStep
           all == [k \in DOMAIN targets |-> ScanCandidate(o, targets[k])]
           kept == {k \in DOMAIN all : /\ all[k].end > all[k].start
                                       /\ Covered(o, all[k].start, all[k].end) # {}}
<1>1. /\ 1 \in DOMAIN o /\ Len(o) \in DOMAIN o
      /\ \A i \in DOMAIN o : o[i].start \in Int /\ o[i].end \in Int /\ o[i].start < o[i].end
  BY TrackPlaces DEF Track
<1>2. TranscriptStart(o) \in Int /\ TranscriptEnd(o) \in Int
  BY <1>1 DEF TranscriptStart, TranscriptEnd
<1>3. turns \in Int /\ DOMAIN targets = 1..turns
  BY <1>2 DEF Targets, ScanStep, Second
<1>4. ASSUME NEW k \in DOMAIN targets
      PROVE  /\ targets[k] \in Int
             /\ targets[1] = TranscriptStart(o)
  BY <1>2, <1>3 DEF Targets, ScanStep, Second
<1> HIDE DEF targets, turns
<1>5. HeuristicCandidates(o) = [k \in kept |-> all[k]]
  BY DEF HeuristicCandidates, Restrict, targets
<1>6. IsFiniteSet(DOMAIN targets) /\ DOMAIN targets \subseteq Int
  BY <1>3, FS_Interval
<1>7. IsFiniteSet(kept) /\ kept \subseteq DOMAIN targets
  BY <1>6, FS_Subset
<1>8. ASSUME NEW k \in DOMAIN targets
      PROVE  /\ Suits(o, all[k]) /\ Finishes(o, all[k])
             /\ all[k].start = SnapStart(o, targets[k])
             /\ all[k].end = Least(SnapEnd(o, all[k].start), TranscriptEnd(o))
  <2> DEFINE start == SnapStart(o, targets[k])
             end == Least(SnapEnd(o, start), TranscriptEnd(o))
             score == Score(o, Covered(o, start, end))
  <2>1. /\ start \in Int /\ end \in Int
        /\ TranscriptStart(o) <= start /\ end <= TranscriptEnd(o)
        /\ \E i \in DOMAIN o : end = o[i].end
        /\ EndsWell(o, start, end)
        /\ Sentences(o, start) # {} => Among(o, end, Sentences(o, start))
    BY <1>4, WindowLaid
  <2>2. score \in Int
    <3>1. Covered(o, start, end) \subseteq DOMAIN o
      BY DEF Covered
    <3>2. QED
      BY <3>1, ScoreIsANumber
  <2>3. all[k] = [key |-> start, start |-> start, end |-> end, score |-> score]
    BY DEF ScanCandidate, Candidate
  <2> HIDE DEF start, end, score
  <2>4. /\ all[k].start = start /\ all[k].end = end /\ all[k].key = start
        /\ all[k].score = score
    BY <2>3
  <2> HIDE DEF all
  <2>5. Suits(o, all[k]) /\ Finishes(o, all[k])
    BY <2>1, <2>2, <2>4 DEF Suits, Finishes
  <2>6. QED
    BY <2>4, <2>5 DEF start, end
<1>9. ASSUME TranscriptEnd(o) > TranscriptStart(o) PROVE 1 \in kept
  <2>1. 1 \in DOMAIN targets
    BY <1>2, <1>3, <1>9 DEF turns, ScanStep, Second
  <2>2. targets[1] = o[1].start
    BY <1>4, <2>1 DEF TranscriptStart
  <2>3. all[1].start = o[1].start
    <3>1. SnapStart(o, targets[1]) = targets[1]
      BY <1>1, <2>2, SnapStartIsAStart
    <3>2. QED
      BY <1>8, <2>1, <2>2, <3>1
  <2>4. all[1].end \in Int /\ all[1].end > all[1].start
    <3>1. o[1].start \in Int /\ o[1].start < TranscriptEnd(o)
      BY <1>1, <1>9 DEF TranscriptStart
    <3>2. all[1].end = Least(SnapEnd(o, o[1].start), TranscriptEnd(o))
      BY <1>8, <2>1, <2>3
    <3> HIDE DEF all
    <3>3. all[1].end \in Int /\ o[1].start < all[1].end
      BY <3>1, <3>2, WindowEnds
    <3>4. QED
      BY <2>3, <3>1, <3>3
  <2>5. 1 \in Covered(o, all[1].start, all[1].end)
    BY <1>1, <2>3, <2>4 DEF Covered
  <2>6. QED
    BY <2>1, <2>4, <2>5
<1>10. DOMAIN HeuristicCandidates(o) = kept /\ \A k \in kept : HeuristicCandidates(o)[k] = all[k]
  BY <1>5
<1> HIDE DEF all, kept
<1>11. QED
  BY <1>6, <1>7, <1>8, <1>9, <1>10

\* The LLM's candidates suit too, have 5 to 90 seconds, and end with a segment unless they
\* were cut at 90.
LEMMA LlmCandidatesSuit ==
    ASSUME NEW o, Track(o), o # <<>>,
           NEW reply \in Seq([at : Int \cup {NaN}, score : Int \cup {NaN}])
    PROVE  LET cs == LlmCandidates(o, reply)
           IN  /\ IsFiniteSet(DOMAIN cs) /\ DOMAIN cs \subseteq Int
               /\ \A k \in DOMAIN cs :
                      /\ Suits(o, cs[k])
                      /\ Finishes(o, cs[k]) \/ cs[k].end = cs[k].start + MaxClip
                      /\ cs[k].end - cs[k].start \in MinValidCandidate..MaxClip
<1> DEFINE timed == {k \in DOMAIN reply : reply[k].at # NaN}
           all == [i \in timed |-> Normalized(o, reply[i])]
           kept == {i \in DOMAIN all : all[i].end - all[i].start >= MinValidCandidate}
<1>1. /\ DOMAIN reply = 1..Len(reply) /\ Len(reply) \in Nat
      /\ \A i \in DOMAIN reply : /\ reply[i].at \in Int \cup {NaN}
                                 /\ reply[i].score \in Int \cup {NaN}
  <2> DEFINE S == [at : Int \cup {NaN}, score : Int \cup {NaN}]
  <2>1. DOMAIN reply = 1..Len(reply) /\ Len(reply) \in Nat /\ \A i \in DOMAIN reply : reply[i] \in S
    <3>1. reply \in Seq(S)
      OBVIOUS
    <3> HIDE DEF S
    <3>2. QED
      BY <3>1, LenProperties
  <2>2. QED
    BY <2>1
<1>2. IsFiniteSet(DOMAIN reply) /\ DOMAIN reply \subseteq Int
  <2>1. Len(reply) \in Int
    BY <1>1
  <2>2. QED
    BY <1>1, <2>1, FS_Interval
<1>3. IsFiniteSet(kept) /\ kept \subseteq timed
  BY <1>2, FS_Subset
<1>4. LlmCandidates(o, reply) = [i \in kept |-> all[i]]
  BY DEF LlmCandidates, Restrict
<1>5. ASSUME NEW k \in timed
      PROVE  /\ Suits(o, all[k])
             /\ Finishes(o, all[k]) \/ all[k].end = all[k].start + MaxClip
             /\ all[k].end - all[k].start <= MaxClip
  <2> DEFINE at == Anchor(o, reply[k].at)
             start == SnapStart(o, at)
             end == Least(SnapEnd(o, start), TranscriptEnd(o))
             cut == Least(end, start + MaxClip)
             score == IF reply[k].score = NaN THEN 0 ELSE reply[k].score
  <2>1. at \in Int
    <3>1. reply[k].at \in Int
      BY <1>1
    <3>2. TranscriptStart(o) \in Int /\ TranscriptEnd(o) \in Int
      BY TrackPlaces DEF TranscriptStart, TranscriptEnd
    <3>3. QED
      BY <3>1, <3>2 DEF Anchor, Least, Greatest
  <2> HIDE DEF at
  <2>2. /\ start \in Int /\ end \in Int
        /\ TranscriptStart(o) <= start /\ end <= TranscriptEnd(o)
        /\ \E i \in DOMAIN o : end = o[i].end
        /\ EndsWell(o, start, end)
        /\ Sentences(o, start) # {} => Among(o, end, Sentences(o, start))
    BY <2>1, WindowLaid
  <2>3. score \in Int
    BY <1>1
  <2>4. Rounded(start) \in Int
    BY <2>2 DEF Rounded, Second
  <2>5. all[k] = [key |-> Rounded(start), start |-> start, end |-> cut, score |-> score]
    BY DEF Normalized, Candidate, at
  <2> HIDE DEF start, end, score
  <2>6. /\ cut \in Int /\ cut <= end /\ cut <= start + MaxClip
        /\ cut = end \/ (cut = start + MaxClip /\ cut < end)
    <3>1. start \in Int /\ end \in Int
      BY <2>2
    <3> HIDE DEF start, end
    <3>2. QED
      BY <3>1 DEF Least, MaxClip, MinClip, Second
  <2>7. TranscriptEnd(o) \in Int
    BY TrackPlaces DEF TranscriptEnd
  <2> HIDE DEF cut
  <2>8. /\ all[k].start = start /\ all[k].end = cut /\ all[k].key = Rounded(start)
        /\ all[k].score = score
    BY <2>5
  <2> HIDE DEF all
  <2>9. EndsWell(o, start, cut)
    <3>1. CASE cut = end
      BY <2>2, <3>1
    <3>2. CASE cut = start + MaxClip /\ cut < end
      <4>1. GoodEnds(o, start) = {}
        <5> SUFFICES ASSUME GoodEnds(o, start) # {} PROVE FALSE
          OBVIOUS
        <5>1. Among(o, end, GoodEnds(o, start))
          BY <2>2 DEF EndsWell
        <5>2. \A t \in GoodEnds(o, start) : t \in Int /\ t <= start + MaxClip
          BY <2>2 DEF GoodEnds, MaxClip, MinClip, Second
        <5>3. start \in Int /\ end \in Int /\ start + MaxClip < end
          BY <2>2, <2>6, <3>2
        <5>4. CASE end \in GoodEnds(o, start)
          BY <5>2, <5>3, <5>4 DEF MaxClip, Second
        <5>5. CASE \E t \in GoodEnds(o, start) : t > end
          BY <5>2, <5>3, <5>5 DEF MaxClip, Second
        <5>6. QED
          BY <5>1, <5>4, <5>5 DEF Among
      <4>2. QED
        BY <4>1 DEF EndsWell
    <3>3. QED
      BY <2>6, <3>1, <3>2
  <2>10. Suits(o, all[k])
    BY <2>2, <2>3, <2>4, <2>6, <2>7, <2>8, <2>9 DEF Suits
  <2>11. cut - start <= MaxClip
    BY <2>2, <2>6 DEF MaxClip, Second
  <2>12. cut = end => Finishes(o, all[k])
    BY <2>2, <2>8 DEF Finishes
  <2>13. QED
    BY <2>6, <2>8, <2>10, <2>11, <2>12
<1>6. DOMAIN LlmCandidates(o, reply) = kept /\ \A k \in kept : LlmCandidates(o, reply)[k] = all[k]
  BY <1>4
<1>7. ASSUME NEW k \in kept PROVE all[k].end - all[k].start \in MinValidCandidate..MaxClip
  <2>1. k \in timed /\ all[k].end - all[k].start >= MinValidCandidate
    OBVIOUS
  <2>2. all[k].start \in Int /\ all[k].end \in Int /\ all[k].end - all[k].start <= MaxClip
    BY <1>5, <2>1 DEF Suits
  <2>3. MaxClip \in Int /\ MinValidCandidate \in Int
    BY DEF MinValidCandidate, MaxClip, Second
  <2> HIDE DEF all, kept
  <2>4. QED
    BY <2>1, <2>2, <2>3
<1> HIDE DEF all, kept
<1>8. QED
  BY <1>2, <1>3, <1>5, <1>6, <1>7

----
(* The selection. *)

\* Of the candidates of a key one is the best.
LEMMA BestExists ==
    ASSUME NEW cs, IsFiniteSet(DOMAIN cs), DOMAIN cs \subseteq Int,
           \A i \in DOMAIN cs : cs[i].score \in Int, NEW i \in DOMAIN cs
    PROVE  \E b \in BestOfKey(cs) : cs[b].key = cs[i].key /\ cs[b].score >= cs[i].score
<1> DEFINE same == {j \in DOMAIN cs : cs[j].key = cs[i].key}
           before == {p \in same \X same : \/ cs[p[1]].score > cs[p[2]].score
                                           \/ cs[p[1]].score = cs[p[2]].score /\ p[1] < p[2]}
<1>1. IsFiniteSet(same) /\ i \in same /\ same \subseteq Int
  BY FS_Subset
<1>2. \A x, y \in same : <<x, y>> \in before <=>
          cs[x].score > cs[y].score \/ (cs[x].score = cs[y].score /\ x < y)
  OBVIOUS
<1>3. \A x \in same : cs[x].score \in Int /\ x \in Int
  OBVIOUS
<1> HIDE DEF before
<1>4. Orders(before, same)
  BY <1>2, <1>3 DEF Orders
<1>5. PICK b \in same : \A y \in same : y # b => <<b, y>> \in before
  BY <1>1, <1>4, FirstExists
<1>6. ASSUME NEW j \in same
      PROVE  cs[j].score < cs[b].score \/ (cs[j].score = cs[b].score /\ b <= j)
  <2>1. CASE j = b
    BY <1>3, <2>1
  <2>2. CASE j # b
    <3>1. cs[b].score > cs[j].score \/ (cs[b].score = cs[j].score /\ b < j)
      BY <1>2, <1>5, <2>2
    <3>2. QED
      BY <1>3, <3>1
  <2>3. QED
    BY <2>1, <2>2
<1>7. b \in BestOfKey(cs)
  BY <1>6 DEF BestOfKey
<1>8. QED
  BY <1>1, <1>3, <1>6, <1>7

\* A key has a place, of its own.
LEMMA PlaceOfKey ==
    ASSUME NEW cs, IsFiniteSet(DOMAIN cs), DOMAIN cs \subseteq Int, NEW i \in DOMAIN cs
    PROVE  Place(cs, i) \in DOMAIN cs /\ cs[Place(cs, i)].key = cs[i].key
<1> DEFINE same == {j \in DOMAIN cs : cs[j].key = cs[i].key}
           before == {p \in same \X same : p[1] < p[2]}
<1>1. IsFiniteSet(same) /\ i \in same /\ same \subseteq Int
  BY FS_Subset
<1>2. \A x, y \in same : <<x, y>> \in before <=> x < y
  OBVIOUS
<1> HIDE DEF before
<1>3. Orders(before, same)
  BY <1>1, <1>2 DEF Orders
<1>4. PICK b \in same : \A y \in same : y # b => <<b, y>> \in before
  BY <1>1, <1>3, FirstExists
<1>5. \A k \in same : b <= k
  <2> HIDE DEF same
  <2>1. SUFFICES ASSUME NEW k \in same PROVE b <= k
    OBVIOUS
  <2>2. b \in Int /\ k \in Int
    BY <1>1
  <2>3. k # b => b < k
    BY <1>2, <1>4
  <2>4. QED
    BY <2>2, <2>3
<1>6. QED
  BY <1>5 DEF Place

\* The selection is the best one: at most TopN candidates, no two of one key, and whichever
\* is left out loses to a better one of its key or to TopN better ones.
LEMMA SelectIsBest ==
    ASSUME TopN \in Nat \ {0},
           NEW cs, IsFiniteSet(DOMAIN cs), DOMAIN cs \subseteq Int,
           \A i \in DOMAIN cs : cs[i].score \in Int
    PROVE  LET picks == Select(cs)
           IN  /\ picks \subseteq {cs[i] : i \in DOMAIN cs}
               /\ Cardinality(picks) <= TopN
               /\ \A c, d \in picks : c.key = d.key => c = d
               /\ \A i \in DOMAIN cs :
                      \/ cs[i] \in picks
                      \/ \E d \in picks : d.key = cs[i].key /\ d.score >= cs[i].score
                      \/ Cardinality(picks) = TopN /\ \A d \in picks : d.score >= cs[i].score
               /\ DOMAIN cs # {} => picks # {}
<1> DEFINE kept == BestOfKey(cs)
           before == {p \in kept \X kept :
                         \/ cs[p[1]].score > cs[p[2]].score
                         \/ cs[p[1]].score = cs[p[2]].score /\ Place(cs, p[1]) < Place(cs, p[2])}
           n == Cardinality(kept)
           rank(k) == Rank(kept, before, k)
           top == {k \in kept : rank(k) < TopN}
           picks == {cs[i] : i \in top}
           m == IF n < TopN THEN n ELSE TopN
<1>1. Select(cs) = picks
  BY DEF Select
<1>2. kept \subseteq DOMAIN cs /\ IsFiniteSet(kept) /\ n \in Nat
  <2>1. kept \subseteq DOMAIN cs
    BY DEF BestOfKey
  <2>2. QED
    BY <2>1, FS_Subset, FS_CardinalityType
<1>3. \A i, j \in kept : cs[i].key = cs[j].key => i = j
  <2> SUFFICES ASSUME NEW i \in kept, NEW j \in kept, cs[i].key = cs[j].key PROVE i = j
    OBVIOUS
  <2>1. /\ i \in Int /\ j \in Int /\ i \in DOMAIN cs /\ j \in DOMAIN cs
        /\ cs[i].score \in Int /\ cs[j].score \in Int
    BY <1>2
  <2>2. /\ cs[j].score < cs[i].score \/ (cs[j].score = cs[i].score /\ i <= j)
        /\ cs[i].score < cs[j].score \/ (cs[i].score = cs[j].score /\ j <= i)
    BY <2>1 DEF BestOfKey
  <2>3. QED
    BY <2>1, <2>2
<1>4. /\ \A i \in kept : cs[i].score \in Int /\ Place(cs, i) \in Int
      /\ \A i, j \in kept : Place(cs, i) = Place(cs, j) => i = j
  <2>1. \A i \in kept : Place(cs, i) \in DOMAIN cs /\ cs[Place(cs, i)].key = cs[i].key
    BY <1>2, PlaceOfKey
  <2>2. QED
    BY <1>2, <1>3, <2>1
<1>5. \A i, j \in kept : <<i, j>> \in before <=>
          \/ cs[i].score > cs[j].score
          \/ cs[i].score = cs[j].score /\ Place(cs, i) < Place(cs, j)
  OBVIOUS
<1> HIDE DEF before, kept
<1>6. Orders(before, kept)
  <2>1. \A i \in kept : <<i, i>> \notin before
    BY <1>4, <1>5
  <2>2. \A i, j \in kept : i # j => <<i, j>> \in before \/ <<j, i>> \in before
    BY <1>4, <1>5
  <2>3. ASSUME NEW i \in kept, NEW j \in kept, NEW k \in kept,
               <<i, j>> \in before, <<j, k>> \in before
        PROVE  <<i, k>> \in before
    BY <1>4, <1>5, <2>3
  <2>4. QED
    BY <2>1, <2>2, <2>3 DEF Orders
<1>7. /\ \A k \in kept : rank(k) \in 0..(n - 1)
      /\ \A i, j \in kept : rank(i) = rank(j) => i = j
      /\ \A r \in 0..(n - 1) : \E k \in kept : rank(k) = r
  BY <1>2, <1>6, RankPlaces
<1>8. \A i, j \in kept : <<i, j>> \in before => rank(i) < rank(j)
  BY <1>2, <1>6, RankGrows
<1> HIDE DEF rank
<1>9. top \subseteq kept /\ IsFiniteSet(top)
  BY <1>2, FS_Subset
<1>10. m \in Nat /\ IsFiniteSet(0..(m - 1)) /\ Cardinality(0..(m - 1)) = m
  <2>1. m \in Nat
    BY <1>2
  <2> HIDE DEF m
  <2>2. QED
    BY <2>1, FS_Interval
<1>11. Cardinality(picks) = m
  <2> DEFINE place == [k \in top |-> rank(k)]
             pick == [k \in top |-> cs[k]]
  <2>1. place \in Bijection(top, 0..(m - 1))
    <3>1. \A k \in top : rank(k) \in 0..(m - 1)
      BY <1>2, <1>7
    <3>2. \A r \in 0..(m - 1) : \E k \in top : rank(k) = r
      BY <1>2, <1>7
    <3>3. place \in Injection(top, 0..(m - 1))
      BY <1>7, <3>1 DEF Injection, IsInjective
    <3>4. place \in Surjection(top, 0..(m - 1))
      BY <3>1, <3>2 DEF Surjection
    <3>5. QED
      BY <3>3, <3>4 DEF Bijection
  <2>2. Cardinality(top) = m
    BY <1>9, <1>10, <2>1, FS_Bijection DEF ExistsBijection
  <2>3. pick \in Bijection(top, picks)
    <3> HIDE DEF top
    <3>1. pick \in Injection(top, picks)
      BY <1>3, <1>9 DEF Injection, IsInjective
    <3>2. pick \in Surjection(top, picks)
      BY DEF Surjection
    <3>3. QED
      BY <3>1, <3>2 DEF Bijection
  <2>4. QED
    BY <1>9, <2>2, <2>3, FS_Bijection DEF ExistsBijection
<1>12. ASSUME NEW i \in DOMAIN cs, cs[i] \notin picks
       PROVE  \/ \E d \in picks : d.key = cs[i].key /\ d.score >= cs[i].score
              \/ Cardinality(picks) = TopN /\ \A d \in picks : d.score >= cs[i].score
  <2>1. PICK b \in kept : cs[b].key = cs[i].key /\ cs[b].score >= cs[i].score
    BY BestExists DEF kept
  <2>2. CASE b \in top
    BY <2>1, <2>2
  <2>3. CASE b \notin top
    <3>1. rank(b) >= TopN /\ n > TopN
      BY <1>2, <1>7, <2>3
    <3>2. Cardinality(picks) = TopN
      BY <1>2, <1>11, <3>1
    <3>3. ASSUME NEW k \in top PROVE cs[k].score >= cs[i].score
      <4>1. k \in kept /\ rank(k) < TopN /\ rank(k) \in Int /\ rank(b) \in Int
        BY <1>7
      <4>2. <<b, k>> \notin before /\ k # b
        BY <1>8, <3>1, <4>1
      <4>3. <<k, b>> \in before
        BY <1>6, <4>1, <4>2 DEF Orders
      <4>4. cs[k].score >= cs[b].score
        BY <1>4, <1>5, <4>1, <4>3
      <4>5. QED
        BY <1>2, <1>4, <2>1, <4>1, <4>4
    <3>4. QED
      BY <3>2, <3>3
  <2>4. QED
    BY <2>2, <2>3
<1>13. ASSUME DOMAIN cs # {} PROVE picks # {}
  <2>1. kept # {}
    BY <1>13, BestExists DEF kept
  <2>2. n # 0
    BY <1>2, <2>1, FS_EmptySet
  <2>3. PICK k \in kept : rank(k) = 0
    BY <1>2, <1>7, <2>2
  <2>4. k \in top
    BY <2>3
  <2>5. QED
    BY <2>4
<1>14. \A c, d \in picks : c.key = d.key => c = d
  BY <1>3
<1>15. m <= TopN
  BY <1>2
<1> HIDE DEF top
<1>16. picks \subseteq {cs[i] : i \in DOMAIN cs}
  BY <1>2, <1>9
<1>17. Cardinality(picks) <= TopN
  BY <1>11, <1>15
<1>18. \A i \in DOMAIN cs :
           \/ cs[i] \in picks
           \/ \E d \in picks : d.key = cs[i].key /\ d.score >= cs[i].score
           \/ Cardinality(picks) = TopN /\ \A d \in picks : d.score >= cs[i].score
  BY <1>12
<1> HIDE DEF picks
<1>19. QED
  BY <1>1, <1>13, <1>14, <1>16, <1>17, <1>18, Zenon

====
