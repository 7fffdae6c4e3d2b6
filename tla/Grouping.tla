------------------------------ MODULE Grouping ------------------------------
(***************************************************************************)
(* How photos are grouped and judged, as functions of their attributes:    *)
(* SessionDetector, BurstDetector, SimilarityGrouper, TechnicalScorer and  *)
(* SelectionRulesEngine. A shot is what does not change about a photo: the *)
(* capture time, the name (a number, its place in their order), the        *)
(* perceptual hash, a set of bits, and what the analyzers measure.         *)
(***************************************************************************)
EXTENDS Integers, FiniteSets, SequencesExt

CONSTANTS
    DigitBits,     \* bits of a digit of a hash: 4
    MinDigits,     \* least number of digits of a hash: 4
    MaxDistance,   \* bits in which similar hashes may differ: 8
    MaxGap,        \* time between similar photos: 10 minutes
    Weight         \* in a profile, of sharpness, exposure, clipping and noise

ASSUME HashAssumption == DigitBits \in Nat \ {0} /\ MinDigits \in Nat \ {0}
ASSUME WeightAssumption == Weight \in Seq(Nat) /\ \E c \in DOMAIN Weight : Weight[c] > 0
ASSUME DistanceAssumption == MaxDistance \in Nat /\ MaxGap \in Nat

Components == DOMAIN Weight
Undated == -1
NoHash == {-1}   \* of a photo without a readable file
Dated(s) == s.time # Undated

-----------------------------------------------------------------------------
(* Orders and groups.                                                      *)

\* The members of S in the order of a relation.
InOrder(S, before) ==
    CHOOSE s \in [1..Cardinality(S) -> S] :
        \A i, j \in 1..Cardinality(S) : i < j => <<s[i], s[j]>> \in before

Earlier(shot, p, q) ==
    shot[p].time < shot[q].time \/ (shot[p].time = shot[q].time /\ p < q)
ByTime(shot, photos) ==
    InOrder(photos, {e \in photos \X photos : Earlier(shot, e[1], e[2])})

\* One turn of a loop over photos: the n-th joins the groups of those it is matched with,
\* which become one group.
Joined(photos, matches, groups, n) ==
    LET joined == {g \in groups : g \cap matches[n] # {}}
    IN  (groups \ joined) \cup {{photos[n]} \cup UNION joined}
Grouped(photos, matches) ==
    LET groups[n \in 0..Len(photos)] ==
            IF n = 0 THEN {} ELSE Joined(photos, matches, groups[n - 1], n)
    IN  groups[Len(photos)]

-----------------------------------------------------------------------------
(* Sessions and bursts: runs of photos, each soon after the one before.    *)

\* Mutant: a photo whose time is at the limit begins another run.
ContinuedWithin(shot, gap, photos, n) ==
    {photos[m] : m \in {m \in 1..(n - 1) :
        m = n - 1 /\ shot[photos[n]].time - shot[photos[m]].time < gap}}
\* The photo whose run the n-th continues, the one before it, if any.
Continued(shot, gap, photos, n) ==
    {photos[m] : m \in {m \in 1..(n - 1) :
        m = n - 1 /\ shot[photos[n]].time - shot[photos[m]].time <= gap}}
Sessions(shot, photos, gap) ==
    LET sorted == ByTime(shot, {p \in photos : Dated(shot[p])})
    IN  Grouped(sorted, [n \in DOMAIN sorted |-> Continued(shot, gap, sorted, n)])
Bursts(shot, photos, gap) == {b \in Sessions(shot, photos, gap) : Cardinality(b) >= 2}

-----------------------------------------------------------------------------
(* Similar photos.                                                         *)

\* compute_dhash pads to MinDigits digits only: a hash that begins with zeros is shorter.
Digits(h) == Max({MinDigits, Max(h \cup {0}) \div DigitBits + 1})
Distance(g, h) == Cardinality(SymDiff(g, h))

\* The bits of the k-th chunk of a hash of n digits, from the left.
Chunking(n, count) ==
    LET bits == n * DigitBits
        size == bits \div count
        more == bits % count
        Start(k) == k * size + (IF k < more THEN k ELSE more)
    IN  {{bits - 1 - i : i \in Start(k)..(Start(k + 1) - 1)} : k \in 0..(count - 1)}
\* Mutant: as many chunks as bits may differ.
TooFewChunks(n) == Chunking(n, MaxDistance)
Chunks(n) == Chunking(n, MaxDistance + 1)
ShareChunk(g, h) ==
    Digits(g) = Digits(h) /\ \E chunk \in Chunks(Digits(g)) : g \cap chunk = h \cap chunk

WithinWindow(s, t) ==
    IF Dated(s) /\ Dated(t) THEN s.time - t.time \in -MaxGap..MaxGap ELSE s.name = t.name

\* exact_key: dated photos of one hash, or undated ones of one hash and name.
ExactKey(s) == <<s.hash, IF Dated(s) THEN 0 ELSE s.name>>

\* The latest photo of the same key, if it is near; a hash found through the chunks.
ExactMatch(shot, photos, n) ==
    LET same == {m \in 1..(n - 1) : ExactKey(shot[photos[m]]) = ExactKey(shot[photos[n]])}
    IN  {photos[m] : m \in {m \in same : /\ \A k \in same : k <= m
                                        /\ WithinWindow(shot[photos[n]], shot[photos[m]])}}
NearMatches(shot, photos, n) ==
    LET h == shot[photos[n]].hash
    IN  {photos[m] : m \in {m \in 1..(n - 1) :
            /\ shot[photos[m]].hash # h
            /\ ShareChunk(shot[photos[m]].hash, h)
            /\ WithinWindow(shot[photos[n]], shot[photos[m]])
            /\ Distance(shot[photos[m]].hash, h) <= MaxDistance}}

Clusters(shot, photos) ==
    LET candidates == ByTime(shot, {p \in photos : shot[p].hash # NoHash})
    IN  Grouped(candidates, [n \in DOMAIN candidates |->
                    ExactMatch(shot, candidates, n) \cup NearMatches(shot, candidates, n)])
SimilarGroups(shot, photos) == {c \in Clusters(shot, photos) : Cardinality(c) >= 2}

-----------------------------------------------------------------------------
(* Decisions. Scores are in hundredths; no two that are compared differ by  *)
(* exactly 15, where the rounding of the code's numbers would decide.       *)

Failed == -1   \* an analyzer that raised an exception
\* The sum of the amounts of the components that are counted.
Total(counted, amount) ==
    LET total[n \in 0..Len(Weight)] ==
            IF n = 0 THEN 0 ELSE total[n - 1] + (IF n \in counted THEN amount[n] ELSE 0)
    IN  total[Len(Weight)]
Mean(measured, counted) ==
    LET weight == Total(counted, Weight)
    IN  IF weight = 0 THEN 0
        ELSE Total(counted, [c \in Components |-> Weight[c] * measured[c]]) \div weight
\* Mutant: an analyzer that failed counts.
ScoreOfAll(s) == IF s.healthy THEN Mean(s.measured, Components) ELSE 0
\* The weighted mean of what was measured; a file that cannot be decoded has none.
Score(s) ==
    IF s.healthy THEN Mean(s.measured, {c \in Components : s.measured[c] # Failed}) ELSE 0
Tier(s) ==
    CASE ~s.healthy -> "corrupted"
      [] s.healthy /\ Score(s) >= 80 -> "excellent"
      [] s.healthy /\ Score(s) \in 60..79 -> "good"
      [] s.healthy /\ Score(s) \in 40..59 -> "fair"
      [] OTHER -> "poor"

Representative(score, group) ==
    CHOOSE p \in group : \A q \in group \ {p} :
        score[q] < score[p] \/ (score[q] = score[p] /\ q < p)

Standalone(score) ==
    CASE score >= 75 -> "BEST"
      [] score \in 50..74 -> "KEEP"
      [] score \in 35..49 -> "REVIEW"
      [] OTHER -> "REJECT_TECHNICAL"

\* Mutant: the best photo of a group is judged as if it stood alone.
InGroupStandalone(score, group, p) ==
    LET best == Representative(score, group)
    IN  CASE p = best -> Standalone(score[p])
          [] p # best /\ score[best] - score[p] > 15 -> "REJECT_REDUNDANT"
          [] OTHER -> "ALTERNATE"
InGroup(score, group, p) ==
    LET best == Representative(score, group)
    IN  CASE p = best -> IF score[p] >= 60 THEN "BEST" ELSE "KEEP"
          [] p # best /\ score[best] - score[p] > 15 -> "REJECT_REDUNDANT"
          [] OTHER -> "ALTERNATE"

\* apply_decisions for photo p, in one of the groups or in none.
Decision(score, corrupted, groups, p) ==
    LET mine == {g \in groups : p \in g}
    IN  CASE p \in corrupted -> "REJECT_TECHNICAL"
          [] p \notin corrupted /\ mine # {} ->
                InGroup(score, CHOOSE g \in mine : TRUE, p)
          [] OTHER -> Standalone(score[p])
=============================================================================
