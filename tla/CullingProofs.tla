---------------------------- MODULE CullingProofs ----------------------------
(***************************************************************************)
(* Theorems about Culling and Review, for every number of photos, whatever *)
(* the photos are, and every number of requests.                           *)
(***************************************************************************)
EXTENDS Review, GroupingProofs

USE ShotAssumption, SizeAssumption

-----------------------------------------------------------------------------
(* Photos and their groups.                                                *)

LEMMA PhotosFinite ==
    Photos \subseteq Int /\ IsFiniteSet(Photos)
<1>1. 1 \in Int /\ N \in Int
  OBVIOUS
<1> QED BY <1>1, FS_Interval DEF Photos

LEMMA ShotType ==
    ASSUME shot \in [Photos -> Shots], NEW p \in Photos
    PROVE  /\ shot[p] \in Shot
           /\ shot[p].time \in Nat \cup {Undated} /\ shot[p].time \in Int
           /\ shot[p].name \in Nat \ {0} /\ shot[p].hash \in Hash
           /\ shot[p].healthy \in BOOLEAN /\ shot[p].measured \in Measures
<1>1. shot[p] \in Shot
  OBVIOUS
<1>2. /\ shot[p].time \in Nat \cup {Undated}
      /\ shot[p].name \in Nat \ {0} /\ shot[p].hash \in Hash
      /\ shot[p].healthy \in BOOLEAN /\ shot[p].measured \in Measures
  BY <1>1 DEF Shot, Hash, Measures
<1> QED BY <1>1, <1>2 DEF Undated

LEMMA PhotosKnown ==
    ASSUME shot \in [Photos -> Shots], NEW P, P \subseteq Photos
    PROVE  /\ Known(shot, P) /\ Timed(shot, P)
           /\ P \subseteq Int /\ IsFiniteSet(P) /\ Cardinality(P) \in Nat
<1>1. P \subseteq Int /\ IsFiniteSet(P)
  BY PhotosFinite, FS_Subset
<1>2. Cardinality(P) \in Nat
  BY <1>1, FS_CardinalityType
<1>3. Timed(shot, P)
  BY <1>1, ShotType DEF Timed
<1>4. Known(shot, P)
  BY <1>3, ShotType DEF Known
<1> QED BY <1>1, <1>2, <1>3, <1>4

\* The one group that a photo is in.
LEMMA TheGroup ==
    ASSUME NEW groups, NEW S, NEW related, Chains(groups, S, related)
    PROVE  /\ \A p \in S : Member(groups, p) /\ GroupOf(groups, p) \in groups /\ p \in GroupOf(groups, p)
           /\ \A g \in groups : \A p \in g : Member(groups, p) /\ GroupOf(groups, p) = g
           /\ \A p : p \notin S => ~Member(groups, p)
<1>1. ASSUME NEW g \in groups, NEW p \in g PROVE Member(groups, p) /\ GroupOf(groups, p) = g
  <2>1. \A h \in groups : p \in h => h = g
    BY DEF Chains
  <2>2. GroupOf(groups, p) \in groups /\ p \in GroupOf(groups, p)
    BY Zenon DEF GroupOf
  <2> QED BY <2>1, <2>2 DEF Member
<1>2. \A p \in S : \E g \in groups : p \in g
  BY DEF Chains
<1>3. \A p : p \notin S => ~Member(groups, p)
  BY DEF Chains, Member
<1> QED BY <1>1, <1>2, <1>3

\* The chain of a photo is its group.
LEMMA LinkedAreGroup ==
    ASSUME NEW groups, NEW D, NEW related, Chains(groups, D, related),
           NEW S, D \subseteq S,
           \A a \in D, b \in S : <<a, b>> \in related => Together(groups, a, b),
           NEW g \in groups, NEW p \in g
    PROVE  {q \in S : Linked(S, related, p, q)} = g
<1>1. g \subseteq D /\ Chained(g, related)
  BY DEF Chains
<1>2. ASSUME NEW q \in S, Linked(S, related, p, q), q \notin g PROVE FALSE
  <2>1. PICK a \in g, b \in S \ g : <<a, b>> \in related
    BY <1>1, <1>2 DEF Linked
  <2>2. PICK h \in groups : a \in h /\ b \in h
    BY <1>1, <2>1 DEF Together
  <2> QED BY <2>1, <2>2 DEF Chains
<1>3. ASSUME NEW q \in g PROVE Linked(S, related, p, q)
  <2> SUFFICES ASSUME NEW A \in SUBSET S, p \in A, q \notin A
               PROVE  \E a \in A, b \in S \ A : <<a, b>> \in related
    BY DEF Linked
  <2> DEFINE B == A \cap g
  <2>1. B \in SUBSET g /\ B # {} /\ B # g
    BY <1>3
  <2> HIDE DEF B
  <2>2. PICK a \in B, b \in g \ B : <<a, b>> \in related
    BY <1>1, <2>1 DEF Chained
  <2>3. a \in A /\ b \in S \ A
    BY <1>1 DEF B
  <2> QED BY <2>2, <2>3
<1> QED BY <1>1, <1>2, <1>3

\* The sessions of some photos are chains of photos that are near in time.
LEMMA SessionsNear ==
    ASSUME shot \in [Photos -> Shots], NEW P, P \subseteq DatedPhotos, NEW gap \in Nat
    PROVE  LET groups == Sessions(shot, P, gap)
           IN  /\ Chains(groups, P, NearPairs(gap))
               /\ \A g \in groups : \A p \in g : {q \in P : Linked(P, NearPairs(gap), p, q)} = g
<1> DEFINE groups == Sessions(shot, P, gap)
           dated == {p \in P : Dated(shot[p])}
<1>1. P \subseteq Photos /\ dated = P
  BY DEF DatedPhotos
<1>2. \A p, q \in Photos : <<p, q>> \in NearPairs(gap) <=> Soon(shot, gap, p, q)
  BY DEF NearPairs, Near, Soon
<1>3. Timed(shot, P)
  BY <1>1, PhotosKnown
<1>4. \A p, q \in P : Soon(shot, gap, p, q) => <<p, q>> \in NearPairs(gap)
  BY <1>1, <1>2
<1>5. /\ Chains(groups, dated, NearPairs(gap))
      /\ \A p, q \in dated : Soon(shot, gap, p, q) => Together(groups, p, q)
  <2> HIDE DEF groups, dated
  <2> QED BY <1>3, <1>4, SessionsAreChains DEF groups, dated
<1> HIDE DEF groups, dated
<1>6. \A a, b \in P : <<a, b>> \in NearPairs(gap) => Together(groups, a, b)
  BY <1>1, <1>2, <1>5
<1>7. ASSUME NEW g \in groups, NEW p \in g PROVE {q \in P : Linked(P, NearPairs(gap), p, q)} = g
  BY <1>1, <1>5, <1>6, LinkedAreGroup
<1> QED BY <1>1, <1>5, <1>7 DEF groups

\* The sessions of a timeline.
LEMMA FoundNear ==
    ASSUME shot \in [Photos -> Shots], NEW gap \in Nat
    PROVE  /\ Chains(Found(gap), DatedPhotos, NearPairs(gap))
           /\ \A g \in Found(gap) : \A p \in g :
                {q \in DatedPhotos : Linked(DatedPhotos, NearPairs(gap), p, q)} = g
<1> DEFINE dated == {p \in Photos : Dated(shot[p])}
<1>1. dated = DatedPhotos /\ {p \in DatedPhotos : Dated(shot[p])} = DatedPhotos
  BY DEF DatedPhotos
<1>2. Sessions(shot, Photos, gap) = Sessions(shot, DatedPhotos, gap)
  BY <1>1, Zenon DEF Sessions
<1> QED BY <1>2, SessionsNear DEF Found

\* The groups of similar photos are chains of photos that are alike.
LEMMA ClustersAlike ==
    ASSUME shot \in [Photos -> Shots], NEW P, P \subseteq Photos
    PROVE  LET groups == Clusters(shot, P)
               hashed == {p \in P : shot[p].hash # NoHash}
           IN  /\ Chains(groups, hashed, AlikePairs)
               /\ \A p, q \in P : <<p, q>> \in AlikePairs => Together(groups, p, q)
<1> DEFINE groups == Clusters(shot, P)
           hashed == {p \in P : shot[p].hash # NoHash}
<1>1. ASSUME NEW p \in Photos, NEW q \in Photos
      PROVE  <<p, q>> \in AlikePairs <=>
                Close(shot, p, q) /\ shot[p].hash # NoHash /\ shot[q].hash # NoHash
  <2>1. <<p, q>> \in AlikePairs <=> Alike(p, q)
    BY DEF AlikePairs
  <2> QED BY <2>1 DEF Alike, Close, WithinWindow, Near
<1>2. Known(shot, P)
  BY PhotosKnown
<1>3. \A p, q \in P : Close(shot, p, q) /\ shot[p].hash # NoHash /\ shot[q].hash # NoHash
                            => <<p, q>> \in AlikePairs
  BY <1>1
<1>4. /\ Chains(groups, hashed, AlikePairs)
      /\ \A p, q \in hashed : Close(shot, p, q) => Together(groups, p, q)
  <2> HIDE DEF groups, hashed
  <2> QED BY <1>2, <1>3, ClustersAreChains DEF groups, hashed
<1>5. \A p, q \in P : <<p, q>> \in AlikePairs => p \in hashed /\ q \in hashed /\ Close(shot, p, q)
  BY <1>1
<1> HIDE DEF groups, hashed
<1>6. \A p, q \in P : <<p, q>> \in AlikePairs => Together(groups, p, q)
  BY <1>4, <1>5
<1> QED BY <1>4, <1>6 DEF groups, hashed


-----------------------------------------------------------------------------
(* The invariant: types, and what is true of every row.                    *)

\* A row that p may have: only a photo that has a time is in a session, only its own group
\* is its group, and a corrupted photo has no score.
Proper(p, r) ==
    /\ r \in Row
    /\ r.session # Nobody => Dated(shot[p])
    /\ r.burst # NoGroup => p \in r.burst.of
    /\ r.tier = "corrupted" => r.score = 0
RowsProper == \A p \in Photos : Proper(p, row[p])
CullingInv == TypeOK /\ RowsProper

LEMMA RowUpdates ==
    ASSUME NEW r \in Row
    PROVE  /\ r.session \in SUBSET Photos /\ r.burst \in Group /\ r.score \in 0..100
           /\ r.tier \in Tiers /\ r.decision \in Decisions
BY DEF Row

LEMMA ImportedType ==
    /\ ImportedRow \in Row /\ NoGroup \in Group
    /\ ImportedRow.session = Nobody /\ ImportedRow.tier = "fair" /\ ImportedRow.burst = NoGroup
BY DEF ImportedRow, Row, NoGroup, Group, Kinds, Nobody, Tiers, Decisions

LEMMA StandaloneType ==
    ASSUME NEW x
    PROVE  Standalone(x) \in Decisions
BY DEF Standalone, Decisions

LEMMA DecisionType ==
    ASSUME NEW score, NEW corrupted, NEW groups, NEW p
    PROVE  Decision(score, corrupted, groups, p) \in Decisions
<1>1. \A g : InGroup(score, g, p) \in Decisions
  BY DEF InGroup, Decisions
<1>2. "REJECT_TECHNICAL" \in Decisions
  BY DEF Decisions
<1> QED BY <1>1, <1>2, StandaloneType DEF Decision

LEMMA StateMapType ==
    ASSUME NEW choice
    PROVE  StateMap(choice) \in Decisions
BY DEF StateMap, Decisions

LEMMA TierType ==
    ASSUME NEW s
    PROVE  Tier(s) \in Tiers /\ (Tier(s) = "corrupted" => ~s.healthy)
BY DEF Tier, Tiers

\* What an analysis measures.
LEMMA MeasuredType ==
    ASSUME CullingInv, NEW p \in Photos
    PROVE  /\ Proper(p, Measured(p))
           /\ Measured(p).session = row[p].session /\ Measured(p).burst = row[p].burst
<1>1. Proper(p, row[p]) /\ shot[p].healthy \in BOOLEAN /\ shot[p].measured \in Measures
  BY ShotType DEF CullingInv, RowsProper, TypeOK
<1>2. Score(shot[p]) \in 0..100
  BY <1>1, ScoreType
<1>3. Tier(shot[p]) \in Tiers /\ (Tier(shot[p]) = "corrupted" => ~shot[p].healthy)
  BY TierType
<1>4. ~shot[p].healthy => Score(shot[p]) = 0
  BY DEF Score
<1> DEFINE c == Score(shot[p])
           t == Tier(shot[p])
           m == [row[p] EXCEPT !.score = c, !.tier = t]
<1>5. Measured(p) = m
  BY DEF Measured
<1>6. c \in 0..100 /\ t \in Tiers /\ (t = "corrupted" => c = 0)
  BY <1>2, <1>3, <1>4
<1> HIDE DEF c, t
<1>7. m \in Row /\ m.tier = t /\ m.score = c /\ m.session = row[p].session /\ m.burst = row[p].burst
  BY <1>1, <1>6 DEF Proper, Row
<1> QED BY <1>1, <1>5, <1>6, <1>7 DEF Proper

LEMMA JudgedType ==
    ASSUME NEW p, NEW r, Proper(p, r), NEW decision \in Decisions
    PROVE  /\ Proper(p, Judged(r, decision))
           /\ Judged(r, decision).session = r.session /\ Judged(r, decision).burst = r.burst
<1> DEFINE d == IF r.tier = "corrupted" THEN "REJECT_TECHNICAL" ELSE decision
           j == [r EXCEPT !.decision = d]
<1>1. d \in Decisions
  BY DEF Decisions
<1>2. Judged(r, decision) = j
  BY DEF Judged
<1> HIDE DEF d
<1>3. /\ j \in Row /\ j.tier = r.tier /\ j.score = r.score
      /\ j.session = r.session /\ j.burst = r.burst
  BY <1>1 DEF Proper, Row
<1> QED BY <1>2, <1>3 DEF Proper

LEMMA AssignedType ==
    ASSUME TypeOK, NEW gap \in Nat, NEW p \in Photos
    PROVE  Assigned(Found(gap), p) \in SUBSET Photos
<1>1. Chains(Found(gap), DatedPhotos, NearPairs(gap))
  BY FoundNear DEF TypeOK
<1>2. p \in DatedPhotos => GroupOf(Found(gap), p) \in Found(gap)
  BY <1>1, TheGroup
<1>3. Member(Found(gap), p) => p \in DatedPhotos
  BY <1>1, TheGroup
<1>4. \A g \in Found(gap) : g \subseteq Photos
  BY <1>1 DEF Chains, DatedPhotos
<1>5. row[p].session \in SUBSET Photos
  BY RowUpdates DEF TypeOK
<1> QED BY <1>2, <1>3, <1>4, <1>5 DEF Assigned

\* A photo that a timeline gives a session has a time.
LEMMA AssignedDated ==
    ASSUME CullingInv, NEW gap \in Nat, NEW p \in Photos
    PROVE  /\ Dated(shot[p]) => /\ Assigned(Found(gap), p) \in Found(gap)
                                /\ p \in Assigned(Found(gap), p)
           /\ ~Dated(shot[p]) => Assigned(Found(gap), p) = Nobody
<1>1. Chains(Found(gap), DatedPhotos, NearPairs(gap))
  BY FoundNear DEF CullingInv, TypeOK
<1>2. p \in DatedPhotos <=> Dated(shot[p])
  BY DEF DatedPhotos
<1>3. p \in DatedPhotos => /\ Member(Found(gap), p) /\ GroupOf(Found(gap), p) \in Found(gap)
                           /\ p \in GroupOf(Found(gap), p)
  BY <1>1, TheGroup
<1>4. p \notin DatedPhotos => ~Member(Found(gap), p)
  BY <1>1, TheGroup
<1> QED BY <1>2, <1>3, <1>4 DEF Assigned, CullingInv, RowsProper, Proper

\* The times of a session are those of its photos.
LEMMA SessionTimes ==
    ASSUME TypeOK, NEW g, g \subseteq DatedPhotos, g # {}
    PROVE  LET times == {shot[p].time : p \in g}
           IN  /\ Min(times) \in Nat /\ Max(times) \in Nat
               /\ \A p \in g : shot[p].time \in Min(times)..Max(times)
<1> DEFINE times == {shot[p].time : p \in g}
           f == [p \in g |-> shot[p].time]
<1>1. \A p \in g : p \in Photos /\ shot[p].time \in Nat
  BY ShotType DEF TypeOK, DatedPhotos, Dated, Undated
<1>2. IsFiniteSet(g)
  BY <1>1, PhotosFinite, FS_Subset
<1>3. f \in Surjection(g, times)
  BY DEF Surjection
<1>4. IsFiniteSet(times)
  BY <1>2, <1>3, FS_Surjection
<1>5. times \subseteq Nat /\ times # {}
  BY <1>1
<1> HIDE DEF times
<1>6. /\ Max(times) \in times /\ \A x \in times : x <= Max(times)
      /\ Min(times) \in times /\ \A x \in times : Min(times) <= x
  <2>1. times \subseteq Int
    BY <1>5
  <2> QED BY <1>4, <1>5, <2>1, MaxMin
<1>7. \A p \in g : shot[p].time \in times
  BY DEF times
<1> QED BY <1>1, <1>5, <1>6, <1>7 DEF times

LEMMA SessionRowsType ==
    ASSUME TypeOK, NEW gap \in Nat
    PROVE  \A s \in SessionRows(Found(gap)) : s \in SessionRow
<1>1. Chains(Found(gap), DatedPhotos, NearPairs(gap))
  BY FoundNear DEF TypeOK
<1> SUFFICES ASSUME NEW g \in Found(gap)
             PROVE  [id |-> g, start |-> Min({shot[p].time : p \in g}),
                     end |-> Max({shot[p].time : p \in g}), count |-> Cardinality(g)] \in SessionRow
  BY DEF SessionRows
<1>2. g \subseteq DatedPhotos /\ g # {} /\ g \in SUBSET Photos
  BY <1>1 DEF Chains, DatedPhotos
<1>3. Cardinality(g) \in Nat
  BY <1>2, PhotosKnown DEF TypeOK
<1>4. Min({shot[p].time : p \in g}) \in Nat /\ Max({shot[p].time : p \in g}) \in Nat
  BY <1>2, SessionTimes
<1> QED BY <1>2, <1>3, <1>4 DEF SessionRow

LEMMA InBurstType ==
    ASSUME CullingInv, NEW bursts, \A b \in bursts : b \subseteq Photos, NEW p \in Photos
    PROVE  /\ InBurst(bursts, p) \in Group
           /\ InBurst(bursts, p) # NoGroup => p \in InBurst(bursts, p).of
<1>1. row[p].burst \in Group /\ (row[p].burst # NoGroup => p \in row[p].burst.of)
  BY RowUpdates DEF CullingInv, RowsProper, Proper
<1>2. Member(bursts, p) => GroupOf(bursts, p) \in SUBSET Photos /\ p \in GroupOf(bursts, p)
  BY Zenon DEF Member, GroupOf
<1> QED BY <1>1, <1>2 DEF InBurst, Group, Kinds

LEMMA InSimilarType ==
    ASSUME CullingInv, NEW groups, \A b \in groups : b \subseteq Photos, NEW p \in Photos
    PROVE  /\ InSimilar(groups, p) \in Group
           /\ InSimilar(groups, p) # NoGroup => p \in InSimilar(groups, p).of
<1>1. row[p].burst \in Group /\ (row[p].burst # NoGroup => p \in row[p].burst.of)
  BY RowUpdates DEF CullingInv, RowsProper, Proper
<1>2. Member(groups, p) => GroupOf(groups, p) \in SUBSET Photos /\ p \in GroupOf(groups, p)
  BY Zenon DEF Member, GroupOf
<1> QED BY <1>1, <1>2, ImportedType DEF InSimilar, Group, Kinds

LEMMA BurstsArePhotos ==
    ASSUME TypeOK, NEW gap \in Nat
    PROVE  /\ \A b \in Bursts(shot, Photos, gap) : b \subseteq Photos
           /\ \A big \in Nat : \A b \in BurstsWithin(Found(big), gap) : b \subseteq Photos
<1>1. \A b \in Bursts(shot, Photos, gap) : b \subseteq Photos
  BY FoundNear DEF Bursts, Found, Chains, TypeOK, DatedPhotos
<1>2. ASSUME NEW big \in Nat, NEW b \in BurstsWithin(Found(big), gap) PROVE b \subseteq Photos
  <2>1. PICK s \in Found(big) : b \in Bursts(shot, s, gap)
    BY <1>2 DEF BurstsWithin
  <2>2. s \subseteq DatedPhotos
    BY FoundNear DEF Chains, TypeOK
  <2>3. Chains(Sessions(shot, s, gap), s, NearPairs(gap))
    BY <2>2, SessionsNear DEF TypeOK
  <2> QED BY <2>1, <2>2, <2>3 DEF Bursts, Chains, DatedPhotos
<1> QED BY <1>1, <1>2

LEMMA GroupsArePhotos ==
    ASSUME TypeOK, NEW P, P \subseteq Photos
    PROVE  \A g \in SimilarGroups(shot, P) : g \subseteq P
<1>1. Chains(Clusters(shot, P), {p \in P : shot[p].hash # NoHash}, AlikePairs)
  BY ClustersAlike DEF TypeOK
<1> QED BY <1>1 DEF SimilarGroups, Chains


-----------------------------------------------------------------------------
(* Steps.                                                                  *)

\* What keeps the invariant: proper rows, as each action makes them.
LEMMA InvariantKept ==
    ASSUME CullingInv, requests < MaxRequests, requests' = requests + 1, shot' = shot,
           \A s \in sessions' : s \in SessionRow,
           row' = [p \in Photos |-> row'[p]],
           \A p \in Photos : Proper(p, row'[p])
    PROVE  CullingInv'
<1>1. requests + 1 \in 0..MaxRequests
  BY DEF CullingInv, TypeOK
<1>2. \A p \in Photos : row'[p] \in Row
  BY DEF Proper
<1>3. row' \in [Photos -> Row]
  BY <1>2
<1>4. TypeOK'
  BY <1>1, <1>3 DEF CullingInv, TypeOK
<1>5. RowsProper'
  BY DEF RowsProper, Proper
<1> QED BY <1>4, <1>5 DEF CullingInv

\* A row of which the session, the group or the decision changes.
LEMMA SessionChanged ==
    ASSUME NEW p, NEW r, Proper(p, r), NEW x \in SUBSET Photos, x # Nobody => Dated(shot[p])
    PROVE  Proper(p, [r EXCEPT !.session = x])
<1> DEFINE t == [r EXCEPT !.session = x]
<1>1. /\ t \in Row /\ t.session = x /\ t.burst = r.burst /\ t.tier = r.tier
      /\ t.score = r.score
  BY DEF Proper, Row
<1> HIDE DEF t
<1>2. Proper(p, t)
  BY <1>1 DEF Proper
<1> QED BY <1>2 DEF t

LEMMA GroupChanged ==
    ASSUME NEW p, NEW r, Proper(p, r), NEW b \in Group, b # NoGroup => p \in b.of
    PROVE  Proper(p, [r EXCEPT !.burst = b])
<1> DEFINE t == [r EXCEPT !.burst = b]
<1>1. /\ t \in Row /\ t.session = r.session /\ t.burst = b /\ t.tier = r.tier
      /\ t.score = r.score
  BY DEF Proper, Row
<1> HIDE DEF t
<1>2. Proper(p, t)
  BY <1>1 DEF Proper
<1> QED BY <1>2 DEF t

LEMMA DecisionChanged ==
    ASSUME NEW p, NEW r, Proper(p, r), NEW d \in Decisions
    PROVE  Proper(p, [r EXCEPT !.decision = d])
<1> DEFINE t == [r EXCEPT !.decision = d]
<1>1. /\ t \in Row /\ t.session = r.session /\ t.burst = r.burst /\ t.tier = r.tier
      /\ t.score = r.score
  BY DEF Proper, Row
<1> HIDE DEF t
<1>2. Proper(p, t)
  BY <1>1 DEF Proper
<1> QED BY <1>2 DEF t

LEMMA BothChanged ==
    ASSUME NEW p, NEW r, Proper(p, r),
           NEW x \in SUBSET Photos, x # Nobody => Dated(shot[p]),
           NEW b \in Group, b # NoGroup => p \in b.of,
           NEW t, t = [r EXCEPT !.session = x, !.burst = b]
    PROVE  Proper(p, t)
<1>1. /\ t \in Row /\ t.session = x /\ t.burst = b /\ t.tier = r.tier
      /\ t.score = r.score
  BY DEF Proper, Row
<1> QED BY <1>1 DEF Proper

LEMMA TimelineInv ==
    ASSUME CullingInv, NEW gap \in Gaps, ApplyTimeline(gap) \/ GroupCommand(gap)
    PROVE  CullingInv'
<1>0. TypeOK /\ RowsProper /\ gap \in Nat
  BY DEF CullingInv
<1>1. /\ requests < MaxRequests /\ requests' = requests + 1 /\ shot' = shot
      /\ row' = [p \in Photos |-> [row[p] EXCEPT !.session = Assigned(Found(gap), p)]]
      /\ sessions' = SessionRows(Found(gap)) \/ sessions' = sessions
  BY DEF ApplyTimeline, GroupCommand, Request
<1>2. \A s \in sessions' : s \in SessionRow
  BY <1>0, <1>1, SessionRowsType DEF TypeOK
<1>3. ASSUME NEW p \in Photos PROVE Proper(p, row'[p])
  <2> DEFINE x == Assigned(Found(gap), p)
  <2>1. x \in SUBSET Photos /\ (x # Nobody => Dated(shot[p]))
    BY <1>0, AssignedType, AssignedDated
  <2>2. row'[p] = [row[p] EXCEPT !.session = x]
    BY <1>1
  <2>3. Proper(p, row[p])
    BY <1>0 DEF RowsProper
  <2> HIDE DEF x
  <2> QED BY <2>1, <2>2, <2>3, SessionChanged
<1>4. row' = [p \in Photos |-> row'[p]]
  BY <1>1
<1> QED BY <1>1, <1>2, <1>3, <1>4, InvariantKept

LEMMA BurstInv ==
    ASSUME CullingInv, NEW burstGap \in BurstGaps, ApplyBurst(burstGap) \/ BurstsCommand(burstGap)
    PROVE  CullingInv'
<1>0. TypeOK /\ RowsProper /\ burstGap \in Nat
  BY DEF CullingInv
<1>1. /\ requests < MaxRequests /\ requests' = requests + 1 /\ shot' = shot
      /\ row' = [p \in Photos |-> [row[p] EXCEPT !.burst = InBurst(Bursts(shot, Photos, burstGap), p)]]
      /\ sessions' = sessions
  BY DEF ApplyBurst, BurstsCommand, Request
<1>2. ASSUME NEW p \in Photos PROVE Proper(p, row'[p])
  <2> DEFINE x == InBurst(Bursts(shot, Photos, burstGap), p)
  <2>1. x \in Group /\ (x # NoGroup => p \in x.of)
    BY <1>0, BurstsArePhotos, InBurstType
  <2>2. row'[p] = [row[p] EXCEPT !.burst = x]
    BY <1>1
  <2>3. Proper(p, row[p])
    BY <1>0 DEF RowsProper
  <2> HIDE DEF x
  <2> QED BY <2>1, <2>2, <2>3, GroupChanged
<1>3. row' = [p \in Photos |-> row'[p]]
  BY <1>1
<1>4. \A s \in sessions' : s \in SessionRow
  BY <1>0, <1>1 DEF TypeOK
<1> QED BY <1>1, <1>2, <1>3, <1>4, InvariantKept

LEMMA HybridInv ==
    ASSUME CullingInv, NEW gap \in Gaps, NEW burstGap \in BurstGaps, ApplyHybrid(gap, burstGap)
    PROVE  CullingInv'
<1>0. TypeOK /\ RowsProper /\ gap \in Nat /\ burstGap \in Nat
  BY DEF CullingInv
<1>1. /\ requests < MaxRequests /\ requests' = requests + 1 /\ shot' = shot
      /\ row' = [p \in Photos |->
                   [row[p] EXCEPT !.session = Assigned(Found(gap), p),
                                  !.burst = InBurst(BurstsWithin(Found(gap), burstGap), p)]]
      /\ sessions' = SessionRows(Found(gap))
  BY DEF ApplyHybrid, Request
<1>2. \A s \in sessions' : s \in SessionRow
  BY <1>0, <1>1, SessionRowsType
<1>3. ASSUME NEW p \in Photos PROVE Proper(p, row'[p])
  <2> DEFINE x == Assigned(Found(gap), p)
             b == InBurst(BurstsWithin(Found(gap), burstGap), p)
  <2>1. x \in SUBSET Photos /\ (x # Nobody => Dated(shot[p]))
    BY <1>0, AssignedType, AssignedDated
  <2>2. b \in Group /\ (b # NoGroup => p \in b.of)
    BY <1>0, BurstsArePhotos, InBurstType
  <2>3. row'[p] = [row[p] EXCEPT !.session = x, !.burst = b]
    BY <1>1
  <2>4. Proper(p, row[p])
    BY <1>0 DEF RowsProper
  <2> HIDE DEF x, b
  <2> QED BY <2>1, <2>2, <2>3, <2>4, BothChanged
<1>4. row' = [p \in Photos |-> row'[p]]
  BY <1>1
<1> QED BY <1>1, <1>2, <1>3, <1>4, InvariantKept

LEMMA DeleteInv ==
    ASSUME CullingInv, NEW s \in sessions, Delete(s)
    PROVE  CullingInv'
<1>0. TypeOK /\ RowsProper
  BY DEF CullingInv
<1>1. /\ requests < MaxRequests /\ requests' = requests + 1 /\ shot' = shot
      /\ row' = [p \in Photos |-> Released(s.id, p)]
      /\ sessions' = sessions \ {s}
  BY DEF Delete, Request
<1>2. ASSUME NEW p \in Photos PROVE Proper(p, row'[p])
  <2>1. row'[p] = Released(s.id, p)
    BY <1>1
  <2>2. Nobody \in SUBSET Photos /\ NoGroup \in Group
    BY ImportedType DEF Nobody
  <2>3. Proper(p, row[p])
    BY <1>0 DEF RowsProper
  <2>4. CASE row[p].session = s.id
    <3>1. row'[p] = [row[p] EXCEPT !.session = Nobody, !.burst = NoGroup]
      BY <2>1, <2>4 DEF Released
    <3> QED BY <2>2, <2>3, <3>1, BothChanged
  <2>5. CASE row[p].session # s.id
    BY <2>1, <2>3, <2>5 DEF Released
  <2> QED BY <2>4, <2>5
<1>3. row' = [p \in Photos |-> row'[p]]
  BY <1>1
<1>4. \A t \in sessions' : t \in SessionRow
  BY <1>0, <1>1 DEF TypeOK
<1> QED BY <1>1, <1>2, <1>3, <1>4, InvariantKept

LEMMA SimilarInv ==
    ASSUME CullingInv, GroupSimilarPhotos
    PROVE  CullingInv'
<1>0. TypeOK /\ RowsProper
  BY DEF CullingInv
<1> DEFINE groups == SimilarGroups(shot, Photos)
<1>1. /\ requests < MaxRequests /\ requests' = requests + 1 /\ shot' = shot
      /\ row' = [p \in Photos |-> [row[p] EXCEPT !.burst = InSimilar(groups, p)]]
      /\ sessions' = sessions
  BY DEF GroupSimilarPhotos, Request
<1>2. ASSUME NEW p \in Photos PROVE Proper(p, row'[p])
  <2> DEFINE x == InSimilar(groups, p)
  <2>1. x \in Group /\ (x # NoGroup => p \in x.of)
    BY <1>0, GroupsArePhotos, InSimilarType
  <2>2. row'[p] = [row[p] EXCEPT !.burst = x]
    BY <1>1
  <2>3. Proper(p, row[p])
    BY <1>0 DEF RowsProper
  <2> HIDE DEF x
  <2> QED BY <2>1, <2>2, <2>3, GroupChanged
<1>3. row' = [p \in Photos |-> row'[p]]
  BY <1>1
<1>4. \A s \in sessions' : s \in SessionRow
  BY <1>0, <1>1 DEF TypeOK
<1> QED BY <1>1, <1>2, <1>3, <1>4, InvariantKept

LEMMA DecisionInv ==
    ASSUME CullingInv,
           \/ \E p \in Photos, choice \in Requested : SetDecision(p, choice)
           \/ \E chosen \in Selections, choice \in Requested, confirm \in BOOLEAN :
                DecisionsCommand(chosen, StateMap(choice), confirm)
    PROVE  CullingInv'
<1>0. TypeOK /\ RowsProper
  BY DEF CullingInv
<1> DEFINE Decided(chosen, choice) ==
        /\ requests < MaxRequests /\ requests' = requests + 1 /\ shot' = shot /\ sessions' = sessions
        /\ row' = [p \in Photos |-> IF p \in chosen THEN [row[p] EXCEPT !.decision = StateMap(choice)]
                                                    ELSE row[p]]
<1>1. \E chosen, choice : Decided(chosen, choice)
  <2>1. CASE \E p \in Photos, choice \in Requested : SetDecision(p, choice)
    <3>1. PICK q \in Photos, choice \in Requested : SetDecision(q, choice)
      BY <2>1
    <3>2. row' = [row EXCEPT ![q].decision = StateMap(choice)]
      BY <3>1 DEF SetDecision
    <3>3. row' = [p \in Photos |-> IF p \in {q} THEN [row[p] EXCEPT !.decision = StateMap(choice)]
                                               ELSE row[p]]
      BY <1>0, <3>2 DEF TypeOK
    <3>4. Decided({q}, choice)
      BY <3>1, <3>3 DEF SetDecision, Request
    <3> HIDE DEF Decided
    <3> QED BY <3>4
  <2>2. CASE \E chosen \in Selections, choice \in Requested, confirm \in BOOLEAN :
                DecisionsCommand(chosen, StateMap(choice), confirm)
    <3>1. PICK chosen \in Selections, choice \in Requested, confirm \in BOOLEAN :
             DecisionsCommand(chosen, StateMap(choice), confirm)
      BY <2>2
    <3>2. Decided(chosen, choice)
      BY <3>1 DEF DecisionsCommand, Request
    <3> HIDE DEF Decided
    <3> QED BY <3>2
  <2> QED BY <2>1, <2>2
<1>2. PICK chosen, choice : Decided(chosen, choice)
  BY <1>1
<1>3. ASSUME NEW p \in Photos PROVE Proper(p, row'[p])
  <2> DEFINE x == StateMap(choice)
  <2>1. x \in Decisions
    BY StateMapType
  <2>2. row'[p] = IF p \in chosen THEN [row[p] EXCEPT !.decision = x] ELSE row[p]
    BY <1>2
  <2>3. Proper(p, row[p])
    BY <1>0 DEF RowsProper
  <2> HIDE DEF x
  <2>4. Proper(p, [row[p] EXCEPT !.decision = x])
    BY <2>1, <2>3, DecisionChanged
  <2> QED BY <2>2, <2>3, <2>4
<1>4. row' = [p \in Photos |-> row'[p]]
  BY <1>2
<1>5. \A s \in sessions' : s \in SessionRow
  BY <1>0, <1>2 DEF TypeOK
<1> QED BY <1>2, <1>3, <1>4, <1>5, InvariantKept

LEMMA CancelledInv ==
    ASSUME CullingInv, NEW done, CancelledAnalysis(done)
    PROVE  CullingInv'
<1>0. TypeOK /\ RowsProper
  BY DEF CullingInv
<1>1. /\ requests < MaxRequests /\ requests' = requests + 1 /\ shot' = shot /\ sessions' = sessions
      /\ row' = [p \in Photos |->
                   IF p \in done THEN Judged(Measured(p), Standalone(Measured(p).score)) ELSE row[p]]
  BY DEF CancelledAnalysis, Request
<1>2. ASSUME NEW p \in Photos PROVE Proper(p, row'[p])
  <2> DEFINE d == Standalone(Measured(p).score)
  <2>1. d \in Decisions
    BY StandaloneType
  <2>2. row'[p] = IF p \in done THEN Judged(Measured(p), d) ELSE row[p]
    BY <1>1
  <2>3. Proper(p, row[p]) /\ Proper(p, Measured(p))
    BY <1>0, MeasuredType DEF RowsProper
  <2> HIDE DEF d
  <2>4. Proper(p, Judged(Measured(p), d))
    BY <2>1, <2>3, JudgedType
  <2> QED BY <2>2, <2>3, <2>4
<1>3. row' = [p \in Photos |-> row'[p]]
  BY <1>1
<1>4. \A s \in sessions' : s \in SessionRow
  BY <1>0, <1>1 DEF TypeOK
<1> QED BY <1>1, <1>2, <1>3, <1>4, InvariantKept

LEMMA AnalyzeCommandInv ==
    ASSUME CullingInv, NEW chosen, NEW done, AnalyzeCommand(chosen, done)
    PROVE  CullingInv'
<1>0. TypeOK /\ RowsProper
  BY DEF CullingInv
<1> DEFINE measured == [p \in Photos |-> IF p \in done THEN Measured(p) ELSE row[p]]
<1>1. /\ requests < MaxRequests /\ requests' = requests + 1 /\ shot' = shot /\ sessions' = sessions
      /\ row' = [p \in Photos |-> IF p \in chosen
                                  THEN Judged(measured[p], Standalone(measured[p].score))
                                  ELSE row[p]]
  BY DEF AnalyzeCommand, Request
<1>2. ASSUME NEW p \in Photos PROVE Proper(p, row'[p])
  <2> DEFINE d == Standalone(measured[p].score)
  <2>1. d \in Decisions
    BY StandaloneType
  <2>2. row'[p] = IF p \in chosen THEN Judged(measured[p], d) ELSE row[p]
    BY <1>1
  <2>3. Proper(p, row[p]) /\ Proper(p, Measured(p))
    BY <1>0, MeasuredType DEF RowsProper
  <2>4. Proper(p, measured[p])
    BY <2>3
  <2> HIDE DEF d, measured
  <2>5. Proper(p, Judged(measured[p], d))
    BY <2>1, <2>4, JudgedType
  <2> QED BY <2>2, <2>3, <2>5
<1>3. row' = [p \in Photos |-> row'[p]]
  BY <1>1
<1>4. \A s \in sessions' : s \in SessionRow
  BY <1>0, <1>1 DEF TypeOK
<1> QED BY <1>1, <1>2, <1>3, <1>4, InvariantKept

LEMMA RescanInv ==
    ASSUME CullingInv, NEW q \in Photos, Rescan(q)
    PROVE  CullingInv'
<1>0. TypeOK /\ RowsProper
  BY DEF CullingInv
<1>1. /\ requests < MaxRequests /\ requests' = requests + 1 /\ shot' = shot /\ sessions' = sessions
      /\ row' = [row EXCEPT ![q] = ImportedRow]
  BY DEF Rescan, Request
<1>2. ASSUME NEW p \in Photos PROVE Proper(p, row'[p])
  <2>1. row'[p] = IF p = q THEN ImportedRow ELSE row[p]
    BY <1>0, <1>1 DEF TypeOK
  <2>2. Proper(p, ImportedRow)
    BY ImportedType DEF Proper
  <2> QED BY <1>0, <2>1, <2>2 DEF RowsProper
<1>3. row' = [p \in Photos |-> row'[p]]
  BY <1>0, <1>1 DEF TypeOK
<1>4. \A s \in sessions' : s \in SessionRow
  BY <1>0, <1>1 DEF TypeOK
<1> QED BY <1>1, <1>2, <1>3, <1>4, InvariantKept

\* What an analysis knows of the photos when it decides: their scores, and which of them are
\* corrupted.
Scores(done) ==
    LET measured == [p \in Photos |-> IF p \in done THEN Measured(p) ELSE row[p]]
    IN  [p \in Photos |-> measured[p].score]
Corrupted(done) ==
    LET measured == [p \in Photos |-> IF p \in done THEN Measured(p) ELSE row[p]]
    IN  {p \in Photos : measured[p].tier = "corrupted"}

\* The rows of an analysis that completes.
LEMMA AnalysisRows ==
    ASSUME CullingInv, NEW pending \in SUBSET Photos, NEW done \in SUBSET pending, Analysis(pending, done)
    PROVE  LET grouping == GroupingPhotos(pending)
               groups == SimilarGroups(shot, grouping)
               score == Scores(done)
               corrupted == Corrupted(done)
           IN  /\ requests < MaxRequests /\ requests' = requests + 1 /\ shot' = shot
               /\ sessions' = sessions /\ last' = <<"analysis", pending>>
               /\ pending \subseteq grouping /\ grouping \subseteq Photos
               /\ row' = [p \in Photos |-> row'[p]]
               /\ \A p \in Photos : p \notin grouping => row'[p] = row[p]
               /\ \A p \in grouping :
                    /\ Proper(p, row'[p]) /\ row'[p].session = row[p].session
                    /\ row'[p].score = score[p] /\ score[p] \in 0..100
                    /\ p \in corrupted => score[p] = 0
                    /\ row'[p].burst = InSimilar(groups, p)
                    /\ row'[p].decision = Decision(score, corrupted, groups, p)
<1>0. TypeOK /\ RowsProper
  BY DEF CullingInv
<1> DEFINE grouping == GroupingPhotos(pending)
           groups == SimilarGroups(shot, grouping)
           measured == [p \in Photos |-> IF p \in done THEN Measured(p) ELSE row[p]]
           score == [p \in Photos |-> measured[p].score]
           corrupted == {p \in Photos : measured[p].tier = "corrupted"}
           judged == [p \in Photos |->
                        [measured[p] EXCEPT !.burst = InSimilar(groups, p),
                                            !.decision = Decision(score, corrupted, groups, p)]]
<1>1. /\ requests < MaxRequests /\ requests' = requests + 1 /\ shot' = shot
      /\ sessions' = sessions /\ last' = <<"analysis", pending>>
      /\ row' = [p \in Photos |-> IF p \in grouping THEN judged[p] ELSE row[p]]
  BY Zenon DEF Analysis, Request
<1>2. pending \subseteq grouping /\ grouping \subseteq Photos
  BY DEF GroupingPhotos
<1>3. ASSUME NEW p \in grouping
      PROVE  /\ Proper(p, row'[p]) /\ row'[p].session = row[p].session
             /\ row'[p].score = score[p] /\ score[p] \in 0..100
             /\ p \in corrupted => score[p] = 0
             /\ row'[p].burst = InSimilar(groups, p)
             /\ row'[p].decision = Decision(score, corrupted, groups, p)
  <2>1. p \in Photos
    BY <1>2
  <2> DEFINE b == InSimilar(groups, p)
             d == Decision(score, corrupted, groups, p)
             m == measured[p]
             r == [m EXCEPT !.burst = b, !.decision = d]
  <2>2. b \in Group /\ (b # NoGroup => p \in b.of)
    <3>1. \A g \in groups : g \subseteq Photos
      BY <1>0, <1>2, GroupsArePhotos
    <3> HIDE DEF groups
    <3> QED BY <2>1, <3>1, InSimilarType
  <2>3. d \in Decisions
    BY DecisionType
  <2>4. Proper(p, m) /\ m.session = row[p].session
    <3>1. Proper(p, row[p]) /\ Proper(p, Measured(p)) /\ Measured(p).session = row[p].session
      BY <1>0, <2>1, MeasuredType DEF RowsProper
    <3> QED BY <2>1, <3>1
  <2>5. row'[p] = judged[p]
    BY <1>1, <2>1
  <2>6. judged[p] = r
    BY <2>1
  <2>7. score[p] = m.score /\ (p \in corrupted <=> m.tier = "corrupted")
    BY <2>1
  <2> HIDE DEF b, d, m, score, corrupted, groups, grouping, judged
  <2>8. /\ r \in Row /\ r.session = m.session /\ r.burst = b /\ r.decision = d
        /\ r.tier = m.tier /\ r.score = m.score /\ m.score \in 0..100
    BY <2>2, <2>3, <2>4 DEF Proper, Row
  <2> HIDE DEF r
  <2>9. Proper(p, r)
    BY <2>2, <2>4, <2>8 DEF Proper
  <2>10. m.tier = "corrupted" => m.score = 0
    BY <2>4 DEF Proper
  <2> QED BY <2>4, <2>5, <2>6, <2>7, <2>8, <2>9, <2>10 DEF b, d
<1>4. \A p \in Photos : p \notin grouping => row'[p] = row[p]
  BY <1>1
<1>5. row' = [p \in Photos |-> row'[p]]
  <2> HIDE DEF grouping, judged
  <2> QED BY <1>1
<1> HIDE DEF judged
<1>6. score = Scores(done) /\ corrupted = Corrupted(done)
  BY DEF Scores, Corrupted
<1> HIDE DEF score, corrupted, groups, grouping
<1> QED BY <1>1, <1>2, <1>3, <1>4, <1>5, <1>6 DEF groups, grouping

LEMMA AnalysisInv ==
    ASSUME CullingInv, NEW pending \in SUBSET Photos, NEW done \in SUBSET pending, Analysis(pending, done)
    PROVE  CullingInv'
<1>0. TypeOK /\ RowsProper
  BY DEF CullingInv
<1> DEFINE grouping == GroupingPhotos(pending)
<1>1. /\ requests < MaxRequests /\ requests' = requests + 1 /\ shot' = shot
      /\ sessions' = sessions
      /\ row' = [p \in Photos |-> row'[p]]
      /\ \A p \in Photos : p \notin grouping => row'[p] = row[p]
      /\ \A p \in grouping : Proper(p, row'[p])
  BY AnalysisRows
<1> HIDE DEF grouping
<1>2. \A p \in Photos : Proper(p, row'[p])
  BY <1>0, <1>1 DEF RowsProper
<1>3. \A s \in sessions' : s \in SessionRow
  BY <1>0, <1>1 DEF TypeOK
<1> QED BY <1>1, <1>2, <1>3, InvariantKept

LEMMA InitInv ==
    ASSUME Init
    PROVE  CullingInv
<1>1. TypeOK
  BY ImportedType DEF Init, TypeOK
<1>2. ASSUME NEW p \in Photos PROVE Proper(p, row[p])
  BY ImportedType DEF Init, Proper
<1> QED BY <1>1, <1>2 DEF CullingInv, RowsProper

\* Every request keeps the invariant.
LEMMA NextInv ==
    ASSUME CullingInv, [Next]_vars
    PROVE  CullingInv'
<1>1. CASE WebRequest
  <2>1. CASE \E gap \in Gaps : ApplyTimeline(gap)
    BY <2>1, TimelineInv
  <2>2. CASE \E gap \in Gaps, burstGap \in BurstGaps : ApplyHybrid(gap, burstGap)
    BY <2>2, HybridInv
  <2>3. CASE \E burstGap \in BurstGaps : ApplyBurst(burstGap)
    BY <2>3, BurstInv
  <2>4. CASE \E s \in sessions : Delete(s)
    BY <2>4, DeleteInv
  <2>5. CASE GroupSimilarPhotos
    BY <2>5, SimilarInv
  <2>6. CASE \E p \in Photos : Rescan(p)
    BY <2>6, RescanInv
  <2>7. CASE \E p \in Photos, choice \in Requested : SetDecision(p, choice)
    BY <2>7, DecisionInv
  <2>8. CASE \E done \in SUBSET Photos : CancelledAnalysis(done)
    BY <2>8, CancelledInv
  <2>9. CASE \E done \in SUBSET Photos, pending \in SUBSET Photos :
               done \subseteq pending /\ Analysis(pending, done)
    BY <2>9, AnalysisInv
  <2> QED BY <1>1, <2>1, <2>2, <2>3, <2>4, <2>5, <2>6, <2>7, <2>8, <2>9, Zenon DEF WebRequest
<1>2. CASE Command
  <2>1. CASE \E gap \in Gaps : GroupCommand(gap)
    BY <2>1, TimelineInv
  <2>2. CASE \E burstGap \in BurstGaps : BurstsCommand(burstGap)
    BY <2>2, BurstInv
  <2>3. CASE \E chosen \in Selections : \E done \in SUBSET chosen : AnalyzeCommand(chosen, done)
    BY <2>3, AnalyzeCommandInv
  <2>4. CASE \E chosen \in Selections, choice \in Requested, confirm \in BOOLEAN :
               DecisionsCommand(chosen, StateMap(choice), confirm)
    BY <2>4, DecisionInv
  <2> QED BY <1>2, <2>1, <2>2, <2>3, <2>4 DEF Command
<1>3. CASE UNCHANGED vars
  <2>1. TypeOK'
    BY <1>3 DEF CullingInv, TypeOK, vars
  <2>2. RowsProper'
    BY <1>3 DEF CullingInv, RowsProper, Proper, vars
  <2> QED BY <2>1, <2>2 DEF CullingInv
<1> QED BY <1>1, <1>2, <1>3 DEF Next

\* Rows stay proper, whatever the requests and commands are and however they alternate.
THEOREM InvariantHolds == Spec => []CullingInv
<1> QED BY InitInv, NextInv, PTL DEF Spec

\* Whatever requests are made: the rows of photos and sessions are of their types, the
\* tables that SQLAlchemy's models declare.
THEOREM TypeCorrect == Spec => []TypeOK
<1>1. CullingInv => TypeOK
  BY DEF CullingInv
<1> QED BY <1>1, InvariantHolds, PTL

-----------------------------------------------------------------------------
(* What the requests do, step by step.                                     *)

\* The last request tells what a step was.
LEMMA LastTells ==
    ASSUME Next
    PROVE  /\ last'[1] = "timeline" => \E gap \in Gaps : last'[2] = gap /\ ApplyTimeline(gap)
           /\ last'[1] = "hybrid" => \E gap \in Gaps, burstGap \in BurstGaps :
                    last' = <<"hybrid", gap, burstGap>> /\ ApplyHybrid(gap, burstGap)
           /\ last'[1] = "similar" => GroupSimilarPhotos
           /\ last'[1] = "analysis" =>
                \E pending \in SUBSET Photos : \E done \in SUBSET pending :
                    last'[2] = pending /\ Analysis(pending, done)
           /\ last'[1] # "command" =>
                WebRequest \/ \E chosen \in Selections, choice \in Requested, confirm \in BOOLEAN :
                                DecisionsCommand(chosen, StateMap(choice), confirm)
<1>1. CASE WebRequest
  <2>1. CASE \E gap \in Gaps : ApplyTimeline(gap)
    BY <1>1, <2>1 DEF ApplyTimeline, Request
  <2>2. CASE \E gap \in Gaps, burstGap \in BurstGaps : ApplyHybrid(gap, burstGap)
    <3>1. PICK gap \in Gaps, burstGap \in BurstGaps : ApplyHybrid(gap, burstGap)
      BY <2>2
    <3>2. last' = <<"hybrid", gap, burstGap>>
      BY <3>1 DEF ApplyHybrid, Request
    <3> QED BY <1>1, <3>1, <3>2
  <2>3. CASE \E burstGap \in BurstGaps : ApplyBurst(burstGap)
    BY <1>1, <2>3 DEF ApplyBurst, Request
  <2>4. CASE \E s \in sessions : Delete(s)
    BY <1>1, <2>4 DEF Delete, Request
  <2>5. CASE GroupSimilarPhotos
    BY <1>1, <2>5 DEF GroupSimilarPhotos, Request
  <2>6. CASE \E p \in Photos : Rescan(p)
    BY <1>1, <2>6 DEF Rescan, Request
  <2>7. CASE \E p \in Photos, choice \in Requested : SetDecision(p, choice)
    BY <1>1, <2>7 DEF SetDecision, Request
  <2>8. CASE \E done \in SUBSET Photos : CancelledAnalysis(done)
    BY <1>1, <2>8 DEF CancelledAnalysis, Request
  <2>9. CASE \E done \in SUBSET Photos, pending \in SUBSET Photos :
               done \subseteq pending /\ Analysis(pending, done)
    <3>1. PICK done \in SUBSET Photos, pending \in SUBSET Photos : done \subseteq pending /\ Analysis(pending, done)
      BY <2>9
    <3>2. last' = <<"analysis", pending>>
      BY <3>1 DEF Analysis, Request
    <3> QED BY <1>1, <3>1, <3>2
  <2> QED BY <1>1, <2>1, <2>2, <2>3, <2>4, <2>5, <2>6, <2>7, <2>8, <2>9, Zenon DEF WebRequest
<1>2. CASE Command
  <2>1. CASE \E gap \in Gaps : GroupCommand(gap)
    BY <2>1 DEF GroupCommand, Request
  <2>2. CASE \E burstGap \in BurstGaps : BurstsCommand(burstGap)
    BY <2>2 DEF BurstsCommand, Request
  <2>3. CASE \E chosen \in Selections : \E done \in SUBSET chosen : AnalyzeCommand(chosen, done)
    BY <2>3 DEF AnalyzeCommand, Request
  <2>4. CASE \E chosen \in Selections, choice \in Requested, confirm \in BOOLEAN :
               DecisionsCommand(chosen, StateMap(choice), confirm)
    BY <2>4 DEF DecisionsCommand, Request
  <2> QED BY <1>2, <2>1, <2>2, <2>3, <2>4 DEF Command
<1> QED BY <1>1, <1>2 DEF Next

\* The photos that a timeline assigns to a session are those it is made of.
LEMMA SessionMembers ==
    ASSUME CullingInv, NEW gap \in Nat, NEW g \in Found(gap)
    PROVE  /\ {q \in Photos : Assigned(Found(gap), q) = g} = g
           /\ g \subseteq DatedPhotos /\ g # {}
<1>1. Chains(Found(gap), DatedPhotos, NearPairs(gap))
  BY FoundNear DEF CullingInv, TypeOK
<1>2. g \subseteq DatedPhotos /\ g # {} /\ g \subseteq Photos
  BY <1>1 DEF Chains, DatedPhotos
<1>3. \A q \in g : Assigned(Found(gap), q) = g
  BY <1>1, TheGroup DEF Assigned
<1>4. \A q \in Photos : Assigned(Found(gap), q) = g => q \in g
  BY <1>2, AssignedDated DEF Nobody
<1> QED BY <1>2, <1>3, <1>4

\* A timeline or a hybrid grouping: the chains of photos that are near are the sessions.
LEMMA TimelineStep ==
    ASSUME CullingInv, NEW gap \in Nat, sessions' = SessionRows(Found(gap)),
           \A p \in Photos : row'[p].session = Assigned(Found(gap), p),
           NEW p \in Photos
    PROVE  /\ Dated(shot[p]) => InItsSession(p, gap)
           /\ ~Dated(shot[p]) => row'[p].session = Nobody
<1>1. ASSUME Dated(shot[p])
      PROVE  InItsSession(p, gap)
  <2> DEFINE g == Assigned(Found(gap), p)
             times == {shot[q].time : q \in g}
             s == [id |-> g, start |-> Min(times), end |-> Max(times), count |-> Cardinality(g)]
  <2>1. g \in Found(gap) /\ p \in g
    BY <1>1, AssignedDated
  <2>2. s \in sessions'
    BY <2>1 DEF SessionRows
  <2>3. {q \in DatedPhotos : Linked(DatedPhotos, NearPairs(gap), p, q)} = g
    BY <2>1, FoundNear DEF CullingInv, TypeOK
  <2>4. {q \in Photos : Assigned(Found(gap), q) = g} = g /\ g \subseteq DatedPhotos /\ g # {}
    <3> HIDE DEF g
    <3> QED BY <2>1, SessionMembers
  <2>5. {q \in Photos : row'[q].session = g} = {q \in Photos : Assigned(Found(gap), q) = g}
    OBVIOUS
  <2>6. shot[p].time \in Min(times)..Max(times)
    <3> HIDE DEF g
    <3> QED BY <2>1, <2>4, SessionTimes DEF CullingInv
  <2>7. row'[p].session = g
    OBVIOUS
  <2>8. s.id = g /\ s.start = Min(times) /\ s.end = Max(times) /\ s.count = Cardinality(g)
    OBVIOUS
  <2> HIDE DEF g, times, s
  <2> QED BY <2>2, <2>3, <2>4, <2>5, <2>6, <2>7, <2>8 DEF InItsSession
<1>2. ~Dated(shot[p]) => row'[p].session = Nobody
  BY AssignedDated
<1> QED BY <1>1, <1>2

LEMMA HybridRow ==
    ASSUME NEW gap, NEW burstGap, ApplyHybrid(gap, burstGap), NEW p \in Photos, row[p] \in Row
    PROVE  /\ row'[p].session = Assigned(Found(gap), p)
           /\ row'[p].burst = InBurst(BurstsWithin(Found(gap), burstGap), p)
<1> DEFINE x == Assigned(Found(gap), p)
           b == InBurst(BurstsWithin(Found(gap), burstGap), p)
<1>1. row'[p] = [row[p] EXCEPT !.session = x, !.burst = b]
  BY DEF ApplyHybrid
<1> HIDE DEF x, b
<1>2. row'[p].session = x /\ row'[p].burst = b
  BY <1>1 DEF Row
<1> QED BY <1>2 DEF x, b

\* After a timeline grouping the sessions are the chains of photos whose times are at most
\* the gap apart, for every gap and whatever times the photos have, and their rows tell
\* who is in them and when (timeline.py:16).
THEOREM TimelineCorrect == Spec => TimelineFollowsGaps
<1>1. ASSUME CullingInv, Next, NEW gap \in Gaps, last'[1] \in {"timeline", "hybrid"}, last'[2] = gap
      PROVE  \A p \in Photos : /\ Dated(shot[p]) => InItsSession(p, gap)
                               /\ ~Dated(shot[p]) => row'[p].session = Nobody
  <2>1. \A p \in Photos : row[p] \in Row
    BY <1>1 DEF CullingInv, TypeOK
  <2>2. CASE ApplyTimeline(gap)
    <3>1. \A p \in Photos : row'[p].session = Assigned(Found(gap), p)
      BY <2>1, <2>2 DEF ApplyTimeline, Row
    <3> QED BY <1>1, <2>2, <3>1, TimelineStep DEF ApplyTimeline
  <2>3. CASE \E burstGap \in BurstGaps : ApplyHybrid(gap, burstGap)
    <3>1. PICK burstGap \in BurstGaps : ApplyHybrid(gap, burstGap)
      BY <2>3
    <3>2. \A p \in Photos : row'[p].session = Assigned(Found(gap), p)
      BY <2>1, <3>1, HybridRow
    <3> QED BY <1>1, <3>1, <3>2, TimelineStep DEF ApplyHybrid
  <2> QED BY <1>1, <2>2, <2>3, LastTells
<1>2. CullingInv /\ [Next]_vars =>
        [\A gap \in Gaps : last'[1] \in {"timeline", "hybrid"} /\ last'[2] = gap =>
            \A p \in Photos :
                /\ Dated(shot[p]) => InItsSession(p, gap)
                /\ ~Dated(shot[p]) => row'[p].session = Nobody]_vars
  BY <1>1
<1> QED BY <1>2, InvariantHolds, PTL DEF Spec, TimelineFollowsGaps

\* The groups of at least two photos of a partition into chains.
LEMMA BigGroups ==
    ASSUME NEW all, NEW S, NEW related, Chains(all, S, related),
           NEW big, big = {c \in all : Cardinality(c) >= 2}, NEW p
    PROVE  /\ p \in S /\ Cardinality(GroupOf(all, p)) >= 2 =>
                Member(big, p) /\ GroupOf(big, p) = GroupOf(all, p)
           /\ p \in S /\ ~(Cardinality(GroupOf(all, p)) >= 2) => ~Member(big, p)
           /\ p \notin S => ~Member(big, p)
<1>1. ASSUME p \in S PROVE GroupOf(all, p) \in all /\ p \in GroupOf(all, p)
  BY <1>1, TheGroup
<1>2. \A g \in big : p \in g => g = GroupOf(all, p)
  BY TheGroup
<1>3. Member(big, p) => GroupOf(big, p) \in big /\ p \in GroupOf(big, p)
  BY Zenon DEF Member, GroupOf
<1>4. p \notin S => ~Member(big, p)
  BY DEF Chains, Member
<1>5. ASSUME p \in S, Cardinality(GroupOf(all, p)) >= 2 PROVE Member(big, p)
  BY <1>1, <1>5 DEF Member
<1>6. ASSUME p \in S, ~(Cardinality(GroupOf(all, p)) >= 2) PROVE ~Member(big, p)
  BY <1>2, <1>6 DEF Member
<1> QED BY <1>2, <1>3, <1>4, <1>5, <1>6

\* The bursts that a hybrid grouping finds in the session g are those of g alone.
LEMMA BurstsOfSession ==
    ASSUME CullingInv, NEW gap \in Nat, NEW burstGap \in Nat, NEW g \in Found(gap), NEW p \in g
    PROVE  /\ Member(BurstsWithin(Found(gap), burstGap), p) <=> Member(Bursts(shot, g, burstGap), p)
           /\ Member(Bursts(shot, g, burstGap), p) =>
                GroupOf(BurstsWithin(Found(gap), burstGap), p) = GroupOf(Bursts(shot, g, burstGap), p)
<1> DEFINE all == BurstsWithin(Found(gap), burstGap)
           mine == Bursts(shot, g, burstGap)
<1>1. Chains(Found(gap), DatedPhotos, NearPairs(gap))
  BY FoundNear DEF CullingInv, TypeOK
<1>2. \A s \in Found(gap) : \A b \in Bursts(shot, s, burstGap) : b \subseteq s
  <2> SUFFICES ASSUME NEW s \in Found(gap) PROVE \A b \in Bursts(shot, s, burstGap) : b \subseteq s
    OBVIOUS
  <2>1. Chains(Sessions(shot, s, burstGap), s, NearPairs(burstGap))
    <3>1. s \subseteq DatedPhotos
      BY <1>1 DEF Chains
    <3> QED BY <3>1, SessionsNear DEF CullingInv, TypeOK
  <2> QED BY <2>1 DEF Bursts, Chains
<1>3. ASSUME NEW b \in all, p \in b PROVE b \in mine
  <2>1. PICK s \in Found(gap) : b \in Bursts(shot, s, burstGap)
    BY <1>3 DEF BurstsWithin
  <2>2. p \in s
    BY <1>2, <1>3, <2>1
  <2>3. s = g
    BY <1>1, <2>1, <2>2 DEF Chains
  <2> QED BY <2>1, <2>3
<1>4. mine \subseteq all
  BY DEF BurstsWithin
<1> HIDE DEF all, mine
<1>5. {b \in all : p \in b} = {b \in mine : p \in b}
  BY <1>3, <1>4
<1>6. Member(all, p) <=> Member(mine, p)
  BY <1>3, <1>4 DEF Member
<1>7. Member(mine, p) => GroupOf(all, p) = GroupOf(mine, p)
  <2> SUFFICES ASSUME Member(mine, p) PROVE GroupOf(all, p) = GroupOf(mine, p)
    OBVIOUS
  <2>1. \A b : (b \in all /\ p \in b) <=> (b \in mine /\ p \in b)
    BY <1>3, <1>4
  <2>2. Chains(Sessions(shot, g, burstGap), g, NearPairs(burstGap))
    <3>1. g \subseteq DatedPhotos
      BY <1>1 DEF Chains
    <3> QED BY <3>1, SessionsNear DEF CullingInv, TypeOK
  <2>3. \A b, c \in mine : p \in b /\ p \in c => b = c
    BY <2>2 DEF mine, Bursts, Chains
  <2>4. GroupOf(all, p) \in all /\ p \in GroupOf(all, p)
    BY <1>6, Zenon DEF Member, GroupOf
  <2>5. GroupOf(mine, p) \in mine /\ p \in GroupOf(mine, p)
    BY Zenon DEF Member, GroupOf
  <2> QED BY <2>1, <2>3, <2>4, <2>5
<1> QED BY <1>6, <1>7 DEF all, mine

\* A hybrid grouping, photo by photo.
LEMMA HybridStep ==
    ASSUME CullingInv, NEW gap \in Gaps, NEW burstGap \in BurstGaps, ApplyHybrid(gap, burstGap),
           NEW p \in Photos
    PROVE  LET mine == {q \in DatedPhotos :
                            /\ row'[q].session = row'[p].session
                            /\ Linked({r \in DatedPhotos : row'[r].session = row'[p].session},
                                      NearPairs(burstGap), p, q)}
           IN  IF p \in mine /\ Cardinality(mine) >= 2
               THEN row'[p].burst = [kind |-> "burst", of |-> mine]
               ELSE row'[p].burst = row[p].burst
<1>0. TypeOK /\ gap \in Nat /\ burstGap \in Nat /\ shot \in [Photos -> Shots]
  BY DEF CullingInv, TypeOK
<1>1. \A q \in Photos : /\ row'[q].session = Assigned(Found(gap), q)
                        /\ row'[q].burst = InBurst(BurstsWithin(Found(gap), burstGap), q)
  BY <1>0, HybridRow DEF TypeOK
<1>2. Chains(Found(gap), DatedPhotos, NearPairs(gap))
  BY <1>0, FoundNear
<1>3. DatedPhotos \subseteq Photos
  BY DEF DatedPhotos
<1> DEFINE S == {r \in DatedPhotos : row'[r].session = row'[p].session}
           mine == {q \in DatedPhotos : /\ row'[q].session = row'[p].session
                                        /\ Linked(S, NearPairs(burstGap), p, q)}
<1>4. CASE p \in DatedPhotos
  <2> DEFINE g == row'[p].session
             chains == Sessions(shot, g, burstGap)
             bursts == Bursts(shot, g, burstGap)
  <2>1. g \in Found(gap) /\ p \in g
    BY <1>1, <1>4, AssignedDated, <1>0 DEF DatedPhotos
  <2>2. S = g
    <3>1. {q \in Photos : Assigned(Found(gap), q) = g} = g /\ g \subseteq DatedPhotos
      <4> HIDE DEF g
      <4> QED BY <1>0, <2>1, SessionMembers
    <3> QED BY <1>1, <1>3, <3>1
  <2>3. /\ Chains(chains, g, NearPairs(burstGap))
        /\ \A b \in chains : \A q \in b : {r \in g : Linked(g, NearPairs(burstGap), q, r)} = b
    <3>1. g \subseteq DatedPhotos
      BY <1>2, <2>1 DEF Chains
    <3> HIDE DEF g
    <3> QED BY <1>0, <3>1, SessionsNear
  <2>4. mine = {r \in g : Linked(g, NearPairs(burstGap), p, r)}
    BY <2>2
  <2> HIDE DEF g, mine
  <2>5. GroupOf(chains, p) \in chains /\ p \in GroupOf(chains, p)
    <3> HIDE DEF chains
    <3> QED BY <2>1, <2>3, TheGroup
  <2>6. mine = GroupOf(chains, p)
    BY <2>3, <2>4, <2>5
  <2>7. bursts = {b \in chains : Cardinality(b) >= 2}
    BY DEF Bursts
  <2>8. /\ Cardinality(mine) >= 2 => Member(bursts, p) /\ GroupOf(bursts, p) = mine
        /\ ~(Cardinality(mine) >= 2) => ~Member(bursts, p)
    <3> HIDE DEF chains, bursts
    <3> QED BY <2>1, <2>3, <2>6, <2>7, BigGroups
  <2>9. /\ Member(BurstsWithin(Found(gap), burstGap), p) <=> Member(bursts, p)
        /\ Member(bursts, p) => GroupOf(BurstsWithin(Found(gap), burstGap), p) = GroupOf(bursts, p)
    BY <1>0, <2>1, BurstsOfSession
  <2>10. row'[p].burst = InBurst(BurstsWithin(Found(gap), burstGap), p)
    BY <1>1
  <2>11. IF p \in mine /\ Cardinality(mine) >= 2
         THEN row'[p].burst = [kind |-> "burst", of |-> mine]
         ELSE row'[p].burst = row[p].burst
    <3> HIDE DEF bursts, chains
    <3> QED BY <2>5, <2>6, <2>8, <2>9, <2>10 DEF InBurst
  <2> QED BY <2>11 DEF mine
<1>5. CASE p \notin DatedPhotos
  <2>1. ASSUME NEW b \in BurstsWithin(Found(gap), burstGap) PROVE b \subseteq DatedPhotos
    <3>1. PICK s \in Found(gap) : b \in Bursts(shot, s, burstGap)
      BY <2>1 DEF BurstsWithin
    <3>2. s \subseteq DatedPhotos
      BY <1>2 DEF Chains
    <3>3. Chains(Sessions(shot, s, burstGap), s, NearPairs(burstGap))
      BY <1>0, <3>2, SessionsNear
    <3> QED BY <3>1, <3>2, <3>3 DEF Bursts, Chains
  <2>2. ~Member(BurstsWithin(Found(gap), burstGap), p)
    BY <1>5, <2>1 DEF Member
  <2>3. row'[p].burst = row[p].burst
    BY <1>1, <2>2 DEF InBurst
  <2>4. p \notin mine
    BY <1>5
  <2> QED BY <2>3, <2>4
<1> QED BY <1>4, <1>5

\* A burst never reaches over the border of a session, and holds exactly the photos of it
\* that chain within the burst gap, for every two gaps (session_service.py, apply_hybrid).
THEOREM BurstsCorrect == Spec => BurstsStayInSessions
<1>1. CullingInv /\ [Next]_vars =>
        [\A gap \in Gaps, burstGap \in BurstGaps : last' = <<"hybrid", gap, burstGap>> =>
            \A p \in Photos :
                LET mine == {q \in DatedPhotos :
                                /\ row'[q].session = row'[p].session
                                /\ Linked({r \in DatedPhotos : row'[r].session = row'[p].session},
                                          NearPairs(burstGap), p, q)}
                IN  IF p \in mine /\ Cardinality(mine) >= 2
                    THEN row'[p].burst = [kind |-> "burst", of |-> mine]
                    ELSE row'[p].burst = row[p].burst]_vars
  <2> SUFFICES ASSUME CullingInv, Next, NEW gap \in Gaps, NEW burstGap \in BurstGaps,
                      last' = <<"hybrid", gap, burstGap>>
               PROVE  ApplyHybrid(gap, burstGap)
    BY HybridStep, Zenon
  <2>1. \E g \in Gaps, b \in BurstGaps : last' = <<"hybrid", g, b>> /\ ApplyHybrid(g, b)
    BY LastTells
  <2> QED BY <2>1
<1> QED BY <1>1, InvariantHolds, PTL DEF Spec, BurstsStayInSessions

-----------------------------------------------------------------------------
(* Sessions that have rows.                                                *)

\* What the web application does to the sessions of photos, other than by time.
LEMMA SessionsOnlyLeft ==
    ASSUME CullingInv, Next, last'[1] \notin {"command", "timeline", "hybrid"}
    PROVE  \/ \E s \in sessions : /\ sessions' = sessions \ {s}
                                  /\ \A p \in Photos : row'[p].session =
                                        IF row[p].session = s.id THEN Nobody ELSE row[p].session
           \/ /\ sessions' = sessions
              /\ \A p \in Photos : row'[p].session \in {Nobody, row[p].session}
<1>0. TypeOK /\ RowsProper /\ \A p \in Photos : row[p] \in Row
  BY DEF CullingInv, TypeOK
<1> USE <1>0
<1>1. ASSUME NEW burstGap \in BurstGaps, ApplyBurst(burstGap)
      PROVE  sessions' = sessions /\ \A p \in Photos : row'[p].session = row[p].session
  BY <1>1 DEF ApplyBurst, Row
<1>2. ASSUME NEW s \in sessions, Delete(s)
      PROVE  /\ sessions' = sessions \ {s}
             /\ \A p \in Photos : row'[p].session =
                    IF row[p].session = s.id THEN Nobody ELSE row[p].session
  <2>1. ASSUME NEW p \in Photos
        PROVE  row'[p].session = IF row[p].session = s.id THEN Nobody ELSE row[p].session
    <3>1. row'[p] = Released(s.id, p)
      BY <1>2 DEF Delete
    <3>2. CASE row[p].session = s.id
      <4> DEFINE x == Nobody
                 b == NoGroup
      <4>1. row'[p] = [row[p] EXCEPT !.session = x, !.burst = b]
        BY <3>1, <3>2 DEF Released
      <4> HIDE DEF x, b
      <4>2. row'[p].session = x
        BY <4>1 DEF Row
      <4> QED BY <3>2, <4>2 DEF x
    <3>3. CASE row[p].session # s.id
      BY <3>1, <3>3 DEF Released
    <3> QED BY <3>2, <3>3
  <2> QED BY <1>2, <2>1 DEF Delete
<1>3. ASSUME GroupSimilarPhotos
      PROVE  sessions' = sessions /\ \A p \in Photos : row'[p].session = row[p].session
  BY <1>3 DEF GroupSimilarPhotos, Row
<1>4. ASSUME NEW q \in Photos, Rescan(q)
      PROVE  sessions' = sessions /\ \A p \in Photos : row'[p].session \in {Nobody, row[p].session}
  <2>1. \A p \in Photos : row'[p] = IF p = q THEN ImportedRow ELSE row[p]
    BY <1>4 DEF Rescan, TypeOK
  <2> QED BY <1>4, <2>1, ImportedType DEF Rescan
<1>5. ASSUME NEW q \in Photos, NEW choice \in Requested, SetDecision(q, choice)
      PROVE  sessions' = sessions /\ \A p \in Photos : row'[p].session = row[p].session
  <2> DEFINE d == StateMap(choice)
  <2>1. row' = [row EXCEPT ![q].decision = d] /\ sessions' = sessions
    BY <1>5 DEF SetDecision
  <2> HIDE DEF d
  <2> QED BY <2>1 DEF TypeOK, Row
<1>6. ASSUME NEW chosen, NEW choice, NEW confirm, DecisionsCommand(chosen, StateMap(choice), confirm)
      PROVE  sessions' = sessions /\ \A p \in Photos : row'[p].session = row[p].session
  <2> DEFINE d == StateMap(choice)
  <2>1. \A p \in Photos : row'[p] = IF p \in chosen THEN [row[p] EXCEPT !.decision = d] ELSE row[p]
    BY <1>6 DEF DecisionsCommand
  <2> HIDE DEF d
  <2>2. \A p \in Photos : row'[p].session = row[p].session
    BY <2>1 DEF Row
  <2> QED BY <1>6, <2>2 DEF DecisionsCommand
<1>7. ASSUME NEW done, CancelledAnalysis(done)
      PROVE  sessions' = sessions /\ \A p \in Photos : row'[p].session = row[p].session
  <2>1. ASSUME NEW p \in Photos PROVE row'[p].session = row[p].session
    <3> DEFINE d == Standalone(Measured(p).score)
    <3>1. row'[p] = IF p \in done THEN Judged(Measured(p), d) ELSE row[p]
      BY <1>7 DEF CancelledAnalysis
    <3>2. d \in Decisions
      BY StandaloneType
    <3> HIDE DEF d
    <3>3. Proper(p, Measured(p)) /\ Measured(p).session = row[p].session
      BY MeasuredType
    <3>4. Judged(Measured(p), d).session = Measured(p).session
      BY <3>2, <3>3, JudgedType
    <3> QED BY <3>1, <3>3, <3>4
  <2> QED BY <1>7, <2>1 DEF CancelledAnalysis
<1>8. ASSUME NEW pending \in SUBSET Photos, NEW done \in SUBSET pending, Analysis(pending, done)
      PROVE  sessions' = sessions /\ \A p \in Photos : row'[p].session = row[p].session
  <2> DEFINE grouping == GroupingPhotos(pending)
  <2>1. /\ sessions' = sessions
        /\ \A p \in Photos : p \notin grouping => row'[p] = row[p]
        /\ \A p \in grouping : row'[p].session = row[p].session
    BY <1>8, AnalysisRows
  <2> HIDE DEF grouping
  <2> QED BY <2>1
<1>9. CASE \E chosen \in Selections, choice \in Requested, confirm \in BOOLEAN :
                DecisionsCommand(chosen, StateMap(choice), confirm)
  BY <1>6, <1>9
<1>10. CASE WebRequest
  <2>1. ASSUME NEW gap \in Gaps, ApplyTimeline(gap) PROVE FALSE
    BY <2>1 DEF ApplyTimeline, Request
  <2>2. ASSUME NEW gap \in Gaps, NEW burstGap \in BurstGaps, ApplyHybrid(gap, burstGap) PROVE FALSE
    BY <2>2 DEF ApplyHybrid, Request
  <2>3. CASE \E burstGap \in BurstGaps : ApplyBurst(burstGap)
    BY <1>1, <2>3
  <2>4. CASE \E s \in sessions : Delete(s)
    BY <1>2, <2>4
  <2>5. CASE GroupSimilarPhotos
    BY <1>3, <2>5
  <2>6. CASE \E p \in Photos : Rescan(p)
    BY <1>4, <2>6
  <2>7. CASE \E p \in Photos, choice \in Requested : SetDecision(p, choice)
    BY <1>5, <2>7
  <2>8. CASE \E done \in SUBSET Photos : CancelledAnalysis(done)
    BY <1>7, <2>8
  <2>9. CASE \E done \in SUBSET Photos, pending \in SUBSET Photos :
               done \subseteq pending /\ Analysis(pending, done)
    BY <1>8, <2>9
  <2> QED BY <1>10, <2>1, <2>2, <2>3, <2>4, <2>5, <2>6, <2>7, <2>8, <2>9, Zenon DEF WebRequest
<1> QED BY <1>9, <1>10, LastTells

\* Whatever the web application does, it leaves no photo in a session that has no row, if
\* there was none: sessions are replaced as a whole and deleted with their assignments.
THEOREM SessionsCorrect == Spec => SessionsHaveRows
<1>1. ASSUME CullingInv, Next, last'[1] # "command",
             \A p \in Photos : row[p].session # Nobody => \E s \in sessions : s.id = row[p].session,
             NEW p \in Photos, row'[p].session # Nobody
      PROVE  \E s \in sessions' : s.id = row'[p].session
  <2>1. ASSUME NEW gap \in Gaps, sessions' = SessionRows(Found(gap)),
               row'[p].session = Assigned(Found(gap), p)
        PROVE  \E s \in sessions' : s.id = row'[p].session
    <3> DEFINE g == Assigned(Found(gap), p)
    <3>1. g \in Found(gap)
      BY <1>1, <2>1, AssignedDated
    <3> DEFINE s == [id |-> g, start |-> Min({shot[q].time : q \in g}),
                     end |-> Max({shot[q].time : q \in g}), count |-> Cardinality(g)]
    <3>2. s \in SessionRows(Found(gap))
      BY <3>1 DEF SessionRows
    <3>3. s.id = g
      OBVIOUS
    <3> HIDE DEF g, s
    <3> QED BY <2>1, <3>2, <3>3 DEF g
  <2>2. CASE last'[1] = "timeline"
    <3>1. PICK gap \in Gaps : ApplyTimeline(gap)
      BY <1>1, <2>2, LastTells
    <3>2. row'[p].session = Assigned(Found(gap), p)
      BY <1>1, <3>1 DEF ApplyTimeline, CullingInv, TypeOK, Row
    <3> QED BY <2>1, <3>1, <3>2 DEF ApplyTimeline
  <2>3. CASE last'[1] = "hybrid"
    <3>1. PICK gap \in Gaps, burstGap \in BurstGaps : ApplyHybrid(gap, burstGap)
      BY <1>1, <2>3, LastTells
    <3>2. row'[p].session = Assigned(Found(gap), p)
      BY <1>1, <3>1, HybridRow DEF CullingInv, TypeOK
    <3> QED BY <2>1, <3>1, <3>2 DEF ApplyHybrid
  <2>4. CASE last'[1] \notin {"timeline", "hybrid"}
    BY <1>1, <2>4, SessionsOnlyLeft
  <2> QED BY <2>2, <2>3, <2>4
<1>2. CullingInv /\ [Next]_vars =>
        [last'[1] # "command" /\ (\A p \in Photos : row[p].session # Nobody =>
                        \E s \in sessions : s.id = row[p].session) =>
         \A p \in Photos : row'[p].session # Nobody => \E s \in sessions' : s.id = row'[p].session]_vars
  BY <1>1
<1> QED BY <1>2, InvariantHolds, PTL DEF Spec, SessionsHaveRows

-----------------------------------------------------------------------------
(* Similar photos.                                                         *)

\* What grouping the similar photos of the whole catalog gives to each.
LEMMA SimilarStep ==
    ASSUME CullingInv, GroupSimilarPhotos, NEW p \in Photos
    PROVE  LET mine == {q \in Photos : Linked(Photos, AlikePairs, p, q)}
           IN  IF Cardinality(mine) >= 2
               THEN row'[p].burst = [kind |-> "similar", of |-> mine]
               ELSE row'[p].burst.kind # "similar"
<1> DEFINE clusters == Clusters(shot, Photos)
           groups == SimilarGroups(shot, Photos)
           hashed == {q \in Photos : shot[q].hash # NoHash}
           mine == {q \in Photos : Linked(Photos, AlikePairs, p, q)}
<1>1. /\ Chains(clusters, hashed, AlikePairs)
      /\ \A a, b \in Photos : <<a, b>> \in AlikePairs => Together(clusters, a, b)
  BY ClustersAlike DEF CullingInv, TypeOK
<1>2. groups = {c \in clusters : Cardinality(c) >= 2}
  BY DEF SimilarGroups
<1>3. row'[p].burst = InSimilar(groups, p)
  <2> DEFINE b == InSimilar(groups, p)
  <2>1. row'[p] = [row[p] EXCEPT !.burst = b]
    BY DEF GroupSimilarPhotos
  <2> HIDE DEF b
  <2>2. row'[p].burst = b
    BY <2>1 DEF CullingInv, TypeOK, Row
  <2> QED BY <2>2 DEF b
<1>4. hashed \subseteq Photos
  OBVIOUS
<1> HIDE DEF clusters, groups
<1>5. CASE p \in hashed
  <2>1. GroupOf(clusters, p) \in clusters /\ p \in GroupOf(clusters, p)
    <3> HIDE DEF hashed
    <3> QED BY <1>1, <1>5, TheGroup
  <2>2. \A a \in hashed, b \in Photos : <<a, b>> \in AlikePairs => Together(clusters, a, b)
    BY <1>1
  <2>3. mine = GroupOf(clusters, p)
    <3> HIDE DEF hashed
    <3> QED BY <1>1, <1>4, <2>1, <2>2, LinkedAreGroup
  <2>4. /\ Cardinality(mine) >= 2 => Member(groups, p) /\ GroupOf(groups, p) = mine
        /\ ~(Cardinality(mine) >= 2) => ~Member(groups, p)
    <3> HIDE DEF hashed, mine
    <3> QED BY <1>1, <1>2, <1>5, <2>3, BigGroups
  <2> HIDE DEF mine, hashed
  <2>5. IF Cardinality(mine) >= 2
        THEN row'[p].burst = [kind |-> "similar", of |-> mine]
        ELSE row'[p].burst.kind # "similar"
    BY <1>3, <2>4 DEF InSimilar, NoGroup
  <2> QED BY <2>5 DEF mine
<1>6. CASE p \notin hashed
  <2>1. \A b \in Photos : <<p, b>> \notin AlikePairs
    BY <1>6 DEF AlikePairs, Alike
  <2>2. mine \subseteq {p}
    <3> SUFFICES ASSUME NEW q \in Photos, Linked(Photos, AlikePairs, p, q), q # p PROVE FALSE
      OBVIOUS
    <3>1. {p} \in SUBSET Photos /\ p \in {p} /\ q \notin {p}
      OBVIOUS
    <3>2. \E a \in {p}, b \in Photos \ {p} : <<a, b>> \in AlikePairs
      BY <3>1 DEF Linked
    <3> QED BY <2>1, <3>2
  <2> HIDE DEF mine
  <2>3. ~(Cardinality(mine) >= 2)
    <3>1. mine = {} \/ mine = {p}
      BY <2>2
    <3>2. Cardinality(mine) = 0 \/ Cardinality(mine) = 1
      BY <3>1, FS_EmptySet, FS_Singleton
    <3> QED BY <3>2
  <2>4. ~Member(groups, p)
    <3> HIDE DEF hashed
    <3> QED BY <1>1, <1>2, <1>6, BigGroups
  <2>5. row'[p].burst.kind # "similar"
    BY <1>3, <2>4 DEF InSimilar, NoGroup
  <2> QED BY <2>3, <2>5 DEF mine
<1> QED BY <1>5, <1>6

\* The chunks and the table of exact hashes, which spare most comparisons, lose no similar
\* pair: whatever the hashes, their lengths and their order, the groups are the chains of
\* photos that are alike (similarity.py:42).
THEOREM SimilarCorrect == Spec => SimilarPhotosFound
<1>1. CullingInv /\ [Next]_vars =>
        [last'[1] = "similar" =>
            \A p \in Photos :
                LET mine == {q \in Photos : Linked(Photos, AlikePairs, p, q)}
                IN  IF Cardinality(mine) >= 2
                    THEN row'[p].burst = [kind |-> "similar", of |-> mine]
                    ELSE row'[p].burst.kind # "similar"]_vars
  <2> SUFFICES ASSUME CullingInv, Next, last'[1] = "similar" PROVE GroupSimilarPhotos
    BY SimilarStep, Zenon
  <2> QED BY LastTells
<1> QED BY <1>1, InvariantHolds, PTL DEF Spec, SimilarPhotosFound

-----------------------------------------------------------------------------
(* Decisions of an analysis.                                               *)

\* The groups that an analysis decides about, in which the best photo is kept.
LEMMA AnalysisGroups ==
    ASSUME TypeOK, NEW P, P \subseteq Photos
    PROVE  /\ \A g \in SimilarGroups(shot, P) : g \subseteq P /\ g # {} /\ IsFiniteSet(g)
           /\ \A g \in SimilarGroups(shot, P) : \A p \in g :
                /\ {h \in SimilarGroups(shot, P) : p \in h} = {g}
                /\ Member(SimilarGroups(shot, P), p) /\ GroupOf(SimilarGroups(shot, P), p) = g
<1> DEFINE groups == SimilarGroups(shot, P)
<1>1. Chains(Clusters(shot, P), {p \in P : shot[p].hash # NoHash}, AlikePairs)
  BY ClustersAlike DEF TypeOK
<1>2. groups \subseteq Clusters(shot, P)
  BY DEF SimilarGroups
<1> HIDE DEF groups
<1>3. \A g \in groups : g \subseteq P /\ g # {}
  BY <1>1, <1>2 DEF Chains
<1>4. \A g, h \in groups : \A p : p \in g /\ p \in h => g = h
  BY <1>1, <1>2 DEF Chains
<1>5. \A g \in groups : IsFiniteSet(g)
  BY <1>3, PhotosFinite, FS_Subset
<1>6. ASSUME NEW g \in groups, NEW p \in g
      PROVE  {h \in groups : p \in h} = {g} /\ Member(groups, p) /\ GroupOf(groups, p) = g
  <2>1. Member(groups, p)
    BY DEF Member
  <2>2. GroupOf(groups, p) \in groups /\ p \in GroupOf(groups, p)
    BY <2>1, Zenon DEF Member, GroupOf
  <2> QED BY <1>4, <2>1, <2>2
<1> QED BY <1>3, <1>5, <1>6 DEF groups

\* How a photo of a group is decided: the best is kept, unless it is corrupted, and one is
\* redundant only if it is far from the best.
LEMMA DecisionInGroup ==
    ASSUME NEW score, NEW corrupted, NEW groups, NEW g, NEW p \in g,
           {h \in groups : p \in h} = {g}
    PROVE  LET best == Representative(score, g)
               d == Decision(score, corrupted, groups, p)
           IN  /\ p = best /\ p \notin corrupted => d \in {"BEST", "KEEP"}
               /\ d = "REJECT_REDUNDANT" => p # best /\ score[best] - score[p] > 15
<1>1. (CHOOSE h \in {g} : TRUE) = g
  OBVIOUS
<1>2. p \notin corrupted => Decision(score, corrupted, groups, p) = InGroup(score, g, p)
  BY <1>1 DEF Decision
<1>3. p \in corrupted => Decision(score, corrupted, groups, p) = "REJECT_TECHNICAL"
  BY DEF Decision
<1> QED BY <1>2, <1>3 DEF InGroup

LEMMA DecisionAlone ==
    ASSUME NEW score, NEW corrupted, NEW groups, NEW p, ~Member(groups, p)
    PROVE  Decision(score, corrupted, groups, p) # "REJECT_REDUNDANT"
<1>1. {g \in groups : p \in g} = {}
  BY DEF Member
<1> QED BY <1>1 DEF Decision, Standalone

LEMMA InSimilarIs ==
    ASSUME NEW groups, NEW p
    PROVE  /\ Member(groups, p) => InSimilar(groups, p) = [kind |-> "similar", of |-> GroupOf(groups, p)]
           /\ Member(groups, p) => InSimilar(groups, p).of = GroupOf(groups, p)
           /\ ~Member(groups, p) => InSimilar(groups, p).kind # "similar"
BY DEF InSimilar, NoGroup

\* What an analysis does to the photos of a group g that it decides about.
LEMMA AnalysisStep ==
    ASSUME CullingInv, NEW pending \in SUBSET Photos, NEW done \in SUBSET pending, Analysis(pending, done)
    PROVE  LET groups == SimilarGroups(shot, GroupingPhotos(pending))
           IN  /\ \A p \in Photos : ~Member(groups, p) =>
                    /\ row'[p].decision = "REJECT_REDUNDANT" => row[p].decision = "REJECT_REDUNDANT"
                    /\ p \in pending => row'[p].burst.kind # "similar"
               /\ \A g \in groups : \E best \in g :
                    /\ g \subseteq Photos
                    /\ {p \in Photos : row'[p].burst = [kind |-> "similar", of |-> g]} = g
                    /\ row'[best].score > 0 => row'[best].decision \in {"BEST", "KEEP"}
                    /\ \A p \in g :
                        /\ row'[p].score \in 0..100 /\ row'[p].score <= row'[best].score
                        /\ row'[p].decision = "REJECT_REDUNDANT" =>
                                row'[best].score - row'[p].score > 15
<1> DEFINE grouping == GroupingPhotos(pending)
           groups == SimilarGroups(shot, grouping)
           score == Scores(done)
           corrupted == Corrupted(done)
<1>1. /\ pending \subseteq grouping /\ grouping \subseteq Photos
      /\ \A p \in Photos : p \notin grouping => row'[p] = row[p]
      /\ \A p \in grouping :
            /\ row'[p].score = score[p] /\ score[p] \in 0..100
            /\ p \in corrupted => score[p] = 0
            /\ row'[p].burst = InSimilar(groups, p)
            /\ row'[p].decision = Decision(score, corrupted, groups, p)
  BY AnalysisRows
<1> HIDE DEF score, corrupted
<1>2. /\ \A g \in groups : g \subseteq grouping /\ g # {} /\ IsFiniteSet(g)
      /\ \A g \in groups : \A p \in g :
            {h \in groups : p \in h} = {g} /\ Member(groups, p) /\ GroupOf(groups, p) = g
  <2> HIDE DEF grouping
  <2> QED BY <1>1, AnalysisGroups DEF CullingInv
<1> HIDE DEF groups, grouping
<1>3. ASSUME NEW p \in Photos, ~Member(groups, p)
      PROVE  /\ row'[p].decision = "REJECT_REDUNDANT" => row[p].decision = "REJECT_REDUNDANT"
             /\ p \in pending => row'[p].burst.kind # "similar"
  <2>1. CASE p \in grouping
    <3>1. row'[p].decision # "REJECT_REDUNDANT"
      BY <1>1, <1>3, <2>1, DecisionAlone
    <3>2. row'[p].burst.kind # "similar"
      BY <1>1, <1>3, <2>1, InSimilarIs
    <3> QED BY <3>1, <3>2
  <2>2. CASE p \notin grouping
    BY <1>1, <2>2
  <2> QED BY <2>1, <2>2
<1>4. ASSUME NEW g \in groups
      PROVE  \E best \in g :
                /\ g \subseteq Photos
                /\ {p \in Photos : row'[p].burst = [kind |-> "similar", of |-> g]} = g
                /\ row'[best].score > 0 => row'[best].decision \in {"BEST", "KEEP"}
                /\ \A p \in g :
                    /\ row'[p].score \in 0..100 /\ row'[p].score <= row'[best].score
                    /\ row'[p].decision = "REJECT_REDUNDANT" =>
                            row'[best].score - row'[p].score > 15
  <2> DEFINE best == Representative(score, g)
  <2>1. g \subseteq grouping /\ g # {} /\ IsFiniteSet(g) /\ g \subseteq Photos /\ g \subseteq Int
    BY <1>1, <1>2, PhotosFinite
  <2>2. \A p \in g : score[p] \in Int
    BY <1>1, <2>1
  <2>3. best \in g /\ \A p \in g : score[p] <= score[best]
    BY <2>1, <2>2, RepresentativeBest
  <2>4. \A p \in g : LET d == Decision(score, corrupted, groups, p)
                     IN  /\ p = best /\ p \notin corrupted => d \in {"BEST", "KEEP"}
                         /\ d = "REJECT_REDUNDANT" => p # best /\ score[best] - score[p] > 15
    BY <1>2, DecisionInGroup
  <2> HIDE DEF best
  <2>5. row'[best].score > 0 => row'[best].decision \in {"BEST", "KEEP"}
    BY <1>1, <2>1, <2>3, <2>4
  <2>6. \A p \in g : /\ row'[p].score \in 0..100 /\ row'[p].score <= row'[best].score
                     /\ row'[p].decision = "REJECT_REDUNDANT" =>
                            row'[best].score - row'[p].score > 15
    BY <1>1, <2>1, <2>3, <2>4
  <2>7. ASSUME NEW p \in g PROVE row'[p].burst = [kind |-> "similar", of |-> g]
    BY <1>1, <1>2, <2>1, InSimilarIs
  <2>8. ASSUME NEW p \in Photos, row'[p].burst = [kind |-> "similar", of |-> g] PROVE p \in g
    <3>1. row'[p].burst.kind = "similar" /\ row'[p].burst.of = g
      BY <2>8
    <3>2. CASE p \in grouping /\ Member(groups, p)
      <4>1. row'[p].burst.of = GroupOf(groups, p)
        BY <1>1, <3>2, InSimilarIs
      <4>2. p \in GroupOf(groups, p)
        BY <3>2, Zenon DEF Member, GroupOf
      <4> QED BY <3>1, <4>1, <4>2
    <3>3. CASE p \in grouping /\ ~Member(groups, p)
      <4>1. row'[p].burst.kind # "similar"
        BY <1>1, <3>3, InSimilarIs
      <4> QED BY <3>1, <4>1
    <3>4. CASE p \notin grouping
      <4>1. row[p].burst.kind = "similar" /\ row[p].burst.of = g
        BY <1>1, <3>1, <3>4
      <4>2. p \in row[p].burst.of
        BY <4>1 DEF CullingInv, RowsProper, Proper, NoGroup
      <4> QED BY <2>1, <3>4, <4>1, <4>2
    <3> QED BY <3>2, <3>3, <3>4
  <2> QED BY <2>1, <2>3, <2>5, <2>6, <2>7, <2>8
<1> QED BY <1>3, <1>4 DEF groups, grouping

\* Nothing is rejected as redundant but for a photo of its group that is clearly better and
\* kept: however the groups of before overlapped with this one, whatever the scores are
\* and whichever photos an analysis reached (rules.py:41).
THEOREM RedundantCorrect == Spec => RedundantHasBetter
<1>1. ASSUME CullingInv, Next, last'[1] = "analysis",
             NEW p \in Photos, row'[p].decision = "REJECT_REDUNDANT", row[p].decision # "REJECT_REDUNDANT"
      PROVE  \E q \in Photos : /\ row'[q].burst = row'[p].burst
                               /\ row'[q].score > row'[p].score + 15
                               /\ row'[q].decision \in {"BEST", "KEEP"}
  <2>1. PICK pending \in SUBSET Photos : \E done \in SUBSET pending : Analysis(pending, done)
    BY <1>1, LastTells
  <2> DEFINE groups == SimilarGroups(shot, GroupingPhotos(pending))
  <2>2. /\ ~Member(groups, p) => row[p].decision = "REJECT_REDUNDANT"
        /\ \A g \in groups : \E best \in g :
             /\ g \subseteq Photos
             /\ {q \in Photos : row'[q].burst = [kind |-> "similar", of |-> g]} = g
             /\ row'[best].score > 0 => row'[best].decision \in {"BEST", "KEEP"}
             /\ \A q \in g :
                 /\ row'[q].score \in 0..100 /\ row'[q].score <= row'[best].score
                 /\ row'[q].decision = "REJECT_REDUNDANT" => row'[best].score - row'[q].score > 15
    BY <1>1, <2>1, AnalysisStep
  <2> HIDE DEF groups
  <2>3. PICK g \in groups : p \in g
    BY <1>1, <2>2 DEF Member
  <2>4. PICK best \in g :
             /\ g \subseteq Photos
             /\ {q \in Photos : row'[q].burst = [kind |-> "similar", of |-> g]} = g
             /\ row'[best].score > 0 => row'[best].decision \in {"BEST", "KEEP"}
             /\ \A q \in g :
                 /\ row'[q].score \in 0..100 /\ row'[q].score <= row'[best].score
                 /\ row'[q].decision = "REJECT_REDUNDANT" => row'[best].score - row'[q].score > 15
    BY <2>2
  <2>5. row'[best].score \in 0..100 /\ row'[p].score \in 0..100 /\ row'[best].score - row'[p].score > 15
    BY <1>1, <2>3, <2>4
  <2>6. best \in Photos /\ row'[best].burst = row'[p].burst
    BY <2>3, <2>4
  <2>7. row'[best].score > row'[p].score + 15 /\ row'[best].score > 0
    <3>1. \A a, b \in 0..100 : a - b > 15 => a > b + 15 /\ a > 0
      OBVIOUS
    <3> QED BY <2>5, <3>1
  <2> QED BY <2>4, <2>6, <2>7
<1>2. CullingInv /\ [Next]_vars =>
        [last'[1] = "analysis" =>
         \A p \in Photos : row'[p].decision = "REJECT_REDUNDANT" /\ row[p].decision # "REJECT_REDUNDANT" =>
            \E q \in Photos :
                /\ row'[q].burst = row'[p].burst
                /\ row'[q].score > row'[p].score + 15
                /\ row'[q].decision \in {"BEST", "KEEP"}]_vars
  BY <1>1
<1> QED BY <1>2, InvariantHolds, PTL DEF Spec, RedundantHasBetter

-----------------------------------------------------------------------------
(* The review.                                                             *)

USE PageAssumption

\* The best members first: by score, then by name, then by identity.
LEMMA BetterOrders ==
    ASSUME NEW M, M \subseteq Int,
           NEW score, \A p \in M : score[p] \in Int, NEW name, \A p \in M : name[p] \in Int,
           NEW better,
           \A p, q \in M : <<p, q>> \in better <=>
                \/ score[p] > score[q]
                \/ score[p] = score[q] /\ (name[p] < name[q] \/ (name[p] = name[q] /\ p < q))
    PROVE  Orders(better, M)
<1>1. ASSUME NEW p \in M PROVE <<p, p>> \notin better
  BY <1>1
<1>2. ASSUME NEW p \in M, NEW q \in M PROVE p = q \/ <<p, q>> \in better \/ <<q, p>> \in better
  <2>1. p \in Int /\ q \in Int /\ score[p] \in Int /\ score[q] \in Int /\ name[p] \in Int /\ name[q] \in Int
    OBVIOUS
  <2> QED BY <2>1
<1>3. ASSUME NEW p \in M, NEW q \in M, NEW r \in M, <<p, q>> \in better, <<q, r>> \in better
      PROVE  <<p, r>> \in better
  <2>1. p \in Int /\ q \in Int /\ score[p] \in Int /\ score[q] \in Int /\ name[p] \in Int /\ name[q] \in Int
        /\ r \in Int /\ score[r] \in Int /\ name[r] \in Int
    OBVIOUS
  <2> QED BY <1>3, <2>1
<1> QED BY <1>1, <1>2, <1>3 DEF Orders

LEMMA FirstIsBest ==
    ASSUME NEW M, IsFiniteSet(M), M # {}, NEW better, Orders(better, M)
    PROVE  LET h == Head(InOrder(M, better))
           IN  h \in M /\ \A p \in M : p = h \/ <<h, p>> \in better
<1> DEFINE s == InOrder(M, better)
<1>1. /\ s \in Seq(M) /\ Len(s) = Cardinality(M) /\ Cardinality(M) \in Nat
      /\ \A p \in M : \E i \in 1..Len(s) : s[i] = p
      /\ \A i, j \in 1..Len(s) : i < j => <<s[i], s[j]>> \in better
  BY InOrderCorrect
<1> HIDE DEF s
<1>2. Cardinality(M) # 0
  BY FS_EmptySet
<1>3. 1 \in 1..Len(s) /\ Head(s) = s[1] /\ s[1] \in M
  BY <1>1, <1>2
<1>4. ASSUME NEW p \in M PROVE p = s[1] \/ <<s[1], p>> \in better
  <2>1. PICK i \in 1..Len(s) : s[i] = p
    BY <1>1
  <2> QED BY <1>1, <1>3, <2>1
<1> QED BY <1>3, <1>4 DEF s

\* After an analysis, the photo that the review of a group recommends has the score of one
\* that the rules keep, for all scores, names and earlier groups (groups.py:64).
THEOREM RecommendedCorrect == Spec => RecommendedIsKept
<1>1. ASSUME CullingInv, Next, last'[1] = "analysis", NEW group \in ListedGroups',
             Members(group)' \cap last'[2] # {}, row'[Recommended(group)'].score > 0
      PROVE  \E p \in Members(group)' : /\ row'[p].score = row'[Recommended(group)'].score
                                        /\ row'[p].decision \in {"BEST", "KEEP"}
  <2>1. PICK pending \in SUBSET Photos : last'[2] = pending /\ \E done \in SUBSET pending : Analysis(pending, done)
    BY <1>1, LastTells
  <2> DEFINE groups == SimilarGroups(shot, GroupingPhotos(pending))
             M == {p \in Photos : row'[p].burst = [kind |-> "similar", of |-> group]}
  <2>2. M = Members(group)'
    BY DEF Members, Photos
  <2>3. /\ \A p \in Photos : ~Member(groups, p) => (p \in pending => row'[p].burst.kind # "similar")
        /\ \A g \in groups : \E best \in g :
             /\ g \subseteq Photos
             /\ {q \in Photos : row'[q].burst = [kind |-> "similar", of |-> g]} = g
             /\ row'[best].score > 0 => row'[best].decision \in {"BEST", "KEEP"}
             /\ \A q \in g :
                 /\ row'[q].score \in 0..100 /\ row'[q].score <= row'[best].score
                 /\ row'[q].decision = "REJECT_REDUNDANT" => row'[best].score - row'[q].score > 15
    BY <1>1, <2>1, AnalysisStep
  <2> HIDE DEF groups, M
  <2>4. PICK x \in pending : x \in M
    BY <1>1, <2>1, <2>2
  <2>5. x \in Photos /\ row'[x].burst = [kind |-> "similar", of |-> group]
    BY <2>4 DEF M
  <2>6. Member(groups, x)
    BY <2>3, <2>4, <2>5
  <2>7. PICK g \in groups : x \in g
    BY <2>6 DEF Member
  <2>8. PICK best \in g :
             /\ g \subseteq Photos
             /\ {q \in Photos : row'[q].burst = [kind |-> "similar", of |-> g]} = g
             /\ row'[best].score > 0 => row'[best].decision \in {"BEST", "KEEP"}
             /\ \A q \in g : row'[q].score \in 0..100 /\ row'[q].score <= row'[best].score
    BY <2>3, <2>7
  <2>9. g = group /\ M = g
    <3>1. row'[x].burst = [kind |-> "similar", of |-> g]
      BY <2>7, <2>8
    <3>2. row'[x].burst.of = g /\ row'[x].burst.of = group
      BY <2>5, <3>1
    <3> QED BY <2>8, <3>2 DEF M
  <2> DEFINE better == {e \in Photos \X Photos : Better(e[1], e[2])'}
             h == Head(InOrder(M, better))
             name == [p \in Photos |-> shot'[p].name]
             score == [p \in Photos |-> row'[p].score]
  <2>10. Recommended(group)' = h
    <3>1. {e \in Photos \X Photos : Better(e[1], e[2])}' = better
      BY DEF Photos
    <3> HIDE DEF better
    <3> QED BY <2>2, <3>1 DEF Recommended, Compared
  <2>11. IsFiniteSet(M) /\ M # {} /\ M \subseteq Photos /\ M \subseteq Int
    BY <2>4, PhotosFinite, FS_Subset DEF M
  <2>12. Orders(better, M)
    <3>1. \A p \in M : score[p] \in Int
      BY <2>8, <2>9, <2>11
    <3>2. TypeOK'
      BY <1>1, NextInv DEF CullingInv
    <3>3. \A p \in M : name[p] \in Int
      <4> SUFFICES ASSUME NEW p \in M PROVE shot'[p].name \in Int
        BY <2>11
      <4>1. shot'[p] \in Shot
        BY <2>11, <3>2 DEF TypeOK
      <4> QED BY <4>1 DEF Shot
    <3>4. \A p, q \in M : <<p, q>> \in better <=>
                \/ score[p] > score[q]
                \/ score[p] = score[q] /\ (name[p] < name[q] \/ (name[p] = name[q] /\ p < q))
      BY <2>11 DEF Better, NamedBefore
    <3> HIDE DEF better, score, name
    <3> QED BY <2>11, <3>1, <3>3, <3>4, BetterOrders
  <2>13. h \in M /\ \A p \in M : p = h \/ <<h, p>> \in better
    <3> HIDE DEF better
    <3> QED BY <2>11, <2>12, FirstIsBest
  <2>14. row'[best].score <= row'[h].score
    <3>1. best \in M /\ best \in Photos /\ h \in Photos
      BY <2>9, <2>11, <2>13
    <3>2. best = h \/ row'[h].score > row'[best].score \/ row'[h].score = row'[best].score
      BY <2>13, <3>1 DEF Better
    <3>3. row'[h].score \in 0..100 /\ row'[best].score \in 0..100
      BY <2>8, <2>9, <2>13
    <3> HIDE DEF h
    <3>4. \A a, b \in 0..100 : a > b \/ a = b \/ b = a => b <= a
      OBVIOUS
    <3>5. best = h => row'[best].score = row'[h].score
      OBVIOUS
    <3> QED BY <3>2, <3>3, <3>4, <3>5
  <2> HIDE DEF h
  <2>15. row'[best].score = row'[h].score
    <3>1. row'[h].score \in 0..100 /\ row'[best].score \in 0..100 /\ row'[h].score <= row'[best].score
      BY <2>8, <2>9, <2>13
    <3>2. \A a, b \in 0..100 : a <= b /\ b <= a => b = a
      OBVIOUS
    <3> QED BY <2>14, <3>1, <3>2
  <2> QED BY <1>1, <2>2, <2>8, <2>9, <2>10, <2>15
<1>2. CullingInv /\ [Next]_vars =>
        [last'[1] = "analysis" =>
         \A group \in ListedGroups' :
            Members(group)' \cap last'[2] # {} /\ row'[Recommended(group)'].score > 0 =>
                \E p \in Members(group)' : /\ row'[p].score = row'[Recommended(group)'].score
                                          /\ row'[p].decision \in {"BEST", "KEEP"}]_vars
  BY <1>1
<1> QED BY <1>2, InvariantHolds, PTL DEF Spec, RecommendedIsKept

-----------------------------------------------------------------------------
(* Pages.                                                                  *)

LEMMA MinOfTwo ==
    ASSUME NEW a \in Int, NEW b \in Int
    PROVE  Min({a, b}) = (IF a <= b THEN a ELSE b) /\ Max({a, b}) = (IF a <= b THEN b ELSE a)
<1>1. IsFiniteSet({a, b}) /\ {a, b} \subseteq Int
  <2>1. IsFiniteSet({a}) /\ {a, b} = {a} \cup {b}
    BY FS_Singleton
  <2> QED BY <2>1, FS_AddElement
<1>2. Min({a, b}) \in {a, b} /\ Max({a, b}) \in {a, b}
      /\ \A x \in {a, b} : Min({a, b}) <= x /\ x <= Max({a, b})
  BY <1>1, MaxMin
<1> QED BY <1>2

\* Slices of one length, each beginning where the one before ends, are the whole list.
LEMMA SlicesShowAll ==
    ASSUME NEW S, NEW list \in Seq(S), NEW limit \in Nat \ {0}, NEW count \in Nat,
           Len(list) <= count * limit,
           NEW pages, pages = [i \in 1..count |-> Slice(list, (i - 1) * limit, limit)]
    PROVE  Shown(pages) = list
<1> DEFINE upTo(n) == Min({n * limit, Len(list)})
           Turn(f) == f = [n \in 0..Len(pages) |-> IF n = 0 THEN <<>> ELSE f[n - 1] \o pages[n]]
           f == CHOOSE g : Turn(g)
           G == [n \in 0..count |-> SubSeq(list, 1, upTo(n))]
           L == Len(list)
<1>1. Len(pages) = count /\ L \in Nat
  OBVIOUS
<1>2. Shown(pages) = f[Len(pages)]
  BY DEF Shown
<1>3. \A n \in 0..count : n * limit \in Nat /\ upTo(n) = IF n * limit <= L THEN n * limit ELSE L
  <2> SUFFICES ASSUME NEW n \in 0..count
               PROVE  n * limit \in Nat /\ upTo(n) = IF n * limit <= L THEN n * limit ELSE L
    OBVIOUS
  <2>1. n * limit \in Nat
    OBVIOUS
  <2> DEFINE m == n * limit
  <2>2. m \in Int /\ L \in Int
    BY <1>1, <2>1
  <2>3. Min({m, L}) = IF m <= L THEN m ELSE L
    <3> HIDE DEF m, L
    <3> QED BY <2>2, MinOfTwo
  <2> QED BY <2>1, <2>3
<1>4. G[0] = <<>>
  <2>1. upTo(0) = 0
    <3>1. 0 \in 0..count /\ 0 * limit = 0 /\ 0 <= L
      BY <1>1
    <3> HIDE DEF upTo, L
    <3> QED BY <1>3, <3>1
  <2> HIDE DEF upTo
  <2>2. G[0] = SubSeq(list, 1, 0)
    BY <2>1
  <2>3. SubSeq(list, 1, 0) = <<>>
    OBVIOUS
  <2> HIDE DEF G
  <2> QED BY <2>2, <2>3
<1>5. ASSUME NEW n \in 1..count PROVE G[n] = G[n - 1] \o pages[n]
  <2> DEFINE a == (n - 1) * limit
  <2>1. a \in Nat /\ n * limit = a + limit /\ n - 1 \in 0..count /\ n \in 0..count
    OBVIOUS
  <2>2. /\ upTo(n - 1) = IF a <= L THEN a ELSE L
        /\ upTo(n) = IF a + limit <= L THEN a + limit ELSE L
    BY <1>3, <2>1
  <2>3. Min({a + limit, L}) = IF a + limit <= L THEN a + limit ELSE L
    <3>1. a + limit \in Int /\ L \in Int
      BY <1>1, <2>1
    <3> HIDE DEF a, L
    <3> QED BY <3>1, MinOfTwo
  <2>4. pages[n] = SubSeq(list, a + 1, upTo(n))
    BY <2>2, <2>3 DEF Slice
  <2>5. G[n] = SubSeq(list, 1, upTo(n)) /\ G[n - 1] = SubSeq(list, 1, upTo(n - 1))
    BY <2>1
  <2> DEFINE u == upTo(n)
             w == upTo(n - 1)
  <2>6. u \in 0..L /\ w \in 0..L /\ w <= u /\ (w = a \/ (w = L /\ u = L /\ a >= L))
    <3> HIDE DEF a, upTo
    <3> QED BY <1>1, <2>1, <2>2
  <2> HIDE DEF u, w, a, upTo, G
  <2>7. CASE w = a
    <3>1. SubSeq(list, 1, u) = SubSeq(list, 1, w) \o SubSeq(list, w + 1, u)
      BY <1>1, <2>6
    <3> QED BY <2>4, <2>5, <2>7, <3>1 DEF u, w
  <2>8. CASE w = L /\ u = L /\ a >= L
    <3>1. SubSeq(list, a + 1, u) = <<>>
      BY <1>1, <2>1, <2>8
    <3>2. SubSeq(list, 1, u) \o <<>> = SubSeq(list, 1, u)
      BY <1>1, <2>8
    <3> QED BY <2>4, <2>5, <2>8, <3>1, <3>2 DEF u, w
  <2> QED BY <2>6, <2>7, <2>8
<1>6. Turn(G)
  <2> HIDE DEF upTo
  <2>1. G = [n \in 0..count |-> IF n = 0 THEN <<>> ELSE G[n - 1] \o pages[n]]
    <3>1. G = [n \in 0..count |-> G[n]]
      OBVIOUS
    <3> HIDE DEF G
    <3>2. \A n \in 0..count : G[n] = IF n = 0 THEN <<>> ELSE G[n - 1] \o pages[n]
      <4> SUFFICES ASSUME NEW n \in 0..count
                   PROVE  G[n] = IF n = 0 THEN <<>> ELSE G[n - 1] \o pages[n]
        OBVIOUS
      <4>1. n = 0 \/ n \in 1..count
        OBVIOUS
      <4> QED BY <1>4, <1>5, <4>1
    <3> QED BY <3>1, <3>2
  <2> QED BY <1>1, <2>1
<1>7. Turn(f)
  <2> HIDE DEF Turn, G
  <2> QED BY <1>6, Zenon
<1>8. \A n \in 0..count : f[n] = G[n]
  <2> DEFINE Good == {n \in Nat : n \in 0..count => f[n] = G[n]}
  <2> HIDE DEF f, G, upTo
  <2>1. 0 \in Good
    BY <1>1, <1>4, <1>7
  <2>2. ASSUME NEW n \in Nat, n \in Good PROVE n + 1 \in Good
    <3> SUFFICES ASSUME n + 1 \in 0..count PROVE f[n + 1] = G[n + 1]
      OBVIOUS
    <3>1. f[n] = G[n] /\ n + 1 \in 1..count /\ n + 1 # 0 /\ (n + 1) - 1 = n
      BY <2>2
    <3>2. f[n + 1] = f[n] \o pages[n + 1]
      BY <1>1, <1>7, <3>1
    <3>3. G[n + 1] = G[n] \o pages[n + 1]
      BY <1>5, <3>1
    <3> QED BY <3>1, <3>2, <3>3
  <2> HIDE DEF Good
  <2>3. Nat \subseteq Good
    BY <2>1, <2>2, NatInduct
  <2> QED BY <2>3 DEF Good
<1>9. G[count] = list
  <2>1. upTo(count) = L
    BY <1>1, <1>3
  <2> HIDE DEF upTo
  <2>2. SubSeq(list, 1, L) = list
    OBVIOUS
  <2> QED BY <2>1, <2>2
<1> HIDE DEF f, G
<1> QED BY <1>1, <1>2, <1>8, <1>9

LEMMA PagesSuffice ==
    ASSUME NEW count \in Nat, NEW limit \in Nat \ {0}
    PROVE  TotalPages(count, limit) \in Nat \ {0} /\ count <= TotalPages(count, limit) * limit
<1> DEFINE a == count + limit - 1
           d == a \div limit
<1>1. count \in Nat /\ a \in Nat /\ limit \in Nat \ {0}
  OBVIOUS
<1>2. d \in Nat /\ count <= d * limit
  <2> DEFINE b == a % limit
  <2>1. a \in Int /\ limit \in Int /\ limit > 0
    BY <1>1
  <2>2. d \in Int /\ b \in 0..(limit - 1) /\ a = d * limit + b /\ d >= 0
    <3> HIDE DEF a
    <3>1. d \in Int /\ b \in 0..(limit - 1)
      BY <2>1
    <3>2. a = d * limit + b
      BY <2>1
    <3>3. d >= 0
      BY <1>1, <2>1
    <3> QED BY <3>1, <3>2, <3>3
  <2>3. d * limit \in Int
    BY <2>1, <2>2
  <2> DEFINE m == d * limit
  <2> HIDE DEF b, d, m
  <2>4. m \in Int /\ a = m + b
    BY <2>2, <2>3 DEF m
  <2>5. count <= m
    BY <1>1, <2>1, <2>2, <2>4
  <2> QED BY <2>2, <2>5 DEF m
<1>3. TotalPages(count, limit) = IF 1 <= d THEN d ELSE 1
  <2> HIDE DEF d
  <2>1. d \in Int /\ 1 \in Int
    BY <1>2
  <2>2. Max({1, d}) = IF 1 <= d THEN d ELSE 1
    BY <2>1, MinOfTwo
  <2> QED BY <2>2 DEF TotalPages, d
<1> HIDE DEF d, a
<1>4. CASE 1 <= d
  BY <1>2, <1>3, <1>4
<1>5. CASE ~(1 <= d)
  <2>1. d = 0
    BY <1>2, <1>5
  <2>2. count <= 0
    BY <1>2, <2>1
  <2> QED BY <1>1, <1>3, <1>5, <2>2
<1> QED BY <1>4, <1>5

\* The pages of a list show all of it, each entry once.
LEMMA PagesShowAll ==
    ASSUME NEW S, NEW list \in Seq(S)
    PROVE  PagesShowOnce(list)
<1> DEFINE count == TotalPages(Len(list), PageSize)
           slices == [i \in 1..count |-> Slice(list, (i - 1) * PageSize, PageSize)]
<1>1. count \in Nat \ {0} /\ Len(list) <= count * PageSize
  <2>1. Len(list) \in Nat /\ PageSize \in Nat \ {0}
    BY PageAssumption
  <2> QED BY <2>1, PagesSuffice
<1>2. Shown(slices) = list
  <2> HIDE DEF count
  <2> QED BY <1>1, PageAssumption, SlicesShowAll
<1>3. [page \in 1..count |-> Page(list, page)] = slices
  <2> SUFFICES ASSUME NEW page \in 1..count
               PROVE  Page(list, page) = Slice(list, (page - 1) * PageSize, PageSize)
    OBVIOUS
  <2>1. page \in Int /\ count \in Int /\ page <= count
    BY <1>1
  <2>2. Min({page, count}) = page
    <3> HIDE DEF count
    <3> QED BY <2>1, MinOfTwo
  <2> QED BY <2>2 DEF Page
<1> QED BY <1>2, <1>3 DEF PagesShowOnce

\* A query lists every photo that matches once, and in the order of the column.
LEMMA ListingShape ==
    ASSUME NEW P, P \subseteq Photos, NEW column \in [Photos -> Int], NEW s \in Listings(P, column)
    PROVE  /\ Cardinality(P) \in Nat /\ IsFiniteSet(P)
           /\ s \in Injection(1..Cardinality(P), P) /\ s \in Surjection(1..Cardinality(P), P)
           /\ \A i, j \in 1..Cardinality(P) : i < j => column[s[i]] <= column[s[j]]
<1>1. IsFiniteSet(P) /\ Cardinality(P) \in Nat
  BY PhotosFinite, FS_Subset, FS_CardinalityType
<1>2. /\ s \in [1..Cardinality(P) -> P]
      /\ \A i, j \in 1..Cardinality(P) : i # j => s[i] # s[j]
      /\ \A i, j \in DOMAIN s : i < j => column[s[i]] <= column[s[j]]
  BY DEF Listings, SetToSeqs
<1>3. s \in Injection(1..Cardinality(P), P)
  BY <1>2 DEF Injection, IsInjective
<1>4. Cardinality(1..Cardinality(P)) = Cardinality(P)
  <2>1. 1 \in Int /\ Cardinality(P) \in Int /\ Cardinality(P) >= 0
    BY <1>1
  <2>2. Cardinality(P) = 0 \/ 1 <= Cardinality(P)
    BY <1>1
  <2> DEFINE n == Cardinality(P)
  <2>3. Cardinality(1..n) = IF 1 > n THEN 0 ELSE n - 1 + 1
    <3> HIDE DEF n
    <3>1. n \in Int
      BY <2>1 DEF n
    <3> QED BY <3>1, FS_Interval
  <2> HIDE DEF n
  <2>4. n \in Nat
    BY <1>1 DEF n
  <2>5. Cardinality(1..n) = n
    BY <2>3, <2>4
  <2> QED BY <2>5 DEF n
<1>5. s \in Surjection(1..Cardinality(P), P)
  BY <1>1, <1>3, <1>4, FS_Injection
<1> QED BY <1>1, <1>2, <1>3, <1>5

\* Two queries may list different photos at a place, but not different values: the photos
\* with lesser ones would fill i places in the one list and fewer in the other.
LEMMA ListingBelow ==
    ASSUME NEW P, P \subseteq Photos, NEW column \in [Photos -> Int],
           NEW s \in Listings(P, column), NEW t \in Listings(P, column), NEW i \in 1..Cardinality(P)
    PROVE  column[s[i]] <= column[t[i]]
<1> DEFINE n == Cardinality(P)
           c == column[s[i]]
           Less == {q \in P : column[q] < c}
<1>1. /\ n \in Nat /\ IsFiniteSet(P) /\ s \in Injection(1..n, P) /\ s \in Surjection(1..n, P)
      /\ \A k, j \in 1..n : k < j => column[s[k]] <= column[s[j]]
  BY ListingShape
<1>2. /\ t \in Injection(1..n, P)
      /\ \A k, j \in 1..n : k < j => column[t[k]] <= column[t[j]]
  BY ListingShape
<1>3. /\ s \in [1..n -> P] /\ t \in [1..n -> P]
      /\ \A q \in P : \E k \in 1..n : s[k] = q
      /\ \A k, j \in 1..n : t[k] = t[j] => k = j
  BY <1>1, <1>2 DEF Injection, IsInjective, Surjection
<1>4. \A q \in P : column[q] \in Int
  OBVIOUS
<1> HIDE DEF n
<1> SUFFICES ASSUME column[t[i]] < c PROVE FALSE
  BY <1>3, <1>4 DEF n
<1>5. i \in 1..n /\ i \in Nat /\ i >= 1
  BY <1>1 DEF n
<1>6. IsFiniteSet(Less) /\ Cardinality(Less) \in Nat
  BY <1>1, FS_Subset, FS_CardinalityType
<1>7. \A k \in 1..i : t[k] \in Less
  <2> SUFFICES ASSUME NEW k \in 1..i PROVE t[k] \in Less
    OBVIOUS
  <2>1. k \in 1..n /\ (k = i \/ k < i)
    BY <1>1, <1>5
  <2>2. column[t[k]] <= column[t[i]]
    BY <1>2, <1>3, <1>4, <1>5, <2>1
  <2> QED BY <1>3, <1>4, <1>5, <2>1, <2>2
<1>8. i <= Cardinality(Less)
  <2> DEFINE f == [k \in 1..i |-> t[k]]
  <2>1. f \in Injection(1..i, Less)
    <3>1. f \in [1..i -> Less]
      BY <1>7
    <3>2. \A k \in 1..i : k \in 1..n
      BY <1>1, <1>5
    <3>3. \A k, j \in 1..i : f[k] = f[j] => k = j
      BY <1>3, <3>2
    <3> HIDE DEF f
    <3> QED BY <3>1, <3>3 DEF Injection, IsInjective
  <2>2. Cardinality(1..i) = i
    BY <1>5, FS_Interval
  <2> HIDE DEF f, Less
  <2> QED BY <1>6, <2>1, <2>2, FS_Injection
<1>9. Cardinality(Less) <= i - 1
  <2> DEFINE I == {k \in 1..(i - 1) : s[k] \in Less}
             f == [k \in I |-> s[k]]
  <2>1. IsFiniteSet(1..(i - 1)) /\ Cardinality(1..(i - 1)) = i - 1
    <3> DEFINE m == i - 1
    <3>1. 1 \in Int /\ m \in Int /\ m >= 0
      BY <1>5
    <3> HIDE DEF m
    <3>2. IsFiniteSet(1..m) /\ Cardinality(1..m) = IF 1 > m THEN 0 ELSE m - 1 + 1
      BY <3>1, FS_Interval
    <3>3. Cardinality(1..m) = m
      BY <3>1, <3>2
    <3> QED BY <3>2, <3>3 DEF m
  <2>2. IsFiniteSet(I) /\ Cardinality(I) <= i - 1
    BY <2>1, FS_Subset
  <2>3. \A q \in Less : \E k \in I : s[k] = q
    <3> SUFFICES ASSUME NEW q \in Less PROVE \E k \in I : s[k] = q
      OBVIOUS
    <3>1. PICK k \in 1..n : s[k] = q
      BY <1>3
    <3>2. column[s[k]] < column[s[i]] /\ column[s[k]] \in Int /\ column[s[i]] \in Int
      BY <1>3, <1>4, <1>5, <3>1
    <3>3. ~(i < k) /\ i # k
      BY <1>1, <1>5, <3>2
    <3>4. k \in 1..(i - 1)
      BY <1>1, <1>5, <3>3
    <3> QED BY <3>1, <3>4
  <2>4. f \in Surjection(I, Less)
    <3>1. f \in [I -> Less]
      OBVIOUS
    <3>2. \A q \in Less : \E k \in I : f[k] = q
      BY <2>3
    <3> HIDE DEF f, I, Less
    <3> QED BY <3>1, <3>2 DEF Surjection
  <2>5. Cardinality(Less) <= Cardinality(I)
    <3> HIDE DEF f, I, Less
    <3> QED BY <2>2, <2>4, FS_Surjection
  <2>6. Cardinality(I) \in Nat
    BY <2>2, FS_CardinalityType
  <2> HIDE DEF I, Less
  <2> QED BY <1>5, <1>6, <2>2, <2>5, <2>6
<1> HIDE DEF Less
<1> QED BY <1>5, <1>6, <1>8, <1>9

LEMMA SliceShape ==
    ASSUME NEW S, NEW list \in Seq(S), NEW offset \in Nat, NEW limit \in Nat,
           NEW m, m = Min({offset + limit, Len(list)}) - offset
    PROVE  /\ m \in Int /\ offset + m <= Len(list)
           /\ Slice(list, offset, limit) = [k \in 1..m |-> list[k + offset]]
<1> DEFINE stop == Min({offset + limit, Len(list)})
<1>1. stop \in Int /\ stop <= Len(list)
  <2>1. offset + limit \in Int /\ Len(list) \in Int
    OBVIOUS
  <2>2. stop = IF offset + limit <= Len(list) THEN offset + limit ELSE Len(list)
    <3> DEFINE a == offset + limit
               b == Len(list)
    <3> HIDE DEF a, b
    <3>1. a \in Int /\ b \in Int
      BY <2>1 DEF a, b
    <3>2. Min({a, b}) = IF a <= b THEN a ELSE b
      BY <3>1, MinOfTwo
    <3> QED BY <3>2 DEF a, b
  <2> HIDE DEF stop
  <2> QED BY <2>1, <2>2
<1>2. Slice(list, offset, limit) = SubSeq(list, offset + 1, stop)
  BY DEF Slice
<1> HIDE DEF stop
<1>3. SubSeq(list, offset + 1, stop) = [k \in 1..(stop - offset) |-> list[k + offset]]
  <2>1. SubSeq(list, offset + 1, stop) = [k \in 1..(1 + stop - (offset + 1)) |-> list[(offset + 1) + k - 1]]
    BY <1>1
  <2>2. 1 + stop - (offset + 1) = stop - offset
    BY <1>1
  <2>3. \A k \in 1..(stop - offset) : (offset + 1) + k - 1 = k + offset
    BY <1>1
  <2> QED BY <2>1, <2>2, <2>3
<1>4. m = stop - offset
  BY DEF stop
<1>5. m \in Int /\ offset + m <= Len(list)
  <2>1. Len(list) \in Int
    OBVIOUS
  <2> QED BY ONLY offset \in Nat, <1>1, <1>4, <2>1
<1>6. SubSeq(list, offset + 1, stop) = [k \in 1..m |-> list[k + offset]]
  BY ONLY <1>3, <1>4
<1> QED BY ONLY <1>2, <1>5, <1>6

\* Whatever each of the queries lists, they show every place of the photos that match.
LEMMA PlacesShown ==
    ASSUME NEW P, P \subseteq Photos, NEW column \in [Photos -> Int],
           NEW limit \in Nat \ {0}, NEW count \in Nat \ {0}, Cardinality(P) <= count * limit,
           NEW answers,
           answers = [i \in 1..count |-> {Slice(s, (i - 1) * limit, limit) : s \in Listings(P, column)}]
    PROVE  ShowEveryPlace(answers, P, column)
<1> DEFINE n == Cardinality(P)
           Values(list) == [i \in DOMAIN list |-> column[list[i]]]
           values == [i \in DOMAIN answers |-> {Values(list) : list \in answers[i]}]
           width(i) == Min({(i - 1) * limit + limit, n}) - (i - 1) * limit
<1>1. ASSUME NEW s \in Listings(P, column)
      PROVE  /\ s \in Seq(P) /\ Len(s) = n /\ n \in Nat /\ s \in [1..n -> P]
             /\ \A k, j \in 1..n : s[k] = s[j] => k = j
  <2>1. n \in Nat /\ s \in Injection(1..n, P)
    BY ListingShape
  <2> HIDE DEF n
  <2> QED BY <2>1 DEF Injection, IsInjective
<1>2. ASSUME NEW i \in 1..count
      PROVE  (i - 1) * limit \in Nat
  OBVIOUS
<1>3. ASSUME NEW i \in 1..count, NEW T, NEW s \in Seq(T), Len(s) = n
      PROVE  /\ width(i) \in Int /\ (i - 1) * limit + width(i) <= n
             /\ Slice(s, (i - 1) * limit, limit) = [k \in 1..width(i) |-> s[k + (i - 1) * limit]]
  <2> DEFINE a == (i - 1) * limit
             m == width(i)
  <2>1. a \in Nat /\ limit \in Nat /\ m = Min({a + limit, Len(s)}) - a
    BY <1>2, <1>3
  <2>2. s \in Seq(T)
    BY <1>3
  <2> HIDE DEF a, m, n
  <2>3. /\ m \in Int /\ a + m <= Len(s)
        /\ Slice(s, a, limit) = [k \in 1..m |-> s[k + a]]
    BY ONLY <2>1, <2>2, SliceShape
  <2> QED BY <1>3, <2>3 DEF a, m
<1> HIDE DEF width
<1>4. ASSUME NEW i \in 1..count, NEW k \in 1..width(i), n \in Nat,
             width(i) \in Int, (i - 1) * limit + width(i) <= n
      PROVE  k + (i - 1) * limit \in 1..n
  <2> DEFINE a == (i - 1) * limit
  <2>1. a \in Nat
    BY <1>2
  <2> HIDE DEF a, n
  <2> QED BY <1>4, <2>1 DEF a
<1>5. ASSUME NEW i \in 1..count, NEW list \in answers[i]
      PROVE  IsInjective(list)
  <2>1. PICK s \in Listings(P, column) : list = Slice(s, (i - 1) * limit, limit)
    <3>1. answers[i] = {Slice(s, (i - 1) * limit, limit) : s \in Listings(P, column)}
      OBVIOUS
    <3> QED BY <3>1
  <2>2. s \in Seq(P) /\ Len(s) = n /\ n \in Nat /\ \A k, j \in 1..n : s[k] = s[j] => k = j
    BY <1>1
  <2>3. width(i) \in Int /\ (i - 1) * limit + width(i) <= n
        /\ list = [k \in 1..width(i) |-> s[k + (i - 1) * limit]]
    BY <1>3, <2>1, <2>2
  <2>4. ASSUME NEW k \in 1..width(i), NEW j \in 1..width(i), list[k] = list[j] PROVE k = j
    <3>1. k + (i - 1) * limit \in 1..n /\ j + (i - 1) * limit \in 1..n
      BY <1>4, <2>2, <2>3
    <3>2. s[k + (i - 1) * limit] = s[j + (i - 1) * limit]
      BY <2>3, <2>4
    <3>3. k + (i - 1) * limit = j + (i - 1) * limit
      BY <2>2, <3>1, <3>2
    <3> DEFINE a == (i - 1) * limit
    <3>4. a \in Nat /\ k \in Int /\ j \in Int
      BY <1>2, <2>3
    <3> HIDE DEF a
    <3> QED BY <3>3, <3>4 DEF a
  <2> QED BY <2>3, <2>4 DEF IsInjective
<1>6. DOMAIN answers = 1..count
  OBVIOUS
<1>7. ASSUME NEW pages \in [DOMAIN answers -> UNION Range(values)],
             \A i \in DOMAIN pages : pages[i] \in values[i],
             NEW p \in P
      PROVE  Cardinality({i \in DOMAIN Shown(pages) : Shown(pages)[i] = column[p]})
               = Cardinality({q \in P : column[q] = column[p]})
  <2>1. DOMAIN pages = 1..count /\ \A i \in 1..count : pages[i] \in values[i]
    <3> HIDE DEF values
    <3> QED BY <1>6, <1>7
  <2>2. ASSUME NEW i \in 1..count
        PROVE  \E t \in Listings(P, column) : pages[i] = Values(Slice(t, (i - 1) * limit, limit))
    <3>1. pages[i] \in {Values(list) : list \in answers[i]}
      BY <1>6, <2>1
    <3>2. PICK list \in answers[i] : pages[i] = Values(list)
      <4> HIDE DEF Values
      <4> QED BY <3>1
    <3>3. answers[i] = {Slice(s, (i - 1) * limit, limit) : s \in Listings(P, column)}
      OBVIOUS
    <3>4. PICK t \in Listings(P, column) : list = Slice(t, (i - 1) * limit, limit)
      BY <3>3
    <3> HIDE DEF Values
    <3> QED BY <3>2, <3>4
  <2>3. PICK s \in Listings(P, column) : TRUE
    <3>1. 1 \in 1..count
      OBVIOUS
    <3> HIDE DEF Values
    <3> QED BY <2>2, <3>1
  <2>4. s \in Seq(P) /\ Len(s) = n /\ n \in Nat /\ s \in [1..n -> P]
        /\ \A k, j \in 1..n : s[k] = s[j] => k = j
    BY <1>1
  <2> DEFINE v == [i \in 1..n |-> column[s[i]]]
  <2>5. v \in Seq(Int) /\ Len(v) = n
    <3> HIDE DEF n
    <3>1. v \in [1..n -> Int]
      BY <2>4
    <3> HIDE DEF v
    <3> QED BY <2>4, <3>1
  <2>6. ASSUME NEW i \in 1..count
        PROVE  pages[i] = Slice(v, (i - 1) * limit, limit)
    <3>1. PICK t \in Listings(P, column) : pages[i] = Values(Slice(t, (i - 1) * limit, limit))
      <4> HIDE DEF Values
      <4> QED BY <2>2
    <3>2. t \in Seq(P) /\ Len(t) = n
      BY <1>1
    <3>3. /\ width(i) \in Int /\ (i - 1) * limit + width(i) <= n
          /\ Slice(t, (i - 1) * limit, limit) = [k \in 1..width(i) |-> t[k + (i - 1) * limit]]
      BY <1>3, <3>2
    <3>4. Slice(v, (i - 1) * limit, limit) = [k \in 1..width(i) |-> v[k + (i - 1) * limit]]
      <4> HIDE DEF v
      <4> QED BY <1>3, <2>5
    <3>5. pages[i] = [k \in 1..width(i) |-> column[t[k + (i - 1) * limit]]]
      BY <3>1, <3>3
    <3>6. ASSUME NEW k \in 1..width(i)
          PROVE  column[t[k + (i - 1) * limit]] = v[k + (i - 1) * limit]
      <4> DEFINE m == k + (i - 1) * limit
      <4>1. m \in 1..n
        BY <1>4, <2>4, <3>3
      <4> HIDE DEF m
      <4>2. column[s[m]] <= column[t[m]] /\ column[t[m]] <= column[s[m]]
        BY <4>1, ListingBelow
      <4>3. s[m] \in Photos /\ t[m] \in Photos
        BY <1>1, <4>1
      <4>4. column[s[m]] \in Int /\ column[t[m]] \in Int
        BY <4>3
      <4>5. column[s[m]] = column[t[m]]
        BY <4>2, <4>4
      <4> QED BY <4>1, <4>5 DEF m
    <3> HIDE DEF v
    <3> QED BY <3>4, <3>5, <3>6
  <2>7. Shown(pages) = v
    <3> HIDE DEF v, n, Values, values
    <3>1. pages = [i \in 1..count |-> Slice(v, (i - 1) * limit, limit)]
      <4>1. pages = [i \in 1..count |-> pages[i]]
        BY <2>1, <1>6
      <4> QED BY <2>6, <4>1
    <3>2. Len(v) <= count * limit /\ count \in Nat
      BY <2>5 DEF n
    <3> QED BY <2>5, <3>1, <3>2, SlicesShowAll
  <2> DEFINE places == {i \in 1..n : v[i] = column[p]}
             equals == {q \in P : column[q] = column[p]}
             f == [i \in places |-> s[i]]
  <2>8. DOMAIN v = 1..n
    OBVIOUS
  <2>9. f \in Bijection(places, equals)
    <3>1. \A q \in P : \E k \in 1..n : s[k] = q
      <4>1. s \in Surjection(1..n, P)
        BY ListingShape
      <4> HIDE DEF n
      <4> QED BY <4>1 DEF Surjection
    <3>2. \A i \in 1..n : v[i] = column[s[i]] /\ s[i] \in P
      BY <2>4
    <3> HIDE DEF v, n
    <3>3. f \in [places -> equals]
      BY <3>2
    <3>4. \A k, j \in places : f[k] = f[j] => k = j
      BY <2>4
    <3>5. \A q \in equals : \E k \in places : f[k] = q
      BY <3>1, <3>2
    <3> HIDE DEF f, places, equals
    <3>6. f \in Injection(places, equals)
      BY <3>3, <3>4 DEF Injection, IsInjective
    <3>7. f \in Surjection(places, equals)
      BY <3>3, <3>5 DEF Surjection
    <3> QED BY <3>6, <3>7 DEF Bijection
  <2>10. IsFiniteSet(places)
    <3>1. 1 \in Int /\ n \in Int
      BY <2>4
    <3>2. IsFiniteSet(1..n)
      <4> HIDE DEF n
      <4> QED BY <3>1, FS_Interval
    <3> HIDE DEF n, v
    <3> QED BY <3>2, FS_Subset
  <2>11. Cardinality(places) = Cardinality(equals)
    <3> HIDE DEF places, equals, f
    <3> QED BY <2>9, <2>10, FS_Bijection DEF ExistsBijection
  <2> HIDE DEF v, n
  <2> QED BY <2>7, <2>8, <2>11
<1> HIDE DEF n
<1>8. ASSUME NEW i \in DOMAIN answers, NEW list \in answers[i] PROVE IsInjective(list)
  BY <1>5, <1>6
<1> QED BY <1>7, <1>8 DEF ShowEveryPlace

LEMMA ColumnType ==
    ASSUME TypeOK, NEW sort
    PROVE  Column(sort) \in [Photos -> Int]
<1>1. \A p \in Photos : row[p].score \in Int /\ shot[p].name \in Int
  BY ShotType DEF TypeOK, Row
<1>2. 0 \in Int /\ \A p \in Photos : -row[p].score \in Int /\ -shot[p].name \in Int
  BY <1>1
<1> QED BY <1>1, <1>2 DEF Column

LEMMA SetToSeqShape ==
    ASSUME NEW S, IsFiniteSet(S)
    PROVE  SetToSeq(S) \in Seq(S)
<1>1. PICK n \in Nat : ExistsBijection(1..n, S)
  BY FS_NatBijection
<1>2. Cardinality(S) = n
  BY <1>1, FS_CountingElements
<1>3. PICK f \in [1..n -> S] : \A a, b \in 1..n : f[a] = f[b] => a = b
  BY <1>1 DEF ExistsBijection, Bijection, Injection, IsInjective
<1>4. IsInjective(f)
  BY <1>3 DEF IsInjective
<1>5. SetToSeq(S) \in [1..n -> S]
  BY <1>2, <1>4 DEF SetToSeq
<1> QED BY <1>5

LEMMA GroupListShape ==
    /\ GroupList \in Seq(ListedGroups)
    /\ TypeOK => \A group \in ListedGroups : Members(group) \subseteq Photos /\ Members(group) # {}
<1> DEFINE S == {q \in Photos : row[q].burst.kind = "similar"}
           f == [p \in S |-> row[p].burst.of]
<1>1. IsFiniteSet(S)
  BY PhotosFinite, FS_Subset
<1>2. f \in Surjection(S, ListedGroups)
  BY DEF Surjection, ListedGroups
<1>3. IsFiniteSet(ListedGroups)
  BY <1>1, <1>2, FS_Surjection
<1>4. GroupList \in Seq(ListedGroups)
  BY <1>3, SetToSeqShape DEF GroupList
<1>5. ASSUME TypeOK, NEW group \in ListedGroups
      PROVE  Members(group) \subseteq Photos /\ Members(group) # {}
  <2>1. PICK p \in Photos : row[p].burst.kind = "similar" /\ row[p].burst.of = group
    BY DEF ListedGroups
  <2>2. row[p].burst = [kind |-> "similar", of |-> group]
    <3>1. row[p].burst \in Group
      BY <1>5, RowUpdates DEF TypeOK
    <3> QED BY <2>1, <3>1 DEF Group
  <2> QED BY <2>2 DEF Members
<1> QED BY <1>4, <1>5

\* From the first photo of a scope to the last, and back the same way.
LEMMA WalkComplete ==
    ASSUME TypeOK, NEW scope, scope \subseteq Photos, scope # {}
    PROVE  /\ \A p, q \in scope : q \in NextPhoto(scope, p) <=> p \in PreviousPhoto(scope, q)
           /\ Cardinality({p \in scope : NextPhoto(scope, p) = {}}) = 1
           /\ Cardinality({p \in scope : PreviousPhoto(scope, p) = {}}) = 1
<1> DEFINE up == {e \in scope \X scope : Follows(e[2], e[1])}
           down == {e \in scope \X scope : Follows(e[1], e[2])}
<1>1. \A p, q \in scope : (<<p, q>> \in up <=> Follows(q, p)) /\ (<<p, q>> \in down <=> Follows(p, q))
  OBVIOUS
<1>2. \A p \in scope : p \in Int /\ shot[p].name \in Int
  BY PhotosFinite, ShotType DEF TypeOK
<1>3. IsFiniteSet(scope)
  BY PhotosFinite, FS_Subset
<1>4. \A p \in scope : ~Follows(p, p)
  BY <1>2 DEF Follows
<1>5. ASSUME NEW p \in scope, NEW q \in scope PROVE p = q \/ Follows(p, q) \/ Follows(q, p)
  <2>1. p \in Int /\ shot[p].name \in Int /\ q \in Int /\ shot[q].name \in Int
    BY <1>2
  <2> QED BY <2>1 DEF Follows
<1>6. ASSUME NEW p \in scope, NEW q \in scope, NEW r \in scope, Follows(p, q), Follows(q, r)
      PROVE  Follows(p, r)
  <2>1. p \in Int /\ shot[p].name \in Int /\ q \in Int /\ shot[q].name \in Int
        /\ r \in Int /\ shot[r].name \in Int
    BY <1>2
  <2> QED BY <1>6, <2>1 DEF Follows
<1> HIDE DEF up, down
<1>7. \A S \in SUBSET scope : Orders(up, S) /\ Orders(down, S)
  <2> SUFFICES ASSUME NEW S \in SUBSET scope PROVE Orders(up, S) /\ Orders(down, S)
    OBVIOUS
  <2>1. Orders(up, S)
    BY <1>1, <1>4, <1>5, <1>6 DEF Orders
  <2>2. Orders(down, S)
    BY <1>1, <1>4, <1>5, <1>6 DEF Orders
  <2> QED BY <2>1, <2>2
<1>8. \A S \in SUBSET scope : IsFiniteSet(S)
  BY <1>3, FS_Subset
\* A photo with others after it has a next one; with others before it, a previous one.
<1>9. ASSUME NEW p \in scope, Following(scope, p) # {} PROVE NextPhoto(scope, p) # {}
  <2>1. Following(scope, p) \in SUBSET scope
    BY DEF Following
  <2>2. PICK m : m \in LastIn(Following(scope, p), down)
    BY <1>7, <1>8, <1>9, <2>1, LastExists
  <2>3. m \in NextPhoto(scope, p)
    BY <1>1, <2>1, <2>2 DEF LastIn, NextPhoto
  <2> QED BY <2>3
<1>10. ASSUME NEW p \in scope, Preceding(scope, p) # {} PROVE PreviousPhoto(scope, p) # {}
  <2>1. Preceding(scope, p) \in SUBSET scope
    BY DEF Preceding
  <2>2. PICK m : m \in LastIn(Preceding(scope, p), up)
    BY <1>7, <1>8, <1>10, <2>1, LastExists
  <2>3. m \in PreviousPhoto(scope, p)
    BY <1>1, <2>1, <2>2 DEF LastIn, PreviousPhoto
  <2> QED BY <2>3
<1>11. ASSUME NEW p \in scope, NEW q \in scope
       PROVE  q \in NextPhoto(scope, p) <=> p \in PreviousPhoto(scope, q)
  <2>1. q \in NextPhoto(scope, p) <=>
            Follows(q, p) /\ \A r \in scope : Follows(r, p) /\ r # q => Follows(r, q)
    BY DEF NextPhoto, Following
  <2>2. p \in PreviousPhoto(scope, q) <=>
            Follows(q, p) /\ \A r \in scope : Follows(q, r) /\ r # p => Follows(p, r)
    BY DEF PreviousPhoto, Preceding
  <2>3. ASSUME q \in NextPhoto(scope, p), NEW r \in scope, Follows(q, r), r # p PROVE Follows(p, r)
    BY <1>4, <1>5, <1>6, <2>1, <2>3
  <2>4. ASSUME p \in PreviousPhoto(scope, q), NEW r \in scope, Follows(r, p), r # q PROVE Follows(r, q)
    BY <1>4, <1>5, <1>6, <2>2, <2>4
  <2> QED BY <2>1, <2>2, <2>3, <2>4
<1>12. Cardinality({p \in scope : NextPhoto(scope, p) = {}}) = 1
  <2>1. PICK m : m \in LastIn(scope, up)
    BY <1>3, <1>7, LastExists
  <2>2. m \in scope /\ \A p \in scope : p = m \/ Follows(m, p)
    BY <1>1, <2>1 DEF LastIn
  <2>3. ASSUME NEW p \in scope, p # m PROVE NextPhoto(scope, p) # {}
    <3>1. m \in Following(scope, p)
      BY <2>2, <2>3 DEF Following
    <3> QED BY <1>9, <3>1
  <2>4. Following(scope, m) = {}
    BY <1>4, <1>6, <2>2 DEF Following
  <2>5. NextPhoto(scope, m) = {}
    BY <2>4 DEF NextPhoto
  <2>6. {p \in scope : NextPhoto(scope, p) = {}} = {m}
    BY <2>2, <2>3, <2>5
  <2> QED BY <2>6, FS_Singleton
<1>13. Cardinality({p \in scope : PreviousPhoto(scope, p) = {}}) = 1
  <2>1. PICK m : m \in LastIn(scope, down)
    BY <1>3, <1>7, LastExists
  <2>2. m \in scope /\ \A p \in scope : p = m \/ Follows(p, m)
    BY <1>1, <2>1 DEF LastIn
  <2>3. ASSUME NEW p \in scope, p # m PROVE PreviousPhoto(scope, p) # {}
    <3>1. m \in Preceding(scope, p)
      BY <2>2, <2>3 DEF Preceding
    <3> QED BY <1>10, <3>1
  <2>4. Preceding(scope, m) = {}
    BY <1>4, <1>6, <2>2 DEF Preceding
  <2>5. PreviousPhoto(scope, m) = {}
    BY <2>4 DEF PreviousPhoto
  <2>6. {p \in scope : PreviousPhoto(scope, p) = {}} = {m}
    BY <2>2, <2>3, <2>5
  <2> QED BY <2>6, FS_Singleton
<1> QED BY <1>11, <1>12, <1>13

LEMMA ComparedShape ==
    ASSUME TypeOK, NEW group
    PROVE  Compared(group) \in Seq(Members(group))
<1> DEFINE better == {e \in Photos \X Photos : Better(e[1], e[2])}
           M == Members(group)
           name == [p \in Photos |-> shot[p].name]
           score == [p \in Photos |-> row[p].score]
<1>1. M \subseteq Photos /\ M \subseteq Int /\ IsFiniteSet(M)
  BY PhotosFinite, FS_Subset DEF Members
<1>2. \A p \in M : score[p] \in Int /\ name[p] \in Int
  <2>1. \A p \in Photos : row[p].score \in Int /\ shot[p].name \in Int
    BY ShotType DEF TypeOK, Row
  <2> QED BY <1>1, <2>1
<1>3. \A p, q \in M : <<p, q>> \in better <=>
            \/ score[p] > score[q]
            \/ score[p] = score[q] /\ (name[p] < name[q] \/ (name[p] = name[q] /\ p < q))
  BY <1>1 DEF Better, NamedBefore
<1> HIDE DEF better, M, name, score
<1>4. Orders(better, M)
  BY <1>1, <1>2, <1>3, BetterOrders
<1>5. InOrder(M, better) \in Seq(M)
  BY <1>1, <1>4, InOrderCorrect
<1> QED BY <1>5 DEF Compared, M, better

\* A query has an answer: the photos by the column, and by their identities.
LEMMA ListingExists ==
    ASSUME NEW P, P \subseteq Photos, NEW column \in [Photos -> Int]
    PROVE  Listings(P, column) # {}
<1> DEFINE before == {e \in P \X P : \/ column[e[1]] < column[e[2]]
                                     \/ column[e[1]] = column[e[2]] /\ e[1] < e[2]}
           s == InOrder(P, before)
<1>1. IsFiniteSet(P) /\ P \subseteq Int
  BY PhotosFinite, FS_Subset DEF Photos
<1>2. \A p, q \in P : <<p, q>> \in before <=>
            column[p] < column[q] \/ (column[p] = column[q] /\ p < q)
  OBVIOUS
<1> HIDE DEF before
<1>3. Orders(before, P)
  <2>1. \A p \in P : p \in Int /\ column[p] \in Int
    BY <1>1
  <2>2. ASSUME NEW p \in P PROVE <<p, p>> \notin before
    BY <1>2, <2>1
  <2>3. ASSUME NEW p \in P, NEW q \in P
        PROVE  p = q \/ <<p, q>> \in before \/ <<q, p>> \in before
    <3>1. p \in Int /\ q \in Int /\ column[p] \in Int /\ column[q] \in Int
      BY <2>1
    <3> QED BY <1>2, <3>1
  <2>4. ASSUME NEW p \in P, NEW q \in P, NEW r \in P, <<p, q>> \in before, <<q, r>> \in before
        PROVE  <<p, r>> \in before
    <3>1. /\ p \in Int /\ q \in Int /\ column[p] \in Int /\ column[q] \in Int
          /\ r \in Int /\ column[r] \in Int
      BY <2>1
    <3> QED BY <1>2, <2>4, <3>1
  <2> QED BY <2>2, <2>3, <2>4 DEF Orders
<1>4. /\ s \in Seq(P) /\ DOMAIN s = 1..Cardinality(P) /\ Len(s) = Cardinality(P)
      /\ \A i, j \in 1..Len(s) : i < j => <<s[i], s[j]>> \in before
      /\ \A i, j \in 1..Len(s) : s[i] = s[j] => i = j
  BY <1>1, <1>3, InOrderCorrect
<1> HIDE DEF s
<1>5. s \in [1..Cardinality(P) -> P]
  BY <1>4
<1>6. ASSUME NEW i \in DOMAIN s, NEW j \in DOMAIN s, i < j PROVE column[s[i]] <= column[s[j]]
  <2>1. s[i] \in P /\ s[j] \in P /\ <<s[i], s[j]>> \in before
    BY <1>4, <1>5, <1>6
  <2>2. column[s[i]] \in Int /\ column[s[j]] \in Int
    BY <2>1
  <2> QED BY <1>2, <2>1, <2>2
<1>7. s \in SetToSeqs(P)
  BY <1>4, <1>5 DEF SetToSeqs
<1> QED BY <1>6, <1>7 DEF Listings

\* No place is left out of a review, for every number of photos, every size of a page,
\* photos of whatever names and scores, and whatever order the database gives equal ones.
THEOREM ReviewComplete == Spec => []EveryPlaceIsShown
<1> SUFFICES CullingInv => EveryPlaceIsShown
  BY InvariantHolds, PTL
<1> SUFFICES ASSUME CullingInv PROVE EveryPlaceIsShown
  OBVIOUS
<1>0. TypeOK
  BY DEF CullingInv
<1>1. ASSUME NEW P, P \subseteq Photos, NEW sort, NEW limit \in Nat \ {0}
      PROVE  ShowEveryPlace([i \in 1..TotalPages(Cardinality(P), limit) |->
                                {Slice(s, (i - 1) * limit, limit) : s \in Listings(P, Column(sort))}],
                            P, Column(sort))
  <2> DEFINE count == TotalPages(Cardinality(P), limit)
             column == Column(sort)
  <2>1. Cardinality(P) \in Nat
    BY <1>1, PhotosFinite, FS_Subset, FS_CardinalityType
  <2>2. count \in Nat \ {0} /\ Cardinality(P) <= count * limit
    BY <2>1, PagesSuffice
  <2>3. column \in [Photos -> Int]
    BY <1>0, ColumnType
  <2> HIDE DEF count, column
  <2>4. ShowEveryPlace([i \in 1..count |-> {Slice(s, (i - 1) * limit, limit) : s \in Listings(P, column)}],
                       P, column)
    BY <1>1, <2>2, <2>3, PlacesShown
  <2> QED BY <2>4 DEF count, column
<1>2. ASSUME NEW matching \in {Matching(filter) : filter \in Filters}, NEW sort
      PROVE  LET listings == Listings(matching, Column(sort))
             IN  /\ listings # {}
                 /\ ShowEveryPlace([page \in 1..TotalPages(Cardinality(matching), PageSize) |->
                                       LibraryPages(listings, page)], matching, Column(sort))
  <2>1. matching \subseteq Photos
    BY DEF Matching
  <2>2. Listings(matching, Column(sort)) # {}
    BY <1>0, <2>1, ColumnType, ListingExists
  <2> QED BY <1>1, <2>1, <2>2, PageAssumption DEF LibraryPages
<1>3. LET listings == NativeListings
      IN  /\ listings # {}
          /\ \A limit \in {1, PageSize} :
                ShowEveryPlace([step \in 1..TotalPages(N, limit) |->
                                   NativeCatalog(listings, (step - 1) * limit, limit)],
                               Photos, Column("name_asc"))
  <2>1. Matching(NoFilter) = Photos
    BY DEF Matching, NoFilter, Nobody
  <2>2. Cardinality(Photos) = N
    <3>1. 1 \in Int /\ N \in Int /\ N >= 1
      OBVIOUS
    <3> QED BY <3>1, FS_Interval DEF Photos
  <2>3. NativeListings # {}
    BY <1>0, <2>1, ColumnType, ListingExists DEF NativeListings
  <2>4. ASSUME NEW limit \in {1, PageSize}
        PROVE  ShowEveryPlace([step \in 1..TotalPages(N, limit) |->
                                  NativeCatalog(NativeListings, (step - 1) * limit, limit)],
                              Photos, Column("name_asc"))
    <3>1. limit \in Nat \ {0}
      BY PageAssumption
    <3> QED BY <1>1, <2>1, <2>2, <3>1 DEF NativeListings, NativeCatalog
  <2> QED BY <2>3, <2>4
<1>4. PagesShowOnce(GroupList)
  BY GroupListShape, PagesShowAll
<1>5. ASSUME NEW group \in ListedGroups PROVE PagesShowOnce(Compared(group))
  BY <1>0, ComparedShape, PagesShowAll
<1>6. ASSUME NEW scope \in {Photos} \cup {Members(group) : group \in ListedGroups}
      PROVE  /\ \A p, q \in scope : q \in NextPhoto(scope, p) <=> p \in PreviousPhoto(scope, q)
             /\ Cardinality({p \in scope : NextPhoto(scope, p) = {}}) = 1
             /\ Cardinality({p \in scope : PreviousPhoto(scope, p) = {}}) = 1
  <2>1. Photos # {}
    <3>1. 1 \in Photos
      BY DEF Photos
    <3> QED BY <3>1
  <2>2. scope \subseteq Photos /\ scope # {}
    BY <1>0, <2>1, GroupListShape
  <2> QED BY <1>0, <2>2, WalkComplete
<1> QED BY <1>2, <1>3, <1>4, <1>5, <1>6 DEF EveryPlaceIsShown

=============================================================================
