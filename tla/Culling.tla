------------------------------- MODULE Culling -------------------------------
(***************************************************************************)
(* Sessions, bursts, similarity groups and decisions of the photos of a    *)
(* catalog: SessionManagementService, the grouping requests and commands,  *)
(* and what an analysis makes of its photos. Each request is one           *)
(* transaction here; how such requests overlap is the subject of Catalog.  *)
(*                                                                         *)
(* The identity of a group is the set of photos it was made of: a new      *)
(* identity is given to all of them at once, so nobody keeps an older one  *)
(* of the same members. The names of sessions are left out.                *)
(***************************************************************************)
EXTENDS Grouping

CONSTANTS
    N,            \* number of photos
    Shots,        \* what a photo may be, see Shot
    Gaps,         \* session gaps that are asked for
    BurstGaps,    \* burst gaps that are asked for
    Requested,      \* decisions that users ask for
    Unconfirmed,  \* how many photos a command decides without confirmation: 5
    MaxRequests   \* bound: requests

Photos == 1..N
Shot == [time : Nat \cup {Undated}, name : Nat \ {0}, hash : {h \in SUBSET Int : IsFiniteSet(h)},
         healthy : BOOLEAN, measured : [Components -> 0..100 \cup {Failed}]]

ASSUME ShotAssumption == \A s \in Shots : s \in Shot
ASSUME SizeAssumption ==
    N \in Nat \ {0} /\ MaxRequests \in Nat /\ Gaps \subseteq Nat /\ BurstGaps \subseteq Nat

VARIABLES
    shot,      \* what each photo is
    row,       \* the row of each photo
    sessions,  \* the rows of SessionDB
    requests,  \* how many requests were made
    last       \* history: the last one

vars == <<shot, row, sessions, requests, last>>

Nobody == {}
Kinds == {"none", "burst", "similar"}
Decisions == {"UNPROCESSED", "BEST", "KEEP", "ALTERNATE", "REVIEW", "RECOVER",
              "REJECT_TECHNICAL", "REJECT_REDUNDANT"}
Tiers == {"excellent", "good", "fair", "poor", "corrupted"}
Group == [kind : Kinds, of : SUBSET Photos]
NoGroup == [kind |-> "none", of |-> Nobody]
Row == [score : 0..100, tier : Tiers, decision : Decisions, session : SUBSET Photos,
        burst : Group]
ImportedRow == [score |-> 0, tier |-> "fair", decision |-> "UNPROCESSED",
                session |-> Nobody, burst |-> NoGroup]
SessionRow == [id : SUBSET Photos, start : Nat, end : Nat, count : Nat]

Init ==
    /\ shot \in [Photos -> Shots]
    /\ row = [p \in Photos |-> ImportedRow]
    /\ sessions = {} /\ requests = 0 /\ last = <<>>

Request(r) ==
    requests < MaxRequests /\ requests' = requests + 1 /\ last' = r /\ UNCHANGED shot

\* The group of a partition that p is in.
Member(groups, p) == \E g \in groups : p \in g
GroupOf(groups, p) == CHOOSE g \in groups : p \in g

-----------------------------------------------------------------------------
(* SessionManagementService.                                               *)

Found(gap) == Sessions(shot, Photos, gap)

\* The rows and assignments of a timeline; an undated photo would keep its session.
Assigned(found, p) == IF Member(found, p) THEN GroupOf(found, p) ELSE row[p].session
SessionRows(found) ==
    {[id |-> s, start |-> Min({shot[p].time : p \in s}), end |-> Max({shot[p].time : p \in s}),
      count |-> Cardinality(s)] : s \in found}

\* Mutant: bursts are looked for in the whole catalog.
BurstsAnywhere(found, burstGap) == Bursts(shot, Photos, burstGap)
BurstsWithin(found, burstGap) == UNION {Bursts(shot, s, burstGap) : s \in found}

\* A photo that is in no burst now is assigned what it was before.
InBurst(bursts, p) ==
    IF Member(bursts, p) THEN [kind |-> "burst", of |-> GroupOf(bursts, p)] ELSE row[p].burst

ApplyTimeline(gap) ==
    /\ Request(<<"timeline", gap>>)
    /\ sessions' = SessionRows(Found(gap))
    /\ row' = [p \in Photos |-> [row[p] EXCEPT !.session = Assigned(Found(gap), p)]]
ApplyBurst(burstGap) ==
    /\ Request(<<"burst", burstGap>>)
    /\ row' = [p \in Photos |-> [row[p] EXCEPT !.burst = InBurst(Bursts(shot, Photos, burstGap), p)]]
    /\ UNCHANGED sessions
ApplyHybrid(gap, burstGap) ==
    /\ Request(<<"hybrid", gap, burstGap>>)
    /\ sessions' = SessionRows(Found(gap))
    /\ row' = [p \in Photos |->
                 [row[p] EXCEPT !.session = Assigned(Found(gap), p),
                                !.burst = InBurst(BurstsWithin(Found(gap), burstGap), p)]]

\* Mutant: the photos keep the session that is deleted.
DeleteOnly(id, p) == [row[p] EXCEPT !.burst = IF row[p].session = id THEN NoGroup ELSE @]
Released(id, p) ==
    IF row[p].session = id THEN [row[p] EXCEPT !.session = Nobody, !.burst = NoGroup] ELSE row[p]
Delete(s) ==
    /\ Request(<<"delete">>)
    /\ s \in sessions
    /\ sessions' = sessions \ {s}
    /\ row' = [p \in Photos |-> Released(s.id, p)]

-----------------------------------------------------------------------------
(* Commands, similarity, analysis, import.                                 *)

\* The group command assigns sessions of which it adds no rows.
GroupCommand(gap) ==
    /\ Request(<<"command">>)
    /\ row' = [p \in Photos |-> [row[p] EXCEPT !.session = Assigned(Found(gap), p)]]
    /\ UNCHANGED sessions
BurstsCommand(burstGap) ==
    /\ Request(<<"command">>)
    /\ row' = [p \in Photos |-> [row[p] EXCEPT !.burst = InBurst(Bursts(shot, Photos, burstGap), p)]]
    /\ UNCHANGED sessions

\* PhotoSelector: the photos of a session, or of any; those with a decision or without.
Selected(session, status) ==
    {p \in Photos : /\ session \in {Nobody, row[p].session}
                    /\ status = "pending" => row[p].decision = "UNPROCESSED"
                    /\ status = "processed" => row[p].decision # "UNPROCESSED"}
Selections == {Selected(session, status) : session \in {row[p].session : p \in Photos} \cup {Nobody},
                                           status \in {"any", "pending", "processed"}}

\* What a user asks for; anything else is a review.
StateMap(choice) ==
    CASE choice = "best" -> "BEST"
      [] choice = "keep" -> "KEEP"
      [] choice = "alternate" -> "ALTERNATE"
      [] choice = "reject" -> "REJECT_TECHNICAL"
      [] choice = "recover" -> "RECOVER"
      [] OTHER -> "REVIEW"
SetDecision(p, choice) ==
    /\ Request(<<"decision">>)
    /\ row' = [row EXCEPT ![p].decision = StateMap(choice)]
    /\ UNCHANGED sessions
DecisionsCommand(chosen, decision, confirm) ==
    /\ Request(<<"decision">>)
    /\ confirm \/ Cardinality(chosen) <= Unconfirmed
    /\ row' = [p \in Photos |-> IF p \in chosen THEN [row[p] EXCEPT !.decision = decision] ELSE row[p]]
    /\ UNCHANGED sessions

\* The group of a photo after the grouping of some photos that include it.
InSimilar(groups, p) ==
    CASE Member(groups, p) -> [kind |-> "similar", of |-> GroupOf(groups, p)]
      [] ~Member(groups, p) /\ row[p].burst.kind = "similar" -> NoGroup
      [] OTHER -> row[p].burst

GroupSimilarPhotos ==
    /\ Request(<<"similar">>)
    /\ LET groups == SimilarGroups(shot, Photos)
       IN  row' = [p \in Photos |-> [row[p] EXCEPT !.burst = InSimilar(groups, p)]]
    /\ UNCHANGED sessions

\* What a photo is measured to be, if it could be measured.
Measured(p) == [row[p] EXCEPT !.score = Score(shot[p]), !.tier = Tier(shot[p])]
Judged(r, decision) == [r EXCEPT !.decision = IF r.tier = "corrupted" THEN "REJECT_TECHNICAL" ELSE decision]

\* A job that measures the photos in done and is cancelled: each has its provisional
\* decision.
CancelledAnalysis(done) ==
    /\ Request(<<"cancelled">>)
    /\ row' = [p \in Photos |->
                 IF p \in done THEN Judged(Measured(p), Standalone(Measured(p).score)) ELSE row[p]]
    /\ UNCHANGED sessions

\* The analyze command judges each chosen photo by itself, measured now or not.
AnalyzeCommand(chosen, done) ==
    /\ Request(<<"command">>)
    /\ LET measured == [p \in Photos |-> IF p \in done THEN Measured(p) ELSE row[p]]
       IN  row' = [p \in Photos |-> IF p \in chosen
                                    THEN Judged(measured[p], Standalone(measured[p].score))
                                    ELSE row[p]]
    /\ UNCHANGED sessions

\* A job that completes. Grouped are its photos and, if it is one of remaining photos, all
\* that share a group with them.
GroupingPhotos(pending) ==
    pending \cup {q \in Photos : row[q].burst # NoGroup /\ \E p \in pending : row[q].burst = row[p].burst}
Analysis(pending, done) ==
    /\ Request(<<"analysis", pending>>)
    /\ LET grouping == GroupingPhotos(pending)
           measured == [p \in Photos |-> IF p \in done THEN Measured(p) ELSE row[p]]
           score == [p \in Photos |-> measured[p].score]
           corrupted == {p \in Photos : measured[p].tier = "corrupted"}
           groups == SimilarGroups(shot, grouping)
       IN  row' = [p \in Photos |->
                     IF p \in grouping
                     THEN [measured[p] EXCEPT !.burst = InSimilar(groups, p),
                                              !.decision = Decision(score, corrupted, groups, p)]
                     ELSE row[p]]
    /\ UNCHANGED sessions

\* An import of a photo that is in the catalog saves a new object over its row.
Rescan(p) ==
    /\ Request(<<"rescan">>)
    /\ row' = [row EXCEPT ![p] = ImportedRow]
    /\ UNCHANGED sessions

WebRequest ==
    \/ \E gap \in Gaps : ApplyTimeline(gap) \/ \E burstGap \in BurstGaps : ApplyHybrid(gap, burstGap)
    \/ \E burstGap \in BurstGaps : ApplyBurst(burstGap)
    \/ \E s \in sessions : Delete(s)
    \/ GroupSimilarPhotos
    \/ \E p \in Photos : Rescan(p) \/ \E choice \in Requested : SetDecision(p, choice)
    \/ \E done \in SUBSET Photos :
          CancelledAnalysis(done) \/ \E pending \in SUBSET Photos : done \subseteq pending /\ Analysis(pending, done)

Command ==
    \/ \E gap \in Gaps : GroupCommand(gap)
    \/ \E burstGap \in BurstGaps : BurstsCommand(burstGap)
    \/ \E chosen \in Selections \ {{}} :
        \/ \E done \in SUBSET chosen : AnalyzeCommand(chosen, done)
        \/ \E choice \in Requested, confirm \in BOOLEAN :
              DecisionsCommand(chosen, StateMap(choice), confirm)

Next == WebRequest \/ Command

Spec == Init /\ [][Next]_vars
-----------------------------------------------------------------------------
(* Properties.                                                             *)

TypeOK ==
    /\ shot \in [Photos -> Shots]
    /\ row \in [Photos -> Row]
    /\ \A s \in sessions : s \in SessionRow
    /\ requests \in 0..MaxRequests

\* p and q are linked by a chain of members of S that are related to each other.
Linked(S, related, p, q) ==
    \A A \in SUBSET S : p \in A /\ q \notin A => \E a \in A, b \in S \ A : <<a, b>> \in related

DatedPhotos == {p \in Photos : Dated(shot[p])}
Near(p, q, gap) == shot[p].time - shot[q].time \in -gap..gap
NearPairs(gap) == {e \in Photos \X Photos : Near(e[1], e[2], gap)}

\* After a grouping by time, the row of a session tells who is in it, the chain of p, and
\* when.
InItsSession(p, gap) ==
    \E s \in sessions' :
        /\ row'[p].session = s.id
        /\ {q \in Photos : row'[q].session = s.id}
                = {q \in DatedPhotos : Linked(DatedPhotos, NearPairs(gap), p, q)}
        /\ s.count = Cardinality({q \in Photos : row'[q].session = s.id})
        /\ shot[p].time \in s.start..s.end

\* The sessions of a timeline are exactly the chains of photos whose capture times are at
\* most the gap apart, and their rows tell who is in them and when; an undated photo is in
\* none.
TimelineFollowsGaps ==
    [][\A gap \in Gaps : last'[1] \in {"timeline", "hybrid"} /\ last'[2] = gap =>
            \A p \in Photos :
                /\ Dated(shot[p]) => InItsSession(p, gap)
                /\ ~Dated(shot[p]) => row'[p].session = Nobody]_vars

\* A hybrid grouping gives one burst to the photos of a session that chain within the burst
\* gap, and to nobody else; a photo without such a neighbour keeps the group it had.
BurstsStayInSessions ==
    [][\A gap \in Gaps, burstGap \in BurstGaps : last' = <<"hybrid", gap, burstGap>> =>
        \A p \in Photos :
            LET mine == {q \in DatedPhotos :
                            /\ row'[q].session = row'[p].session
                            /\ Linked({r \in DatedPhotos : row'[r].session = row'[p].session},
                                      NearPairs(burstGap), p, q)}
            IN  IF p \in mine /\ Cardinality(mine) >= 2
                THEN row'[p].burst = [kind |-> "burst", of |-> mine]
                ELSE row'[p].burst = row[p].burst]_vars

\* Sessions are replaced as a whole and deleted with their assignments: what the web
\* application does never leaves a photo in a session that has no row.
SessionsHaveRows ==
    [][last'[1] # "command" /\ (\A p \in Photos : row[p].session # Nobody =>
                        \E s \in sessions : s.id = row[p].session) =>
        \A p \in Photos : row'[p].session # Nobody => \E s \in sessions' : s.id = row'[p].session]_vars

\* Two photos that must not be told apart: their hashes have one length and differ in at
\* most MaxDistance bits, and they are near in time or, undated, in name. (Where only one
\* of two photos of the same hash is dated, they are not compared.)
Alike(p, q) ==
    LET s == shot[p]  t == shot[q]
    IN  /\ s.hash # NoHash /\ t.hash # NoHash
        /\ Digits(s.hash) = Digits(t.hash)
        /\ Distance(s.hash, t.hash) <= MaxDistance
        /\ IF Dated(s) /\ Dated(t) THEN Near(p, q, MaxGap) ELSE s.name = t.name
        /\ s.hash = t.hash => (Dated(s) <=> Dated(t))
AlikePairs == {e \in Photos \X Photos : Alike(e[1], e[2])}

\* The index of chunks and the table of exact hashes lose no similar pair and add none: the
\* groups are exactly the chains of photos that are alike.
SimilarPhotosFound ==
    [][last'[1] = "similar" =>
        \A p \in Photos :
            LET mine == {q \in Photos : Linked(Photos, AlikePairs, p, q)}
            IN  IF Cardinality(mine) >= 2
                THEN row'[p].burst = [kind |-> "similar", of |-> mine]
                ELSE row'[p].burst.kind # "similar"]_vars

\* A photo is rejected as redundant only in favour of one of its group that is clearly
\* better and is kept.
RedundantHasBetter ==
    [][last'[1] = "analysis" =>
        \A p \in Photos : row'[p].decision = "REJECT_REDUNDANT" /\ row[p].decision # "REJECT_REDUNDANT" =>
            \E q \in Photos :
                /\ row'[q].burst = row'[p].burst
                /\ row'[q].score > row'[p].score + 15
                /\ row'[q].decision \in {"BEST", "KEEP"}]_vars
=============================================================================
