---------------------------- MODULE CatalogProofs ----------------------------
(***************************************************************************)
(* Theorems about Catalog, for every set of photos and of settings, and    *)
(* every number of events.                                                 *)
(***************************************************************************)
EXTENDS Catalog, TLAPS

USE SettingsAssumption, BoundAssumption

-----------------------------------------------------------------------------
(* Types.                                                                  *)

WorkOK == \A p \in Photos : work[p].pc # "out" => job.on /\ p \in job.photos

LEMMA RecordsType ==
    /\ NoJob \in Job /\ NoWork \in Work /\ NoGroup \in Group
    /\ Unscored \in Score /\ NoSummary \in Summary
    /\ NoWork.pc = "out" /\ ~NoJob.on /\ ~NoGroup.on /\ Unscored.settings = None
<1>1. 0 \in Times
  BY DEF Times
<1>2. Unscored \in Score /\ NoSummary \in Summary /\ Unscored.settings = None
  BY <1>1 DEF Unscored, Score, NoSummary, Summary
<1>3. NoWork.object \in Row
  BY <1>1, <1>2 DEF NoWork, Row
<1>4. NoWork \in Work /\ NoWork.pc = "out"
  <2>1. NoWork.object \in Row /\ 0 \in Times
    BY <1>1, <1>3
  <2>2. QED
    BY <1>1, <1>2 DEF NoWork, Work, Row
<1>5. NoJob \in Job /\ ~NoJob.on
  BY DEF NoJob, Job
<1>6. NoGroup \in Group /\ ~NoGroup.on
  <2>1. [p \in Photos |-> NoWork.object] \in [Photos -> Row]
    BY <1>3
  <2>2. QED
    BY <2>1 DEF NoGroup, Group
<1>7. QED
  BY <1>2, <1>4, <1>5, <1>6

LEMMA RowsType ==
    ASSUME TypeOK
    PROVE  /\ \A p \in Photos : ImportedRow(p) \in Row
           /\ \A r, object \in Row : Saved(r, object) \in Row
           /\ \A p \in Photos : CollectedSummary(p) \in Summary
           /\ \A S \in SUBSET Photos : TouchJob(S) \in Job /\ TouchGroup(S) \in Group
           /\ now \in Times /\ \A p \in Photos : disk[p] \in Times
<1>1. now \in Times /\ \A p \in Photos : disk[p] \in Times
  BY DEF TypeOK, Times
<1>2. \A p \in Photos : ImportedRow(p) \in Row
  BY <1>1, RecordsType DEF ImportedRow, Row
<1>3. \A r, object \in Row : Saved(r, object) \in Row
  BY DEF Saved, Row
<1>4. \A p \in Photos : CollectedSummary(p) \in Summary
  BY <1>1 DEF CollectedSummary, Summary, TypeOK, Job
<1>5. \A S \in SUBSET Photos : TouchJob(S) \in Job
  BY DEF TouchJob, Job, TypeOK
<1>6. \A S \in SUBSET Photos : TouchGroup(S) \in Group
  BY DEF TouchGroup, Group, TypeOK
<1>7. QED
  BY <1>1, <1>2, <1>3, <1>4, <1>5, <1>6

SameGroup == /\ group'.on = group.on /\ group'.object = group.object
             /\ group'.photos = group.photos /\ group'.scored = group.scored

\* Nothing else of a job or a request changes when others write.
LEMMA TouchKeeps ==
    ASSUME TypeOK, NEW S \in SUBSET Photos
    PROVE  /\ TouchJob(S).on = job.on /\ TouchJob(S).photos = job.photos
           /\ TouchJob(S).also = job.also /\ TouchJob(S).settings = job.settings
           /\ TouchJob(S).stale = IF job.on THEN job.stale \cup S ELSE job.stale
           /\ TouchGroup(S).on = group.on /\ TouchGroup(S).object = group.object
           /\ TouchGroup(S).photos = group.photos /\ TouchGroup(S).scored = group.scored
BY DEF TouchJob, TouchGroup, Job, Group, TypeOK

LEMMA TypeInit == Init => TypeOK
<1> SUFFICES ASSUME Init
             PROVE  TypeOK
  OBVIOUS
<1>1. now \in 1..MaxTime /\ events \in 0..MaxEvents /\ disk \in [Photos -> 1..MaxTime]
  BY DEF Init
<1>2. row \in [Photos -> Row]
  <2>1. \A p \in Photos : ImportedRow(p) \in Row
    BY <1>1, RecordsType DEF ImportedRow, Row, Times
  <2>2. QED
    BY <2>1 DEF Init
<1>3. cache \subseteq Entry
  BY DEF Init, Entry, Times
<1>4. last \in [Photos -> [score : Score, overtaken : BOOLEAN, replaced : BOOLEAN]]
  BY RecordsType DEF Init
<1>5. QED
  BY <1>1, <1>2, <1>3, <1>4, RecordsType DEF Init, TypeOK

LEMMA EventType ==
    ASSUME TypeOK, Event
    PROVE  events' \in 0..MaxEvents
BY DEF TypeOK, Event

LEMMA LookupType == \A p \in Photos, key \in Times : Lookup(p, key) \subseteq cache
BY DEF Lookup

\* What a measurement yields: a found result, or that of reading the file.
Found(p) == Lookup(p, work[p].key)
Yields(p, c) == IF Found(p) = {} THEN c = disk[p] ELSE \E e \in Found(p) : c = e.content
Measured(p, c, next) ==
    /\ Yields(p, c)
    /\ \/ cache' = cache \cup {[photo |-> p, key |-> work[p].key, content |-> c]}
       \/ cache' = cache
    /\ work' = [work EXCEPT ![p] = next]
    /\ next.pc = "measured" /\ next.overtaken = work[p].overtaken
    /\ next.object.mtime = work[p].object.mtime
    /\ next.object.score = [content |-> c, settings |-> job.settings]

LEMMA MeasureStep ==
    ASSUME TypeOK, NEW p \in Photos, Measure(p)
    PROVE  /\ work[p].pc = "looked" /\ work[p].key \in Times
           /\ UNCHANGED <<events, now, disk, row, profile, saved, job, group, last>>
           /\ \E c \in Times, next \in Work : Measured(p, c, next)
<1> DEFINE contents == IF Found(p) = {} THEN {disk[p]} ELSE {e.content : e \in Found(p)}
<1>1. /\ work[p].key \in Times /\ work[p].pc = "looked" /\ work[p].object \in Row
      /\ work[p].overtaken \in BOOLEAN
  BY DEF Measure, TypeOK, Work
<1>2. contents \subseteq Times
  BY <1>1, RowsType, LookupType DEF TypeOK, Entry, Found
<1>3. PICK c \in contents :
        /\ \/ cache' = cache \cup {[photo |-> p, key |-> work[p].key, content |-> c]}
           \/ cache' = cache
        /\ work' = [work EXCEPT ![p].pc = "measured", ![p].key = 0,
                                ![p].object.score = [content |-> c, settings |-> job.settings]]
  BY DEF Measure, Found
<1>4. Yields(p, c)
  BY DEF Yields
<1> HIDE DEF contents
<1> DEFINE score == [content |-> c, settings |-> job.settings]
           object == [work[p].object EXCEPT !.score = score]
           next == [pc |-> "measured", key |-> 0, object |-> object, overtaken |-> work[p].overtaken]
<1>5. score \in Score
  BY <1>2 DEF Score, TypeOK, Job
<1>6. object \in Row /\ object.mtime = work[p].object.mtime /\ object.score = score
  BY <1>1, <1>5 DEF Row
<1>7. work' = [work EXCEPT ![p] = next]
  <2>1. work[p] = [pc |-> work[p].pc, key |-> work[p].key, object |-> work[p].object,
                   overtaken |-> work[p].overtaken]
    BY DEF TypeOK, Work
  <2> DEFINE w1 == [work[p] EXCEPT !.pc = "measured"]
             w2 == [w1 EXCEPT !.key = 0]
             w3 == [w2 EXCEPT !.object.score = score]
  <2>2. w1 = [pc |-> "measured", key |-> work[p].key, object |-> work[p].object,
              overtaken |-> work[p].overtaken]
    BY <2>1
  <2>3. w2 = [pc |-> "measured", key |-> 0, object |-> work[p].object,
              overtaken |-> work[p].overtaken]
    <3> HIDE DEF w1
    <3>1. QED
      BY <2>2
  <2>4. w3 = next
    <3> HIDE DEF w2
    <3>1. QED
      BY <2>3
  <2>5. work' = [work EXCEPT ![p] = w3]
    BY <1>3 DEF TypeOK
  <2>6. QED
    BY <2>4, <2>5
<1> HIDE DEF object
<1>8. next \in Work
  BY <1>1, <1>6, RecordsType DEF Work, Times
<1>9. Measured(p, c, next)
  BY <1>3, <1>4, <1>6, <1>7 DEF Measured
<1>10. QED
  BY <1>1, <1>2, <1>8, <1>9 DEF Measure

\* What a grouping request or a command has read.
Begun(object, photos, scored) ==
    /\ ~group.on /\ group' \in Group /\ group'.on /\ group'.photos = photos /\ group'.scored = scored
    /\ \A p \in photos : group'.object[p] = object[p]
    /\ UNCHANGED <<now, disk, row, cache, profile, saved, job, work, last>>

LEMMA ReadType ==
    ASSUME TypeOK, NEW object \in [Photos -> Row], NEW photos \in SUBSET Photos,
           NEW judged \in SUBSET photos, NEW scored \in SUBSET photos,
           Read(object, photos, judged, scored)
    PROVE  Begun(object, photos, scored) /\ Event
<1> DEFINE objects == [p \in Photos |-> IF p \in photos THEN object[p] ELSE NoWork.object]
<1>1. objects \in [Photos -> Row]
  BY RecordsType DEF Work
<1>2. \A p \in photos : objects[p] = object[p]
  OBVIOUS
<1>3. group' = [on |-> TRUE, photos |-> photos, judged |-> judged, scored |-> scored,
                stale |-> {}, object |-> objects]
  BY DEF Read
<1> HIDE DEF objects
<1>4. QED
  BY <1>1, <1>2, <1>3 DEF Read, Begun, Group

\* A request or a command has the rows it has read, but for their decisions and scores.
LEMMA ReadStep ==
    ASSUME TypeOK,
           \/ ReadAll
           \/ \E photos \in SUBSET Photos : \E judged, scored \in Parts(photos) :
                 AnalyzeCommand(photos, judged, scored) \/ DecisionsCommand(photos, judged)
    PROVE  /\ \E object \in [Photos -> Row], photos, scored \in SUBSET Photos :
                 /\ Begun(object, photos, scored) /\ scored \subseteq photos
                 /\ \A p \in Photos : object[p].mtime = row[p].mtime
                 /\ \A p \in scored : object[p].score.settings = None
           /\ Event
<1> DEFINE goal == /\ \E object \in [Photos -> Row], photos, scored \in SUBSET Photos :
                         /\ Begun(object, photos, scored) /\ scored \subseteq photos
                         /\ \A p \in Photos : object[p].mtime = row[p].mtime
                         /\ \A p \in scored : object[p].score.settings = None
                   /\ Event
<1>1. row \in [Photos -> Row]
  BY DEF TypeOK
<1>2. ASSUME ReadAll
      PROVE  goal
  BY <1>1, <1>2, ReadType DEF ReadAll
<1>3. ASSUME NEW photos \in SUBSET Photos, NEW judged \in SUBSET photos,
             NEW scored \in SUBSET photos, AnalyzeCommand(photos, judged, scored)
      PROVE  goal
  <2> DEFINE object == [p \in Photos |->
                          [row[p] EXCEPT !.decision = IF p \in judged THEN "rules" ELSE @,
                                         !.score = IF p \in scored THEN CommandScore ELSE @]]
  <2>1. CommandScore \in Score /\ CommandScore.settings = None
    BY DEF CommandScore, Score, Times
  <2>2. \A p \in Photos : /\ object[p] \in Row /\ object[p].mtime = row[p].mtime
                          /\ p \in scored => object[p].score = CommandScore
    BY <1>1, <2>1 DEF Row
  <2>3. Read(object, photos, judged, scored)
    BY <1>3 DEF AnalyzeCommand
  <2>4. object \in [Photos -> Row]
    BY <2>2
  <2> HIDE DEF object
  <2>5. QED
    BY <2>1, <2>2, <2>3, <2>4, ReadType
<1>4. ASSUME NEW photos \in SUBSET Photos, NEW judged \in SUBSET photos,
             DecisionsCommand(photos, judged)
      PROVE  goal
  <2> DEFINE object == [p \in Photos |-> [row[p] EXCEPT !.decision = IF p \in judged THEN "user" ELSE @]]
  <2>1. \A p \in Photos : object[p] \in Row /\ object[p].mtime = row[p].mtime
    BY <1>1 DEF Row
  <2>2. Read(object, photos, judged, {}) /\ {} \in SUBSET photos
    BY <1>4 DEF DecisionsCommand
  <2>3. object \in [Photos -> Row]
    BY <2>1
  <2> HIDE DEF object
  <2>4. QED
    BY <2>1, <2>2, <2>3, ReadType
<1>5. \A photos : Parts(photos) \subseteq SUBSET photos
  BY DEF Parts
<1>6. QED
  BY <1>2, <1>3, <1>4, <1>5

LEMMA TypeStep == TypeOK /\ [Next]_vars => TypeOK'
<1> SUFFICES ASSUME TypeOK, [Next]_vars
             PROVE  TypeOK'
  OBVIOUS
<1>1. CASE UNCHANGED vars
  BY <1>1 DEF vars, TypeOK
<1>2. ASSUME NEW p \in Photos, WriteFile(p)
      PROVE  TypeOK'
  <2>1. now' \in 1..MaxTime /\ disk' \in [Photos -> 1..MaxTime]
    BY <1>2 DEF WriteFile, TypeOK
  <2>2. work' \in [Photos -> Work] /\ \A q \in Photos : work'[q].pc = work[q].pc
    <3>1. \A b \in BOOLEAN : [work[p] EXCEPT !.overtaken = b] \in Work
                            /\ [work[p] EXCEPT !.overtaken = b].pc = work[p].pc
      BY DEF TypeOK, Work
    <3>2. (work[p].overtaken \/ work[p].pc \in {"looked", "measured"}) \in BOOLEAN
      BY DEF TypeOK, Work
    <3>3. QED
      BY <1>2, <3>1, <3>2 DEF WriteFile, TypeOK
  <2>3. QED
    BY <1>2, <2>1, <2>2, EventType DEF WriteFile, TypeOK
<1>3. ASSUME NEW p \in Photos, Import(p)
      PROVE  TypeOK'
  <2>1. row' \in [Photos -> Row] /\ job' \in Job /\ group' \in Group
    BY <1>3, RowsType DEF Import, TypeOK
  <2>2. last' \in [Photos -> [score : Score, overtaken : BOOLEAN, replaced : BOOLEAN]]
    BY <1>3 DEF Import, TypeOK
  <2>3. job'.on = job.on /\ job'.photos = job.photos
    BY <1>3, TouchKeeps DEF Import
  <2>4. QED
    BY <1>3, <2>1, <2>2, <2>3, EventType DEF Import, TypeOK
<1>4. ASSUME NEW p \in Photos, Decide(p)
      PROVE  TypeOK'
  <2>1. row' \in [Photos -> Row]
    BY <1>4 DEF Decide, TypeOK, Row
  <2>2. job' \in Job /\ group' \in Group /\ job'.on = job.on /\ job'.photos = job.photos
    BY <1>4, RowsType, TouchKeeps DEF Decide
  <2>3. QED
    BY <1>4, <2>1, <2>2, EventType DEF Decide, TypeOK
<1>5. ASSUME NEW p \in Photos, Look(p)
      PROVE  TypeOK'
  <2>1. work' \in [Photos -> Work] /\ \A q \in Photos : work'[q].pc # "out" => work[q].pc # "out"
    BY <1>5, RowsType DEF Look, TypeOK, Work
  <2>2. QED
    BY <1>5, <2>1 DEF Look, TypeOK
<1>6. ASSUME NEW p \in Photos, Measure(p)
      PROVE  TypeOK'
  <2>1. PICK c \in Times, next \in Work : Measured(p, c, next)
    BY <1>6, MeasureStep
  <2>2. work[p].pc = "looked" /\ work[p].key \in Times
        /\ UNCHANGED <<events, now, disk, row, profile, saved, job, group, last>>
    BY <1>6, MeasureStep
  <2>3. cache' \subseteq Entry
    BY <2>1, <2>2 DEF TypeOK, Entry, Measured
  <2>4. QED
    BY <2>1, <2>2, <2>3 DEF TypeOK, Measured
<1>7. ASSUME NEW p \in Photos, Fail(p)
      PROVE  TypeOK'
  <2>1. work' \in [Photos -> Work] /\ \A q \in Photos : work'[q].pc # "out" => work[q].pc # "out"
    BY <1>7, RecordsType DEF Fail, TypeOK, Work
  <2>2. QED
    BY <1>7, <2>1 DEF Fail, TypeOK
<1>8. ASSUME NEW p \in Photos, Collect(p)
      PROVE  TypeOK'
  <2> DEFINE object == [work[p].object EXCEPT !.decision = "rules"]
  <2>1. work[p].object \in Row /\ work[p].overtaken \in BOOLEAN /\ work[p].pc = "measured"
    BY <1>8 DEF Collect, TypeOK, Work
  <2>2. object \in Row
    BY <2>1 DEF Row
  <2>3. [object EXCEPT !.summary = CollectedSummary(p)] \in Row /\ object.score \in Score
    <3> HIDE DEF object
    <3>1. QED
      BY <2>2, RowsType DEF Row
  <2>4. row' \in [Photos -> Row]
    BY <1>8, <2>3 DEF Collect, TypeOK
  <2>5. [NoWork EXCEPT !.pc = "saved", !.object = object] \in Work
    <3> HIDE DEF object
    <3>1. QED
      BY <2>2, RecordsType DEF Work
  <2>6. work' \in [Photos -> Work] /\ \A q \in Photos : work'[q].pc # "out" => work[q].pc # "out"
    BY <1>8, <2>1, <2>5 DEF Collect, TypeOK
  <2>7. last' \in [Photos -> [score : Score, overtaken : BOOLEAN, replaced : BOOLEAN]]
    BY <1>8, <2>1, <2>3 DEF Collect, TypeOK
  <2>8. job' \in Job /\ job'.on = job.on /\ job'.photos = job.photos
    BY <1>8 DEF Collect, TypeOK, Job
  <2>9. group' \in Group
    BY <1>8, RowsType DEF Collect
  <2>10. QED
    BY <1>8, <2>4, <2>6, <2>7, <2>8, <2>9 DEF Collect, TypeOK
<1>9. ASSUME NEW s \in Settings, SaveProfile(s)
      PROVE  TypeOK'
  BY <1>9, EventType DEF SaveProfile, TypeOK
<1>10. ASSUME NEW photos \in SUBSET Photos, NEW also \in SUBSET Photos, Load(photos, also)
       PROVE  TypeOK'
  <2>1. job' \in Job /\ job'.on /\ job'.photos = photos
    BY <1>10 DEF Load, TypeOK, Job
  <2>2. work' \in [Photos -> Work] /\ \A q \in Photos : work'[q].pc # "out" => q \in photos
    <3>1. ASSUME NEW q \in Photos, NEW pc \in {"queued", "out"}, NEW object \in Row
          PROVE  [NoWork EXCEPT !.pc = pc, !.object = object] \in Work
      BY RecordsType DEF Work
    <3>2. NoWork.object \in Row /\ \A q \in Photos : row[q] \in Row
      BY RecordsType DEF TypeOK, Work
    <3>3. ASSUME NEW q \in Photos
          PROVE  /\ work'[q] \in Work
                 /\ work'[q].pc # "out" => q \in photos
      <4> DEFINE pc == IF q \in photos THEN "queued" ELSE "out"
                 object == IF q \in photos \cup also THEN row[q] ELSE NoWork.object
      <4>1. work'[q] = [NoWork EXCEPT !.pc = pc, !.object = object]
        BY <1>10 DEF Load
      <4>2. pc \in {"queued", "out"} /\ object \in Row
        BY <3>2
      <4>3. work'[q].pc = pc
        BY <4>1 DEF NoWork
      <4> HIDE DEF object
      <4>4. QED
        BY <3>1, <4>1, <4>2, <4>3
    <3>4. QED
      BY <1>10, <3>3 DEF Load
  <2>3. QED
    BY <1>10, <2>1, <2>2, EventType DEF Load, TypeOK
<1>11. CASE Finish
  <2>1. \A p \in Photos : [work[p].object EXCEPT !.decision = "rules"] \in Row
    BY DEF TypeOK, Work, Row
  <2>2. row' \in [Photos -> Row]
    BY <1>11, <2>1, RowsType DEF Finish, TypeOK
  <2>3. last' \in [Photos -> [score : Score, overtaken : BOOLEAN, replaced : BOOLEAN]]
    BY <1>11 DEF Finish, TypeOK
  <2>4. group' \in Group
    BY <1>11, RowsType DEF Finish, TypeOK, Job
  <2>5. QED
    BY <1>11, <2>2, <2>3, <2>4, RecordsType DEF Finish, TypeOK
<1>12. CASE Abort
  BY <1>12, RecordsType DEF Abort, TypeOK
<1>13. CASE \/ ReadAll
            \/ \E photos \in SUBSET Photos : \E judged, scored \in Parts(photos) :
                  AnalyzeCommand(photos, judged, scored) \/ DecisionsCommand(photos, judged)
  BY <1>13, ReadStep, EventType DEF Begun, TypeOK
<1>14. CASE SaveAll
  <2>1. PICK whole \in SUBSET group.stale :
          /\ row' = [p \in Photos |-> Regrouped(p, whole)]
          /\ last' = [p \in Photos |-> [last[p] EXCEPT !.replaced = @ \/ p \in whole \ group.scored]]
          /\ job' = TouchJob(whole \cup group.judged \cup group.scored)
    BY <1>14 DEF SaveAll
  <2>2. whole \cup group.judged \cup group.scored \in SUBSET Photos
        /\ group.object \in [Photos -> Row]
    BY DEF TypeOK, Group
  <2>3. ASSUME NEW p \in Photos
        PROVE  Regrouped(p, whole) \in Row
    <3>1. row[p] \in Row /\ group.object[p] \in Row
      BY <2>2 DEF TypeOK
    <3>2. QED
      BY <3>1, RowsType DEF Regrouped, Row
  <2>4. row' \in [Photos -> Row]
    BY <2>1, <2>3
  <2>5. last' \in [Photos -> [score : Score, overtaken : BOOLEAN, replaced : BOOLEAN]]
    BY <2>1 DEF TypeOK
  <2>6. job' \in Job /\ job'.on = job.on /\ job'.photos = job.photos
    BY <2>1, <2>2, RowsType, TouchKeeps
  <2>7. QED
    BY <1>14, <2>4, <2>5, <2>6, RecordsType DEF SaveAll, TypeOK
<1>15. CASE Restart
  BY <1>15, RecordsType, EventType DEF Restart, TypeOK
<1>16. CASE GiveUp
  BY <1>16, RecordsType DEF GiveUp, TypeOK
<1>17. QED
  BY <1>1, <1>2, <1>3, <1>4, <1>5, <1>6, <1>7, <1>8, <1>9, <1>10, <1>11, <1>12, <1>13, <1>14,
     <1>15, <1>16 DEF Next

\* Every variable has its type, and a photo is worked on only by a job that runs.
THEOREM TypeCorrect == Spec => []TypeOK
<1>1. TypeOK /\ [Next]_vars => TypeOK'
  BY TypeStep
<1>2. QED
  BY <1>1, TypeInit, PTL DEF Spec

-----------------------------------------------------------------------------
(* The metric cache.                                                       *)

\* A worker looks at a file that is there, and a file is written only later.
CacheInv ==
    /\ CacheNotOlder
    /\ \A p \in Photos : disk[p] <= now
    /\ \A p \in Photos : work[p].pc = "looked" => work[p].key \in 1..disk[p]

\* Files only get newer, and entries are only added to the cache, under the state of a
\* file a worker has looked at.
LEMMA Monotone ==
    ASSUME TypeOK, [Next]_vars
    PROVE  /\ \A p \in Photos : disk'[p] = disk[p] \/ (disk'[p] = now + 1 /\ now' = now + 1)
           /\ now' >= now /\ now' \in Nat
           /\ cache \subseteq cache'
           /\ \A e \in cache' \ cache : \E p \in Photos :
                 /\ Measure(p) /\ e.photo = p /\ e.key = work[p].key /\ Yields(p, e.content)
<1>1. CASE \E p \in Photos : Measure(p)
  <2>1. PICK p \in Photos : Measure(p)
    BY <1>1
  <2>2. UNCHANGED <<now, disk>>
    BY <2>1, MeasureStep
  <2>3. PICK c \in Times, next \in Work : Measured(p, c, next)
    BY <2>1, MeasureStep
  <2>4. now \in Nat
    BY DEF TypeOK
  <2>5. QED
    BY <2>1, <2>2, <2>3, <2>4 DEF Measured
<1>2. CASE \E p \in Photos : WriteFile(p)
  BY <1>2 DEF WriteFile, TypeOK
<1>3. CASE UNCHANGED <<now, disk, cache>>
  BY <1>3 DEF TypeOK
<1>4. QED
  BY <1>1, <1>2, <1>3 DEF Next, vars, Import, Decide, Look, Fail, Collect, SaveProfile, Load,
     Finish, Abort, ReadAll, AnalyzeCommand, DecisionsCommand, Read, SaveAll, GiveUp, Restart

\* The results of an older version of the program are never added.
LEMMA LegacyConstant ==
    ASSUME TypeOK, CacheInv, [Next]_vars, NEW p \in Photos
    PROVE  Legacy(p)' <=> Legacy(p)
<1>1. ASSUME NEW e \in cache' \ cache
      PROVE  e.key # 0
  <2>1. PICK q \in Photos : Measure(q) /\ e.key = work[q].key
    BY Monotone
  <2>2. work[q].key \in 1..disk[q]
    BY <2>1, MeasureStep DEF CacheInv
  <2>3. QED
    BY <2>1, <2>2
<1>2. cache \subseteq cache'
  BY Monotone
<1>3. QED
  BY <1>1, <1>2 DEF Legacy

LEMMA FoundIsOfKey ==
    ASSUME NEW p \in Photos, ~Legacy(p)
    PROVE  \A e \in Found(p) : e \in cache /\ e.photo = p /\ e.key = work[p].key
BY DEF Found, Lookup, Legacy

\* Who looks at a file: the worker of its photo, once.
LEMMA LookedAt ==
    ASSUME TypeOK, [Next]_vars, NEW p \in Photos, work'[p].pc = "looked"
    PROVE  \/ work[p].pc = "looked" /\ work'[p].key = work[p].key
           \/ Look(p) /\ work'[p].key = disk[p] /\ UNCHANGED <<disk, now>>
<1>1. CASE UNCHANGED work
  BY <1>1
<1>2. ASSUME NEW q \in Photos, WriteFile(q)
      PROVE  work'[p].pc = work[p].pc /\ work'[p].key = work[p].key
  BY <1>2 DEF WriteFile, TypeOK, Work
<1>3. ASSUME NEW q \in Photos, Look(q)
      PROVE  \/ work[p].pc = "looked" /\ work'[p].key = work[p].key
             \/ Look(p) /\ work'[p].key = disk[p] /\ UNCHANGED <<disk, now>>
  BY <1>3 DEF Look, TypeOK, Work
<1>4. ASSUME NEW q \in Photos, Measure(q)
      PROVE  work[p].pc = "looked" /\ work'[p].key = work[p].key
  <2>1. PICK c \in Times, next \in Work : Measured(q, c, next)
    BY <1>4, MeasureStep
  <2>2. work' = [work EXCEPT ![q] = next] /\ next.pc = "measured"
    BY <2>1 DEF Measured
  <2>3. p # q
    BY <2>2 DEF TypeOK
  <2>4. work'[p] = work[p]
    BY <2>2, <2>3 DEF TypeOK
  <2>5. QED
    BY <2>4
<1>5. ASSUME NEW q \in Photos, Fail(q) \/ Collect(q)
      PROVE  work[p].pc = "looked" /\ work'[p].key = work[p].key
  <2> DEFINE ended == [NoWork EXCEPT !.pc = "failed", !.object = work[q].object]
             object == [work[q].object EXCEPT !.decision = "rules"]
             done == [NoWork EXCEPT !.pc = "saved", !.object = object]
  <2>1. ended.pc = "failed" /\ done.pc = "saved"
    BY DEF NoWork
  <2>2. work' = [work EXCEPT ![q] = ended] \/ work' = [work EXCEPT ![q] = done]
    BY <1>5 DEF Fail, Collect
  <2> HIDE DEF ended, done
  <2>3. p # q
    BY <2>1, <2>2 DEF TypeOK
  <2>4. work'[p] = work[p]
    BY <2>2, <2>3 DEF TypeOK
  <2>5. QED
    BY <2>4
<1>6. ASSUME NEW photos \in SUBSET Photos, NEW also \in SUBSET Photos, Load(photos, also)
      PROVE  FALSE
  BY <1>6 DEF Load, NoWork
<1>7. ~(Finish \/ Abort \/ Restart)
  BY DEF Finish, Abort, Restart, NoWork
<1>8. QED
  BY <1>1, <1>2, <1>3, <1>4, <1>5, <1>6, <1>7
     DEF Next, vars, Import, Decide, SaveProfile, ReadAll, AnalyzeCommand, DecisionsCommand, Read,
         SaveAll, GiveUp

LEMMA CacheStep == TypeOK /\ CacheInv /\ [Next]_vars => CacheInv'
<1> SUFFICES ASSUME TypeOK, CacheInv, [Next]_vars
             PROVE  CacheInv'
  OBVIOUS
<1>1. \A p \in Photos : disk[p] \in 1..MaxTime /\ disk'[p] \in 1..MaxTime /\ disk'[p] >= disk[p]
                      /\ disk'[p] <= now'
  <2>1. TypeOK'
    BY TypeStep
  <2>2. \A p \in Photos : disk[p] \in 1..MaxTime /\ disk'[p] \in 1..MaxTime /\ disk[p] <= now
    BY <2>1 DEF TypeOK, CacheInv
  <2>3. now \in Nat /\ now' \in Nat /\ now' >= now
    BY Monotone DEF TypeOK
  <2>4. QED
    BY <2>2, <2>3, Monotone
<1>2. ASSUME NEW e \in cache', ~Legacy(e.photo)'
      PROVE  e.content \in e.key..disk'[e.photo]
  <2>1. CASE e \in cache
    <3>1. e.photo \in Photos /\ e.key \in Nat /\ e.content \in Nat
      BY <2>1 DEF TypeOK, Entry, Times
    <3>2. ~Legacy(e.photo)
      BY <1>2, <3>1, LegacyConstant
    <3>3. e.content \in e.key..disk[e.photo]
      BY <2>1, <3>2 DEF CacheInv, CacheNotOlder
    <3>4. QED
      BY <1>1, <3>1, <3>3
  <2>2. CASE e \notin cache
    <3>1. PICK p \in Photos : Measure(p) /\ e.photo = p /\ e.key = work[p].key /\ Yields(p, e.content)
      BY <2>2, Monotone
    <3>2. work[p].key \in 1..disk[p] /\ disk'[p] = disk[p] /\ disk[p] \in 1..MaxTime
      BY <1>1, <3>1, MeasureStep DEF CacheInv
    <3>3. ~Legacy(p)
      BY <1>2, <3>1, LegacyConstant
    <3>4. CASE Found(p) = {}
      <4>1. e.content = disk[p]
        BY <3>1, <3>4 DEF Yields
      <4>2. QED
        BY <3>1, <3>2, <4>1
    <3>5. CASE Found(p) # {}
      <4>1. PICK f \in Found(p) : e.content = f.content
        BY <3>1, <3>5 DEF Yields
      <4>2. f \in cache /\ f.photo = p /\ f.key = work[p].key
        BY <3>3, FoundIsOfKey
      <4>3. f.content \in work[p].key..disk[p]
        BY <3>3, <4>2 DEF CacheInv, CacheNotOlder
      <4>4. QED
        BY <3>1, <3>2, <4>1, <4>3
    <3>6. QED
      BY <3>4, <3>5
  <2>3. QED
    BY <2>1, <2>2
<1>3. ASSUME NEW p \in Photos, work'[p].pc = "looked"
      PROVE  work'[p].key \in 1..disk'[p]
  <2>1. CASE work[p].pc = "looked" /\ work'[p].key = work[p].key
    <3>1. work[p].key \in 1..disk[p]
      BY <2>1 DEF CacheInv
    <3>2. QED
      BY <1>1, <2>1, <3>1
  <2>2. CASE work'[p].key = disk[p] /\ UNCHANGED disk
    BY <1>1, <2>2
  <2>3. QED
    BY <1>3, <2>1, <2>2, LookedAt
<1>4. CacheNotOlder'
  BY <1>2 DEF CacheNotOlder
<1>5. QED
  BY <1>1, <1>3, <1>4 DEF CacheInv

LEMMA CacheInit == Init => CacheInv
<1> SUFFICES ASSUME Init
             PROVE  CacheInv
  OBVIOUS
<1>1. \A e \in cache : Legacy(e.photo)
  BY DEF Init, Legacy
<1>2. QED
  BY <1>1 DEF Init, CacheInv, CacheNotOlder, NoWork

LEMMA CacheInvariance == Spec => [](TypeOK /\ CacheInv)
<1>1. Init => TypeOK /\ CacheInv
  BY TypeInit, CacheInit
<1>2. TypeOK /\ CacheInv /\ [Next]_vars => (TypeOK /\ CacheInv)'
  BY TypeStep, CacheStep
<1>3. QED
  BY <1>1, <1>2, PTL DEF Spec

\* A result is kept under the state of the file before it was read: it is of that state
\* or of a later one, whenever the file is written meanwhile (run_image, MetricCache).
THEOREM CacheCorrect == Spec => []CacheNotOlder
<1>1. TypeOK /\ CacheInv => CacheNotOlder
  BY DEF CacheInv
<1>2. QED
  BY <1>1, CacheInvariance, PTL

-----------------------------------------------------------------------------
(* The user's decisions.                                                   *)

\* A job has a photo to analyze.
JobInv == job.on => job.photos # {}

LEMMA JobStep == TypeOK /\ JobInv /\ [Next]_vars => JobInv'
<1> SUFFICES ASSUME TypeOK, JobInv, [Next]_vars
             PROVE  JobInv'
  OBVIOUS
<1>1. CASE job'.on = job.on /\ job'.photos = job.photos
  BY <1>1 DEF JobInv
<1>2. CASE job' = NoJob
  BY <1>2, RecordsType DEF JobInv
<1>3. ASSUME NEW photos \in SUBSET Photos, NEW also \in SUBSET Photos, Load(photos, also)
      PROVE  JobInv'
  BY <1>3 DEF Load, JobInv
<1>4. ASSUME NEW p \in Photos, Import(p) \/ Decide(p)
      PROVE  job'.on = job.on /\ job'.photos = job.photos
  <2>1. {p} \in SUBSET Photos /\ job' = TouchJob({p})
    BY <1>4 DEF Import, Decide
  <2>2. QED
    BY <2>1, TouchKeeps
<1>5. ASSUME NEW p \in Photos, Collect(p)
      PROVE  job'.on = job.on /\ job'.photos = job.photos
  BY <1>5 DEF Collect, TypeOK, Job
<1>6. ASSUME SaveAll
      PROVE  job'.on = job.on /\ job'.photos = job.photos
  <2>1. PICK whole \in SUBSET group.stale : job' = TouchJob(whole \cup group.judged \cup group.scored)
    BY <1>6 DEF SaveAll
  <2>2. whole \cup group.judged \cup group.scored \in SUBSET Photos
    BY DEF TypeOK, Group
  <2>3. QED
    BY <2>1, <2>2, TouchKeeps
<1>7. QED
  BY <1>1, <1>2, <1>3, <1>4, <1>5, <1>6
     DEF Next, vars, WriteFile, Look, Measure, Fail, SaveProfile, Finish, Abort, ReadAll,
         AnalyzeCommand, DecisionsCommand, Read, GiveUp, Restart

\* Whoever replaces a decision of the user.
LEMMA DecisionStep ==
    ASSUME TypeOK, JobInv, [Next]_vars, NEW p \in Photos,
           row[p].decision = "user", row'[p].decision # "user"
    PROVE  \/ row'[p] = Saved(row[p], ImportedRow(p))
           \/ job.on /\ p \in job.photos \cup job.also /\ work' # work
           \/ group.on /\ ~group'.on /\ p \in group.stale \cup group.judged
<1>1. row' # row
  OBVIOUS
<1>2. ASSUME NEW q \in Photos, Import(q)
      PROVE  row'[p] = Saved(row[p], ImportedRow(p))
  BY <1>2 DEF Import, TypeOK
<1>3. ASSUME NEW q \in Photos, Decide(q)
      PROVE  FALSE
  BY <1>3 DEF Decide, TypeOK, Row
<1>4. ASSUME NEW q \in Photos, Collect(q)
      PROVE  job.on /\ p \in job.photos \cup job.also /\ work' # work
  <2> DEFINE object == [work[q].object EXCEPT !.decision = "rules"]
             done == [NoWork EXCEPT !.pc = "saved", !.object = object]
  <2>1. q = p
    BY <1>4 DEF Collect, TypeOK
  <2>2. work[p].pc = "measured" /\ work' = [work EXCEPT ![p] = done]
    BY <1>4, <2>1 DEF Collect
  <2>3. done.pc = "saved"
    BY DEF NoWork
  <2> HIDE DEF done
  <2>4. work'[p].pc # work[p].pc
    BY <2>2, <2>3 DEF TypeOK
  <2>5. job.on /\ p \in job.photos
    BY <2>2 DEF TypeOK
  <2>6. QED
    BY <2>4, <2>5
<1>5. ASSUME Finish
      PROVE  job.on /\ p \in job.photos \cup job.also /\ work' # work
  <2>1. job.on /\ p \in job.photos \cup job.also
    BY <1>5 DEF Finish
  <2>2. PICK q \in Photos : q \in job.photos
    BY <2>1 DEF JobInv, TypeOK, Job
  <2>3. work[q].pc \in {"saved", "failed"} /\ work'[q] = NoWork
    BY <1>5, <2>2 DEF Finish
  <2>4. work'[q].pc # work[q].pc
    BY <2>3, RecordsType
  <2>5. QED
    BY <2>1, <2>4
<1>6. ASSUME SaveAll
      PROVE  group.on /\ ~group'.on /\ p \in group.stale \cup group.judged
  <2>1. PICK whole \in SUBSET group.stale : row' = [q \in Photos |-> Regrouped(q, whole)]
    BY <1>6 DEF SaveAll
  <2>2. p \in whole \cup group.judged
    <3> SUFFICES ASSUME p \notin whole, p \notin group.judged
                 PROVE  row'[p].decision = row[p].decision
      OBVIOUS
    <3>1. row'[p] = [row[p] EXCEPT !.decision = row[p].decision,
                                   !.score = IF p \in group.scored THEN group.object[p].score ELSE @]
      BY <2>1 DEF Regrouped
    <3>2. QED
      BY <3>1 DEF TypeOK, Row
  <2>3. group.on /\ group' = NoGroup
    BY <1>6 DEF SaveAll
  <2>4. QED
    BY <2>2, <2>3, RecordsType
<1>7. QED
  BY <1>1, <1>2, <1>3, <1>4, <1>5, <1>6
     DEF Next, vars, WriteFile, Look, Measure, Fail, SaveProfile, Load, Abort, ReadAll,
         AnalyzeCommand, DecisionsCommand, Read, GiveUp, Restart

\* A decision of the user is replaced only by an import of the photo, by the analysis or the
\* analyze command that was asked to judge it or a sibling, or by a grouping or a command
\* that had read the photo before (save_photo, _run_analysis, group_similar_photos).
THEOREM DecisionsRespected == Spec => DecisionsKept
<1>1. Init => JobInv
  BY RecordsType DEF Init, JobInv
<1>2. TypeOK /\ JobInv /\ [Next]_vars => JobInv'
  BY JobStep
<1>3. TypeOK /\ JobInv /\ [Next]_vars =>
        [\A p \in Photos : row[p].decision = "user" /\ row'[p].decision # "user" =>
            \/ row'[p] = Saved(row[p], ImportedRow(p))
            \/ job.on /\ p \in job.photos \cup job.also /\ work' # work
            \/ group.on /\ ~group'.on /\ p \in group.stale \cup group.judged]_vars
  BY DecisionStep
<1>4. QED
  BY <1>1, <1>2, <1>3, TypeCorrect, PTL DEF Spec, DecisionsKept

-----------------------------------------------------------------------------
(* What remains to be analyzed.                                            *)

InJob(p) == job.on /\ p \in job.photos \cup job.also

\* The times of the file of a photo that somebody knows: it has one of them, the others
\* were read from it.
Known(p, m) ==
    \/ m = disk[p] \/ m = row[p].mtime
    \/ InJob(p) /\ m = work[p].object.mtime
    \/ group.on /\ p \in group.photos /\ m = group.object[p].mtime

TimesInv == \A p \in Photos :
    /\ row[p].summary.at <= now
    /\ \A m \in Times : Known(p, m) => m <= disk[p]

\* A result is of the settings of the job and, unless the file was written since the
\* worker looked at it, of the file.
CurrentInv == \A p \in Photos :
    /\ work[p].pc = "measured" => work[p].object.score.settings = job.settings
    /\ ~Legacy(p) /\ ~work[p].overtaken =>
          /\ work[p].pc = "looked" => work[p].key = disk[p]
          /\ work[p].pc = "measured" => work[p].object.score.content = disk[p]

\* The summary names the settings of the latest result; a time that somebody knows is not
\* after that result's, or the summary is older.
ContentInv == \A p \in Photos : ~Legacy(p) /\ row[p].summary.settings # None =>
    /\ last[p].score.settings = row[p].summary.settings
    /\ ~last[p].overtaken =>
          \A m \in Times : Known(p, m) => m <= last[p].score.content \/ m > row[p].summary.at

\* The score of a photo is its latest result, unless somebody has replaced it; what the job
\* will save of a photo that nobody else has written is its score.
ScoreIs(p) == \/ row[p].score = last[p].score
              \/ last[p].replaced \/ row[p].score.settings = None

ScoreInv == \A p \in Photos :
    /\ ScoreIs(p)
    /\ InJob(p) /\ p \notin job.stale /\ work[p].pc # "measured" =>
          work[p].object.score = row[p].score
    /\ group.on /\ p \in group.scored => group.object[p].score.settings = None

RemainingInv == TimesInv /\ CurrentInv /\ ContentInv /\ ScoreInv

LEMMA RemainingInvImplies == TypeOK /\ RemainingInv => RemainingIsRight
<1> SUFFICES ASSUME TypeOK, RemainingInv, NEW p \in Photos, NEW s \in Settings,
                    ~Legacy(p), ~Needs(row[p], s)
             PROVE  /\ last[p].score.settings = s
                    /\ last[p].overtaken \/ last[p].score.content >= row[p].mtime
                    /\ ScoreIs(p)
  BY DEF RemainingIsRight, ScoreIs
<1>1. row[p].summary.settings = s /\ ~(row[p].mtime > row[p].summary.at) /\ s # None
  BY DEF Needs
<1>2. row[p].mtime \in Times /\ Known(p, row[p].mtime)
  BY DEF Known, TypeOK, Row
<1>3. last[p].score.settings = s
  BY <1>1 DEF RemainingInv, ContentInv
<1>4. last[p].overtaken \/ row[p].mtime <= last[p].score.content \/ row[p].mtime > row[p].summary.at
  BY <1>1, <1>2 DEF RemainingInv, ContentInv
<1>5. last[p].score.content \in Nat /\ row[p].mtime \in Nat
  BY <1>2 DEF TypeOK, Score, Times
<1>6. ScoreIs(p)
  BY DEF RemainingInv, ScoreInv
<1>7. QED
  BY <1>1, <1>3, <1>4, <1>5, <1>6

\* The steps of a worker and of the collector in a few fields.
LEMMA FailStep ==
    ASSUME TypeOK, NEW q \in Photos, Fail(q)
    PROVE  /\ UNCHANGED <<now, disk, row, cache, job, group, last>>
           /\ work[q].pc \in {"queued", "looked"}
           /\ \A p \in Photos \ {q} : work'[p] = work[p]
           /\ work'[q].pc = "failed" /\ work'[q].object = work[q].object
<1> DEFINE ended == [NoWork EXCEPT !.pc = "failed", !.object = work[q].object]
<1>1. ended.pc = "failed" /\ ended.object = work[q].object
  BY DEF NoWork
<1>2. work' = [work EXCEPT ![q] = ended]
  BY DEF Fail
<1> HIDE DEF ended
<1>3. work'[q] = ended /\ \A p \in Photos \ {q} : work'[p] = work[p]
  BY <1>2 DEF TypeOK
<1>4. QED
  BY <1>1, <1>3 DEF Fail

LEMMA CollectStep ==
    ASSUME TypeOK, NEW q \in Photos, Collect(q)
    PROVE  /\ UNCHANGED <<now, disk, cache>>
           /\ work[q].pc = "measured" /\ InJob(q)
           /\ \A p \in Photos \ {q} :
                 work'[p] = work[p] /\ row'[p] = row[p] /\ last'[p] = last[p]
           /\ work'[q].pc = "saved" /\ work'[q].object.mtime = work[q].object.mtime
           /\ work'[q].object.score = work[q].object.score
           /\ row'[q].mtime = work[q].object.mtime /\ row'[q].score = work[q].object.score
           /\ row'[q].summary.settings = job.settings /\ row'[q].summary.at = now
           /\ last'[q].score = work[q].object.score /\ last'[q].overtaken = work[q].overtaken
           /\ job'.on = job.on /\ job'.photos = job.photos /\ job'.also = job.also
           /\ job'.settings = job.settings /\ job'.stale = job.stale \ {q}
           /\ SameGroup
<1> DEFINE object == [work[q].object EXCEPT !.decision = "rules"]
           done == [NoWork EXCEPT !.pc = "saved", !.object = object]
           new == [object EXCEPT !.summary = CollectedSummary(q)]
<1>1. work[q].pc = "measured" /\ work[q].object \in Row
  BY DEF Collect, TypeOK, Work
<1>2. object \in Row /\ object.mtime = work[q].object.mtime /\ object.score = work[q].object.score
  BY <1>1 DEF Row
<1>3. done.pc = "saved" /\ done.object = object
  BY DEF NoWork
<1>4. new.mtime = object.mtime /\ new.score = object.score /\ new.summary = CollectedSummary(q)
  <2> HIDE DEF object
  <2>1. QED
    BY <1>2 DEF Row
<1>5. /\ row' = [row EXCEPT ![q] = new] /\ work' = [work EXCEPT ![q] = done]
      /\ last' = [last EXCEPT ![q] = [score |-> object.score, overtaken |-> work[q].overtaken,
                                      replaced |-> FALSE]]
      /\ job' = [job EXCEPT !.stale = @ \ {q}] /\ group' = TouchGroup({q})
      /\ UNCHANGED <<now, disk, cache>>
  BY DEF Collect
<1>6. InJob(q)
  BY <1>1 DEF TypeOK, InJob
<1> HIDE DEF object, done, new
<1>7. /\ work'[q] = done /\ row'[q] = new
      /\ last'[q].score = object.score /\ last'[q].overtaken = work[q].overtaken
      /\ \A p \in Photos \ {q} :
            work'[p] = work[p] /\ row'[p] = row[p] /\ last'[p] = last[p]
  BY <1>5 DEF TypeOK
<1>8. /\ job'.on = job.on /\ job'.photos = job.photos /\ job'.also = job.also
      /\ job'.settings = job.settings /\ job'.stale = job.stale \ {q}
  BY <1>5 DEF TypeOK, Job
<1>9. SameGroup
  <2>1. {q} \in SUBSET Photos
    OBVIOUS
  <2>2. QED
    BY <1>5, <2>1, TouchKeeps DEF SameGroup
<1>10. CollectedSummary(q).settings = job.settings /\ CollectedSummary(q).at = now
  BY DEF CollectedSummary
<1>11. QED
  BY <1>1, <1>2, <1>3, <1>4, <1>5, <1>6, <1>7, <1>8, <1>9, <1>10

\* Who may save what it has read: nothing else of the job or the request changes.
LEMMA WriteFileStep ==
    ASSUME TypeOK, NEW q \in Photos, WriteFile(q)
    PROVE  /\ UNCHANGED <<row, cache, job, group, last>>
           /\ now' = now + 1 /\ disk' = [disk EXCEPT ![q] = now + 1]
           /\ \A p \in Photos : work'[p].pc = work[p].pc /\ work'[p].key = work[p].key
                                 /\ work'[p].object = work[p].object
           /\ \A p \in Photos \ {q} : work'[p] = work[p]
           /\ work[q].pc \in {"looked", "measured"} => work'[q].overtaken
BY DEF WriteFile, TypeOK, Work

LEMMA LoadStep ==
    ASSUME TypeOK, NEW photos \in SUBSET Photos, NEW also \in SUBSET Photos, Load(photos, also)
    PROVE  /\ UNCHANGED <<now, disk, row, cache, group, last>>
           /\ job'.on /\ job'.photos = photos /\ job'.also = also
           /\ \A p \in Photos : work'[p].pc \in {"queued", "out"}
           /\ \A p \in photos \cup also : work'[p].object = row[p]
<1>1. ASSUME NEW p \in Photos
      PROVE  /\ work'[p].pc = IF p \in photos THEN "queued" ELSE "out"
             /\ work'[p].object = IF p \in photos \cup also THEN row[p] ELSE NoWork.object
  <2> DEFINE pc == IF p \in photos THEN "queued" ELSE "out"
             object == IF p \in photos \cup also THEN row[p] ELSE NoWork.object
  <2>1. work'[p] = [NoWork EXCEPT !.pc = pc, !.object = object]
    BY DEF Load
  <2> HIDE DEF pc, object
  <2>2. work'[p].pc = pc /\ work'[p].object = object
    BY <2>1 DEF NoWork
  <2>3. QED
    BY <2>2 DEF pc, object
<1>2. QED
  BY <1>1 DEF Load

LEMMA FinishStep ==
    ASSUME TypeOK, Finish
    PROVE  /\ UNCHANGED <<now, disk, cache>> /\ job.on /\ job' = NoJob
           /\ work' = [p \in Photos |-> NoWork]
           /\ SameGroup
           /\ \A p \in Photos :
                 /\ row'[p].summary = row[p].summary
                 /\ last'[p].score = last[p].score /\ last'[p].overtaken = last[p].overtaken
                 /\ last'[p].replaced <=> last[p].replaced \/ (InJob(p) /\ p \in job.stale)
                 /\ ~InJob(p) => row'[p] = row[p]
                 /\ InJob(p) => /\ row'[p].mtime = work[p].object.mtime
                                /\ row'[p].score = work[p].object.score
                                /\ work[p].pc # "measured"
<1> DEFINE all == job.photos \cup job.also
<1>1. job.on /\ job' = NoJob /\ UNCHANGED <<now, disk, cache>> /\ work' = [p \in Photos |-> NoWork]
  BY DEF Finish
<1>2. SameGroup
  <2>1. all \in SUBSET Photos /\ group' = TouchGroup(all)
    BY DEF Finish, TypeOK, Job
  <2>2. QED
    BY <2>1, TouchKeeps DEF SameGroup
<1>3. ASSUME NEW p \in Photos
      PROVE  /\ last'[p].score = last[p].score /\ last'[p].overtaken = last[p].overtaken
             /\ last'[p].replaced <=> last[p].replaced \/ (InJob(p) /\ p \in job.stale)
  BY <1>1 DEF Finish, TypeOK, InJob
<1>4. ASSUME NEW p \in Photos, InJob(p)
      PROVE  /\ row'[p].summary = row[p].summary
             /\ row'[p].mtime = work[p].object.mtime /\ row'[p].score = work[p].object.score
  <2> DEFINE object == [work[p].object EXCEPT !.decision = "rules"]
  <2>1. work[p].object \in Row
    BY DEF TypeOK, Work
  <2>2. object \in Row /\ object.mtime = work[p].object.mtime /\ object.score = work[p].object.score
    BY <2>1 DEF Row
  <2>3. row'[p] = Saved(row[p], object)
    BY <1>4 DEF Finish, InJob
  <2> HIDE DEF object
  <2>4. QED
    BY <2>2, <2>3 DEF Saved, Row
<1>5. ASSUME NEW p \in Photos, InJob(p)
      PROVE  work[p].pc # "measured"
  BY <1>5 DEF Finish, InJob, TypeOK
<1>6. ASSUME NEW p \in Photos, ~InJob(p)
      PROVE  row'[p] = row[p]
  BY <1>1, <1>6 DEF Finish, InJob
<1>7. QED
  BY <1>1, <1>2, <1>3, <1>4, <1>5, <1>6

LEMMA SaveAllStep ==
    ASSUME TypeOK, SaveAll
    PROVE  /\ UNCHANGED <<now, disk, cache, work>> /\ group.on /\ ~group'.on
           /\ job'.on = job.on /\ job'.photos = job.photos /\ job'.also = job.also
           /\ job'.settings = job.settings
           /\ \A p \in Photos :
                 /\ row'[p].summary = row[p].summary
                 /\ last'[p].score = last[p].score /\ last'[p].overtaken = last[p].overtaken
                 /\ \/ row'[p].mtime = row[p].mtime
                    \/ p \in group.photos /\ row'[p].mtime = group.object[p].mtime
                 /\ \/ /\ row'[p].score = row[p].score
                       /\ last'[p].replaced <=> last[p].replaced
                    \/ /\ \/ last'[p].replaced
                          \/ p \in group.scored /\ row'[p].score = group.object[p].score
                       /\ job.on => p \in job'.stale
                 /\ job.stale \subseteq job'.stale
<1>1. PICK whole \in SUBSET group.stale :
         /\ row' = [p \in Photos |-> Regrouped(p, whole)]
         /\ last' = [p \in Photos |-> [last[p] EXCEPT !.replaced = @ \/ p \in whole \ group.scored]]
         /\ job' = TouchJob(whole \cup group.judged \cup group.scored)
  BY DEF SaveAll
<1>2. whole \cup group.judged \cup group.scored \in SUBSET Photos /\ whole \subseteq group.photos
  BY DEF TypeOK, Group
<1>3. /\ job'.on = job.on /\ job'.photos = job.photos /\ job'.also = job.also
      /\ job'.settings = job.settings
      /\ job'.stale = IF job.on THEN job.stale \cup (whole \cup group.judged \cup group.scored)
                      ELSE job.stale
  BY <1>1, <1>2, TouchKeeps
<1>4. ASSUME NEW p \in Photos
      PROVE  /\ last'[p].score = last[p].score /\ last'[p].overtaken = last[p].overtaken
             /\ last'[p].replaced <=> last[p].replaced \/ p \in whole \ group.scored
  BY <1>1 DEF TypeOK
<1>5. ASSUME NEW p \in Photos, p \in whole
      PROVE  /\ row'[p].summary = row[p].summary /\ row'[p].mtime = group.object[p].mtime
             /\ row'[p].score = group.object[p].score
  <2>1. row'[p] = Saved(row[p], group.object[p]) /\ group.object[p] \in Row
    BY <1>1, <1>5 DEF Regrouped, TypeOK, Group
  <2>2. QED
    BY <2>1 DEF Saved, Row
<1>6. ASSUME NEW p \in Photos, p \notin whole
      PROVE  /\ row'[p].summary = row[p].summary /\ row'[p].mtime = row[p].mtime
             /\ row'[p].score = IF p \in group.scored THEN group.object[p].score ELSE row[p].score
  BY <1>1, <1>6 DEF Regrouped, TypeOK, Row
<1>7. UNCHANGED <<now, disk, cache, work>> /\ group.on /\ ~group'.on
  BY RecordsType DEF SaveAll
<1>8. QED
  BY <1>2, <1>3, <1>4, <1>5, <1>6, <1>7

LEMMA ImportStep ==
    ASSUME TypeOK, NEW q \in Photos, Import(q)
    PROVE  /\ UNCHANGED <<now, disk, cache, work>>
           /\ job'.on = job.on /\ job'.photos = job.photos /\ job'.also = job.also
           /\ job'.settings = job.settings
           /\ job'.stale = IF job.on THEN job.stale \cup {q} ELSE job.stale
           /\ SameGroup
           /\ \A p \in Photos \ {q} : row'[p] = row[p] /\ last'[p] = last[p]
           /\ row'[q].mtime = disk[q] /\ row'[q].score = Unscored
           /\ row'[q].summary = row[q].summary
           /\ last'[q].score = last[q].score /\ last'[q].overtaken = last[q].overtaken
<1>1. {q} \in SUBSET Photos /\ job' = TouchJob({q}) /\ group' = TouchGroup({q})
  BY DEF Import
<1>2. /\ job'.on = job.on /\ job'.photos = job.photos /\ job'.also = job.also
      /\ job'.settings = job.settings
      /\ job'.stale = IF job.on THEN job.stale \cup {q} ELSE job.stale
      /\ SameGroup
  BY <1>1, TouchKeeps DEF SameGroup
<1>3. row'[q] = Saved(row[q], ImportedRow(q)) /\ \A p \in Photos \ {q} : row'[p] = row[p]
  BY DEF Import, TypeOK
<1>4. row'[q].mtime = disk[q] /\ row'[q].score = Unscored /\ row'[q].summary = row[q].summary
  BY <1>3 DEF Saved, ImportedRow
<1>5. /\ last'[q].score = last[q].score /\ last'[q].overtaken = last[q].overtaken
      /\ \A p \in Photos \ {q} : last'[p] = last[p]
  BY DEF Import, TypeOK
<1>6. QED
  BY <1>2, <1>3, <1>4, <1>5 DEF Import

LEMMA DecideStep ==
    ASSUME TypeOK, NEW q \in Photos, Decide(q)
    PROVE  /\ UNCHANGED <<now, disk, cache, work, last>>
           /\ job'.on = job.on /\ job'.photos = job.photos /\ job'.also = job.also
           /\ job'.settings = job.settings /\ job.stale \subseteq job'.stale
           /\ SameGroup
           /\ \A p \in Photos : /\ row'[p].mtime = row[p].mtime /\ row'[p].score = row[p].score
                                 /\ row'[p].summary = row[p].summary
<1>1. {q} \in SUBSET Photos /\ job' = TouchJob({q}) /\ group' = TouchGroup({q})
  BY DEF Decide
<1>2. /\ job'.on = job.on /\ job'.photos = job.photos /\ job'.also = job.also
      /\ job'.settings = job.settings
      /\ job'.stale = IF job.on THEN job.stale \cup {q} ELSE job.stale
      /\ SameGroup
  BY <1>1, TouchKeeps DEF SameGroup
<1>3. \A p \in Photos : /\ row'[p].mtime = row[p].mtime /\ row'[p].score = row[p].score
                        /\ row'[p].summary = row[p].summary
  BY DEF Decide, TypeOK, Row
<1>4. QED
  BY <1>2, <1>3 DEF Decide

LEMMA LookStep ==
    ASSUME TypeOK, NEW q \in Photos, Look(q)
    PROVE  /\ UNCHANGED <<now, disk, row, cache, job, group, last>>
           /\ work[q].pc = "queued"
           /\ \A p \in Photos \ {q} : work'[p] = work[p]
           /\ work'[q].pc = "looked" /\ work'[q].key = disk[q] /\ work'[q].object = work[q].object
BY DEF Look, TypeOK, Work

LEMMA MeasuredStep ==
    ASSUME TypeOK, NEW q \in Photos, Measure(q)
    PROVE  /\ UNCHANGED <<now, disk, row, job, group, last>>
           /\ work[q].pc = "looked" /\ work'[q].pc = "measured"
           /\ \A p \in Photos \ {q} : work'[p] = work[p]
           /\ work'[q].overtaken = work[q].overtaken
           /\ work'[q].object.mtime = work[q].object.mtime
           /\ work'[q].object.score.settings = job.settings
           /\ Yields(q, work'[q].object.score.content)
<1>1. PICK c \in Times, next \in Work : Measured(q, c, next)
  BY MeasureStep
<1>2. work' = [work EXCEPT ![q] = next]
  BY <1>1 DEF Measured
<1>3. work'[q] = next /\ \A p \in Photos \ {q} : work'[p] = work[p]
  BY <1>2 DEF TypeOK
<1>4. next.object.score.settings = job.settings /\ next.object.score.content = c
  BY <1>1 DEF Measured
<1>5. QED
  BY <1>1, <1>3, <1>4, MeasureStep DEF Measured

\* A time that is known was known before, or is that of a file just written.
LEMMA KnownStep ==
    ASSUME TypeOK, [Next]_vars, NEW p \in Photos, NEW m \in Times, Known(p, m)'
    PROVE  Known(p, m) \/ (m = now + 1 /\ disk'[p] = now + 1)
<1> DEFINE goal == Known(p, m) \/ (m = now + 1 /\ disk'[p] = now + 1)
<1>0. \/ m = disk'[p] \/ m = row'[p].mtime
      \/ InJob(p)' /\ m = work'[p].object.mtime
      \/ group'.on /\ p \in group'.photos /\ m = group'.object[p].mtime
  BY DEF Known
<1>1. CASE UNCHANGED <<disk, row, job, group>> /\ UNCHANGED work
  BY <1>0, <1>1 DEF Known, InJob
<1>2. ASSUME NEW q \in Photos, WriteFile(q)
      PROVE  goal
  <2>1. disk'[p] = disk[p] \/ disk'[p] = now + 1
    BY Monotone
  <2>2. QED
    BY <1>0, <1>2, <2>1, WriteFileStep DEF Known, InJob
<1>3. ASSUME NEW q \in Photos, Import(q)
      PROVE  goal
  BY <1>0, <1>3, ImportStep DEF Known, InJob, SameGroup
<1>4. ASSUME NEW q \in Photos, Decide(q)
      PROVE  goal
  BY <1>0, <1>4, DecideStep DEF Known, InJob, SameGroup
<1>5. ASSUME NEW q \in Photos, Look(q)
      PROVE  goal
  BY <1>0, <1>5, LookStep DEF Known, InJob
<1>6. ASSUME NEW q \in Photos, Measure(q)
      PROVE  goal
  BY <1>0, <1>6, MeasuredStep DEF Known, InJob
<1>7. ASSUME NEW q \in Photos, Fail(q)
      PROVE  goal
  BY <1>0, <1>7, FailStep DEF Known, InJob
<1>8. ASSUME NEW q \in Photos, Collect(q)
      PROVE  goal
  <2>1. row'[p].mtime = row[p].mtime \/ (InJob(p) /\ row'[p].mtime = work[p].object.mtime)
    BY <1>8, CollectStep
  <2>2. work'[p].object.mtime = work[p].object.mtime /\ InJob(p)' = InJob(p)
    BY <1>8, CollectStep DEF InJob
  <2>3. QED
    BY <1>0, <1>8, <2>1, <2>2, CollectStep DEF Known, SameGroup
<1>9. ASSUME NEW photos \in SUBSET Photos, NEW also \in SUBSET Photos, Load(photos, also)
      PROVE  goal
  BY <1>0, <1>9, LoadStep DEF Known, InJob
<1>10. ASSUME Finish
       PROVE  goal
  BY <1>0, <1>10, FinishStep, RecordsType DEF Known, InJob, SameGroup
<1>11. ASSUME SaveAll
       PROVE  goal
  BY <1>0, <1>11, SaveAllStep DEF Known, InJob
<1>12. ASSUME \/ ReadAll
              \/ \E photos \in SUBSET Photos : \E judged, scored \in Parts(photos) :
                    AnalyzeCommand(photos, judged, scored) \/ DecisionsCommand(photos, judged)
       PROVE  goal
  <2>1. PICK object \in [Photos -> Row], photos \in SUBSET Photos, scored \in SUBSET Photos :
          Begun(object, photos, scored) /\ \A q \in Photos : object[q].mtime = row[q].mtime
    BY <1>12, ReadStep
  <2>2. QED
    BY <1>0, <2>1 DEF Begun, Known, InJob
<1>13. ASSUME Abort \/ Restart \/ GiveUp
       PROVE  goal
  BY <1>0, <1>13, RecordsType DEF Abort, Restart, GiveUp, Known, InJob
<1>14. QED
  BY <1>1, <1>2, <1>3, <1>4, <1>5, <1>6, <1>7, <1>8, <1>9, <1>10, <1>11, <1>12, <1>13
     DEF Next, vars, SaveProfile

\* Only the collector changes the summary of a photo and its latest result.
LEMMA SummaryStep ==
    ASSUME TypeOK, [Next]_vars, NEW p \in Photos
    PROVE  \/ Collect(p)
           \/ /\ row'[p].summary = row[p].summary
              /\ last'[p].score = last[p].score /\ last'[p].overtaken = last[p].overtaken
<1> DEFINE same == /\ row'[p].summary = row[p].summary
                   /\ last'[p].score = last[p].score /\ last'[p].overtaken = last[p].overtaken
<1>1. CASE UNCHANGED <<row, last>>
  BY <1>1
<1>2. ASSUME NEW q \in Photos, Import(q) \/ Decide(q)
      PROVE  same
  BY <1>2, ImportStep, DecideStep
<1>3. ASSUME NEW q \in Photos, Collect(q)
      PROVE  Collect(p) \/ same
  BY <1>3, CollectStep
<1>4. ASSUME Finish \/ SaveAll
      PROVE  same
  BY <1>4, FinishStep, SaveAllStep
<1>5. QED
  BY <1>1, <1>2, <1>3, <1>4
     DEF Next, vars, WriteFile, Look, Measure, Fail, SaveProfile, Load, Abort, ReadAll,
         AnalyzeCommand, DecisionsCommand, Read, GiveUp, Restart

LEMMA TimesStep == TypeOK /\ TimesInv /\ CacheInv /\ [Next]_vars => TimesInv'
<1> SUFFICES ASSUME TypeOK, TimesInv, CacheInv, [Next]_vars, NEW p \in Photos
             PROVE  /\ row'[p].summary.at <= now'
                    /\ \A m \in Times : Known(p, m)' => m <= disk'[p]
  BY DEF TimesInv
<1>1. /\ now \in Nat /\ now' \in Nat /\ now' >= now /\ row[p].summary.at \in Nat
      /\ disk[p] \in Nat /\ disk[p] <= now
      /\ disk'[p] = disk[p] \/ (disk'[p] = now + 1 /\ now' = now + 1)
  BY Monotone DEF TypeOK, Row, Summary, Times, CacheInv
<1>2. row'[p].summary.at <= now'
  <2>1. row[p].summary.at <= now
    BY DEF TimesInv
  <2>2. row'[p].summary.at = row[p].summary.at \/ row'[p].summary.at = now
    BY SummaryStep, CollectStep
  <2>3. QED
    BY <1>1, <2>1, <2>2
<1>3. ASSUME NEW m \in Times, Known(p, m)'
      PROVE  m <= disk'[p]
  <2>1. m \in Nat
    BY DEF Times
  <2>2. CASE Known(p, m)
    <3>1. m <= disk[p]
      BY <2>2 DEF TimesInv
    <3>2. QED
      BY <1>1, <2>1, <3>1
  <2>3. CASE m = now + 1 /\ disk'[p] = now + 1
    BY <1>1, <2>3
  <2>4. QED
    BY <1>3, <2>2, <2>3, KnownStep
<1>4. QED
  BY <1>2, <1>3

\* While a result is pending, its job keeps its settings, and a change of the file is noticed.
LEMMA PendingStep ==
    ASSUME TypeOK, [Next]_vars, NEW p \in Photos, work'[p].pc \in {"looked", "measured"}
    PROVE  /\ \/ Look(p)
              \/ Measure(p)
              \/ /\ work'[p].pc = work[p].pc /\ work'[p].key = work[p].key
                 /\ work'[p].object = work[p].object
           /\ job'.settings = job.settings
           /\ Look(p) \/ work'[p].overtaken
              \/ (work'[p].overtaken = work[p].overtaken /\ disk'[p] = disk[p])
<1> DEFINE same == /\ work'[p].pc = work[p].pc /\ work'[p].key = work[p].key
                   /\ work'[p].object = work[p].object
           goal == /\ Look(p) \/ Measure(p) \/ same
                   /\ job'.settings = job.settings
                   /\ Look(p) \/ work'[p].overtaken
                      \/ (work'[p].overtaken = work[p].overtaken /\ disk'[p] = disk[p])
<1>1. CASE UNCHANGED <<disk, work, job>>
  BY <1>1
<1>2. ASSUME NEW q \in Photos, WriteFile(q)
      PROVE  goal
  <2>1. same /\ UNCHANGED job
    BY <1>2, WriteFileStep
  <2>2. CASE p = q
    BY <1>2, <2>1, <2>2, WriteFileStep
  <2>3. CASE p # q
    <3>1. work'[p] = work[p] /\ disk'[p] = disk[p]
      BY <1>2, <2>3, WriteFileStep DEF TypeOK
    <3>2. QED
      BY <2>1, <3>1
  <2>4. QED
    BY <2>2, <2>3
<1>3. ASSUME NEW q \in Photos, Import(q) \/ Decide(q)
      PROVE  goal
  BY <1>3, ImportStep, DecideStep
<1>4. ASSUME NEW q \in Photos, Look(q)
      PROVE  goal
  BY <1>4, LookStep
<1>5. ASSUME NEW q \in Photos, Measure(q)
      PROVE  goal
  BY <1>5, MeasuredStep
<1>6. ASSUME NEW q \in Photos, Fail(q)
      PROVE  goal
  BY <1>6, FailStep
<1>7. ASSUME NEW q \in Photos, Collect(q)
      PROVE  goal
  BY <1>7, CollectStep
<1>8. ASSUME NEW photos \in SUBSET Photos, NEW also \in SUBSET Photos, Load(photos, also)
      PROVE  FALSE
  BY <1>8, LoadStep
<1>9. ASSUME SaveAll
      PROVE  goal
  BY <1>9, SaveAllStep
<1>10. ~(Finish \/ Abort \/ Restart)
  BY RecordsType DEF Finish, Abort, Restart
<1>11. QED
  BY <1>1, <1>2, <1>3, <1>4, <1>5, <1>6, <1>7, <1>8, <1>9, <1>10
     DEF Next, vars, SaveProfile, ReadAll, AnalyzeCommand, DecisionsCommand, Read, GiveUp

LEMMA CurrentStep == TypeOK /\ CurrentInv /\ CacheInv /\ [Next]_vars => CurrentInv'
<1> SUFFICES ASSUME TypeOK, CurrentInv, CacheInv, [Next]_vars, NEW p \in Photos
             PROVE  /\ work'[p].pc = "measured" => work'[p].object.score.settings = job'.settings
                    /\ ~Legacy(p)' /\ ~work'[p].overtaken =>
                          /\ work'[p].pc = "looked" => work'[p].key = disk'[p]
                          /\ work'[p].pc = "measured" => work'[p].object.score.content = disk'[p]
  BY DEF CurrentInv
<1>1. ASSUME work'[p].pc = "measured"
      PROVE  work'[p].object.score.settings = job'.settings
  <2>1. job'.settings = job.settings /\ (Measure(p) \/ (work[p].pc = "measured"
                                                    /\ work'[p].object = work[p].object))
    BY <1>1, PendingStep, LookStep
  <2>2. QED
    BY <2>1, MeasuredStep DEF CurrentInv
<1>2. ASSUME ~Legacy(p), ~work'[p].overtaken, work'[p].pc = "looked"
      PROVE  work'[p].key = disk'[p]
  <2>1. CASE Look(p)
    BY <2>1, LookStep
  <2>2. CASE ~Look(p)
    <3>1. /\ work[p].pc = "looked" /\ work'[p].key = work[p].key
          /\ ~work[p].overtaken /\ disk'[p] = disk[p]
      BY <1>2, <2>2, PendingStep, MeasuredStep
    <3>2. QED
      BY <1>2, <3>1 DEF CurrentInv
  <2>3. QED
    BY <2>1, <2>2
<1>3. ASSUME ~Legacy(p), ~work'[p].overtaken, work'[p].pc = "measured"
      PROVE  work'[p].object.score.content = disk'[p]
  <2>1. ~work[p].overtaken /\ disk'[p] = disk[p]
    BY <1>3, PendingStep, LookStep
  <2>2. CASE Measure(p)
    <3>1. work[p].key = disk[p] /\ Yields(p, work'[p].object.score.content)
      BY <1>3, <2>1, <2>2, MeasuredStep DEF CurrentInv
    <3>2. CASE Found(p) = {}
      BY <2>1, <3>1, <3>2 DEF Yields
    <3>3. CASE Found(p) # {}
      <4>1. PICK f \in Found(p) : work'[p].object.score.content = f.content
        BY <3>1, <3>3 DEF Yields
      <4>2. f \in cache /\ f.photo = p /\ f.key = work[p].key
        BY <1>3, FoundIsOfKey
      <4>3. f.content \in disk[p]..disk[p]
        BY <1>3, <3>1, <4>2 DEF CacheInv, CacheNotOlder
      <4>4. QED
        BY <2>1, <4>1, <4>3 DEF TypeOK
    <3>4. QED
      BY <3>2, <3>3
  <2>3. CASE ~Measure(p)
    <3>1. work[p].pc = "measured" /\ work'[p].object = work[p].object
      BY <1>3, <2>3, PendingStep, LookStep
    <3>2. QED
      BY <1>3, <2>1, <3>1 DEF CurrentInv
  <2>4. QED
    BY <2>2, <2>3
<1>4. Legacy(p)' <=> Legacy(p)
  BY LegacyConstant
<1>5. QED
  BY <1>1, <1>2, <1>3, <1>4

LEMMA ContentStep ==
    TypeOK /\ CacheInv /\ TimesInv /\ CurrentInv /\ ContentInv /\ [Next]_vars => ContentInv'
<1> SUFFICES ASSUME TypeOK, CacheInv, TimesInv, CurrentInv, ContentInv, [Next]_vars,
                    NEW p \in Photos, ~Legacy(p)', row'[p].summary.settings # None
             PROVE  /\ last'[p].score.settings = row'[p].summary.settings
                    /\ ~last'[p].overtaken =>
                          \A m \in Times : Known(p, m)' =>
                             m <= last'[p].score.content \/ m > row'[p].summary.at
  BY DEF ContentInv
<1>1. ~Legacy(p)
  BY LegacyConstant
<1>2. CASE Collect(p)
  <2>1. last'[p].score.settings = row'[p].summary.settings
    BY <1>2, CollectStep DEF CurrentInv
  <2>2. ASSUME ~last'[p].overtaken, NEW m \in Times, Known(p, m)'
        PROVE  m <= last'[p].score.content
    <3>1. last'[p].score.content = disk[p]
      BY <1>1, <1>2, <2>2, CollectStep DEF CurrentInv
    <3>2. disk'[p] = disk[p] /\ disk[p] \in Nat /\ now \in Nat /\ disk[p] <= now
      BY <1>2, CollectStep DEF TypeOK, CacheInv
    <3>3. Known(p, m)
      BY <2>2, <3>2, KnownStep
    <3>4. m <= disk[p]
      BY <3>3 DEF TimesInv
    <3>5. QED
      BY <3>1, <3>4
  <2>3. QED
    BY <2>1, <2>2
<1>3. CASE ~Collect(p)
  <2>1. /\ row'[p].summary = row[p].summary
        /\ last'[p].score = last[p].score /\ last'[p].overtaken = last[p].overtaken
    BY <1>3, SummaryStep
  <2>2. last[p].score.settings = row[p].summary.settings
    BY <1>1, <2>1 DEF ContentInv
  <2>3. ASSUME ~last[p].overtaken, NEW m \in Times, Known(p, m)'
        PROVE  m <= last[p].score.content \/ m > row[p].summary.at
    <3>1. CASE Known(p, m)
      BY <1>1, <2>1, <2>3, <3>1 DEF ContentInv
    <3>2. CASE m = now + 1
      <4>1. row[p].summary.at <= now /\ row[p].summary.at \in Nat /\ now \in Nat
        BY DEF TimesInv, TypeOK, Row, Summary, Times
      <4>2. QED
        BY <3>2, <4>1
    <3>3. QED
      BY <2>3, <3>1, <3>2, KnownStep
  <2>4. QED
    BY <2>1, <2>2, <2>3
<1>4. QED
  BY <1>2, <1>3

LEMMA ScoreStep == TypeOK /\ ScoreInv /\ [Next]_vars => ScoreInv'
<1> SUFFICES ASSUME TypeOK, ScoreInv, [Next]_vars, NEW p \in Photos
             PROVE  /\ ScoreIs(p)'
                    /\ InJob(p)' /\ p \notin job'.stale /\ work'[p].pc # "measured" =>
                          work'[p].object.score = row'[p].score
                    /\ group'.on /\ p \in group'.scored => group'.object[p].score.settings = None
  BY DEF ScoreInv
<1> DEFINE job_saves == InJob(p)' /\ p \notin job'.stale /\ work'[p].pc # "measured" =>
                           work'[p].object.score = row'[p].score
           saves == group'.on /\ p \in group'.scored => group'.object[p].score.settings = None
           goal == ScoreIs(p)' /\ job_saves /\ saves
<1>0. /\ ScoreIs(p)
      /\ InJob(p) /\ p \notin job.stale /\ work[p].pc # "measured" =>
            work[p].object.score = row[p].score
      /\ group.on /\ p \in group.scored => group.object[p].score.settings = None
  BY DEF ScoreInv
<1>1. CASE UNCHANGED <<row, job, work, last, group>>
  BY <1>0, <1>1 DEF InJob, ScoreIs
<1>2. ASSUME NEW q \in Photos, WriteFile(q)
      PROVE  goal
  BY <1>0, <1>2, WriteFileStep DEF InJob, ScoreIs
<1>3. ASSUME NEW q \in Photos, Import(q)
      PROVE  goal
  <2>1. CASE p = q
    <3>1. row'[p].score = Unscored /\ Unscored.settings = None
      BY <1>3, <2>1, ImportStep, RecordsType
    <3>2. ScoreIs(p)'
      BY <3>1 DEF ScoreIs
    <3>3. job_saves
      BY <1>3, <2>1, ImportStep DEF InJob
    <3>4. saves
      BY <1>0, <1>3, ImportStep DEF SameGroup
    <3>5. QED
      BY <3>2, <3>3, <3>4
  <2>2. CASE p # q
    <3>1. row'[p] = row[p] /\ last'[p] = last[p]
      BY <1>3, <2>2, ImportStep
    <3>2. ScoreIs(p)'
      BY <1>0, <3>1 DEF ScoreIs
    <3>3. job_saves
      BY <1>0, <1>3, <3>1, ImportStep DEF InJob
    <3>4. saves
      BY <1>0, <1>3, ImportStep DEF SameGroup
    <3>5. QED
      BY <3>2, <3>3, <3>4
  <2>3. QED
    BY <2>1, <2>2
<1>4. ASSUME NEW q \in Photos, Decide(q)
      PROVE  goal
  BY <1>0, <1>4, DecideStep DEF InJob, ScoreIs, SameGroup
<1>5. ASSUME NEW q \in Photos, Look(q)
      PROVE  goal
  BY <1>0, <1>5, LookStep DEF InJob, ScoreIs
<1>6. ASSUME NEW q \in Photos, Measure(q)
      PROVE  goal
  BY <1>0, <1>6, MeasuredStep DEF InJob, ScoreIs
<1>7. ASSUME NEW q \in Photos, Fail(q)
      PROVE  goal
  BY <1>0, <1>7, FailStep DEF InJob, ScoreIs
<1>8. ASSUME NEW q \in Photos, Collect(q)
      PROVE  goal
  <2>1. CASE p = q
    BY <1>0, <1>8, <2>1, CollectStep DEF ScoreIs, SameGroup
  <2>2. CASE p # q
    BY <1>0, <1>8, <2>2, CollectStep DEF InJob, ScoreIs, SameGroup
  <2>3. QED
    BY <2>1, <2>2
<1>9. ASSUME NEW photos \in SUBSET Photos, NEW also \in SUBSET Photos, Load(photos, also)
      PROVE  goal
  BY <1>0, <1>9, LoadStep DEF InJob, ScoreIs
<1>10. ASSUME Finish
       PROVE  goal
  <2>1. saves /\ job_saves
    BY <1>0, <1>10, FinishStep, RecordsType DEF InJob, SameGroup
  <2>2. ScoreIs(p)'
    BY <1>0, <1>10, FinishStep DEF ScoreIs
  <2>3. QED
    BY <2>1, <2>2
<1>11. ASSUME SaveAll
       PROVE  goal
  <2>1. CASE row'[p].score = row[p].score /\ (last'[p].replaced <=> last[p].replaced)
    BY <1>0, <1>11, <2>1, SaveAllStep DEF InJob, ScoreIs
  <2>2. CASE /\ \/ last'[p].replaced
                \/ p \in group.scored /\ row'[p].score = group.object[p].score
             /\ job.on => p \in job'.stale
    BY <1>0, <1>11, <2>2, SaveAllStep DEF InJob, ScoreIs
  <2>3. QED
    BY <1>11, <2>1, <2>2, SaveAllStep
<1>12. ASSUME \/ ReadAll
              \/ \E photos \in SUBSET Photos : \E judged, scored \in Parts(photos) :
                    AnalyzeCommand(photos, judged, scored) \/ DecisionsCommand(photos, judged)
       PROVE  goal
  <2>1. PICK object \in [Photos -> Row], photos \in SUBSET Photos, scored \in SUBSET Photos :
          /\ Begun(object, photos, scored) /\ scored \subseteq photos
          /\ \A q \in scored : object[q].score.settings = None
    BY <1>12, ReadStep
  <2>2. QED
    BY <1>0, <2>1 DEF Begun, InJob, ScoreIs
<1>13. ASSUME Abort \/ Restart \/ GiveUp
       PROVE  goal
  BY <1>0, <1>13, RecordsType DEF Abort, Restart, GiveUp, InJob, ScoreIs
<1>14. QED
  BY <1>1, <1>2, <1>3, <1>4, <1>5, <1>6, <1>7, <1>8, <1>9, <1>10, <1>11, <1>12, <1>13
     DEF Next, vars, SaveProfile

LEMMA RemainingInit == Init => RemainingInv
<1> SUFFICES ASSUME Init
             PROVE  RemainingInv
  OBVIOUS
<1>1. \A p \in Photos : row[p] = [mtime |-> 1, decision |-> "none", score |-> Unscored,
                                   summary |-> NoSummary]
  BY DEF Init, ImportedRow
<1>2. ~job.on /\ ~group.on /\ \A p \in Photos : work[p].pc = "out"
  BY RecordsType DEF Init
<1>3. TimesInv
  BY <1>1, <1>2 DEF TimesInv, Known, InJob, Init, NoSummary
<1>4. CurrentInv
  BY <1>2 DEF CurrentInv
<1>5. ContentInv
  BY <1>1 DEF ContentInv, NoSummary
<1>6. ScoreInv
  BY <1>1, <1>2, RecordsType DEF ScoreInv, ScoreIs, InJob
<1>7. QED
  BY <1>3, <1>4, <1>5, <1>6 DEF RemainingInv

\* An analysis of the remaining photos passes over a photo only if it was collected with
\* these settings from a file at least as new as the one in the catalog, or a file that
\* was written while it was measured (_needs_analysis, run_image, _run_analysis); its score
\* is that result unless an import, the analyze command or a save of an older object has
\* replaced it.
THEOREM RemainingCorrect == Spec => []RemainingIsRight
<1>1. TypeOK /\ CacheInv /\ RemainingInv /\ [Next]_vars => RemainingInv'
  BY TimesStep, CurrentStep, ContentStep, ScoreStep DEF RemainingInv
<1>2. Spec => []RemainingInv
  BY <1>1, RemainingInit, CacheInvariance, PTL DEF Spec
<1>3. QED
  BY <1>2, TypeCorrect, RemainingInvImplies, PTL

==============================================================================
