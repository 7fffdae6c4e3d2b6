------------------------------- MODULE Catalog -------------------------------
(***************************************************************************)
(* Who writes what about a photo, and whether it is up to date: the        *)
(* analysis job, the metric cache, the analysis profile, imports, the      *)
(* similarity grouping, the commands of the command line and the user's    *)
(* decisions over one catalog.                                             *)
(*                                                                         *)
(* PhotoRepository.save_photo writes all columns of a photo from an object *)
(* that was read earlier, but for the summary of its analysis. A decision  *)
(* of the user reads and writes at once. The content of a file is the time *)
(* at which it was written; measuring yields the content. Who made a       *)
(* decision stands for the decision. Groups are the subject of Culling,    *)
(* the threads of the job of AnalysisJobs.                                 *)
(*                                                                         *)
(* At most one grouping request or command is under way at a time (a       *)
(* bound), and a command measures its photos when it reads them.           *)
(***************************************************************************)
EXTENDS Integers, FiniteSets

CONSTANTS
    Photos,
    Settings, DefaultSettings,  \* what a profile may be; its fingerprint
    None,
    Alike,     \* bound: the photos of a command fare alike
    MaxTime,   \* bound: the time of the last change of a file
    MaxEvents  \* bound: changes of files, imports, decisions, requests, restarts

ASSUME SettingsAssumption == DefaultSettings \in Settings /\ None \notin Settings
ASSUME BoundAssumption == MaxTime \in Nat \ {0} /\ MaxEvents \in Nat

VARIABLES
    events,   \* how many events there were
    now,      \* the time of the latest change of a file
    disk,     \* when the file of each photo was written
    row,      \* the row of each photo, its file and its analysis summary
    cache,    \* MetricCache
    profile,  \* the profile in memory
    saved,    \* the profile in its file
    job,      \* the analysis job
    work,     \* what the job does with each photo
    group,    \* a grouping request or a command, between its reads and its saves
    last      \* history: the latest collected result of each photo

vars == <<events, now, disk, row, cache, profile, saved, job, work, group, last>>

Times == 0..MaxTime
Score == [content : Times, settings : Settings \cup {None}]
Unscored == [content |-> 0, settings |-> None]
\* The analyze command has weights of its own. Its results in the metric cache are kept by
\* the photo alone, so that it gives a photo one score for ever: that of its first state.
CommandScore == [content |-> 1, settings |-> None]
Summary == [settings : Settings \cup {None}, at : Times]
NoSummary == [settings |-> None, at |-> 0]
Row == [mtime : Times, decision : {"none", "rules", "user"}, score : Score, summary : Summary]
ImportedRow(p) == [mtime |-> disk[p], decision |-> "none", score |-> Unscored, summary |-> NoSummary]

\* The results kept for a state of a file; those of an older version of the program are
\* kept under the fingerprint of the default settings, for any state (key 0).
Entry == [photo : Photos, key : Times, content : Times]

\* stale: photos that others have written since the job or the request read them.
Job == [on : BOOLEAN, settings : Settings, photos : SUBSET Photos, also : SUBSET Photos,
        stale : SUBSET Photos]
NoJob == [on |-> FALSE, settings |-> DefaultSettings, photos |-> {}, also |-> {}, stale |-> {}]
\* overtaken: the file was written after the job looked at it.
Work == [pc : {"out", "queued", "looked", "measured", "failed", "saved"}, key : Times,
         object : Row, overtaken : BOOLEAN]
NoWork == [pc |-> "out", key |-> 0, object |-> [mtime |-> 0, decision |-> "none",
           score |-> Unscored, summary |-> NoSummary], overtaken |-> FALSE]
\* photos: those it saves; judged, scored: those whose decision or score it has changed.
Group == {g \in [on : BOOLEAN, object : [Photos -> Row], photos : SUBSET Photos,
                 judged : SUBSET Photos, scored : SUBSET Photos, stale : SUBSET Photos] :
            g.stale \subseteq g.photos}
NoGroup == [on |-> FALSE, object |-> [p \in Photos |-> NoWork.object], photos |-> {},
            judged |-> {}, scored |-> {}, stale |-> {}]

Legacy(p) == \E e \in cache : e.photo = p /\ e.key = 0

Init ==
    /\ events = 0 /\ now = 1 /\ disk = [p \in Photos |-> 1]
    /\ row = [p \in Photos |-> ImportedRow(p)]
    /\ \E legacy \in SUBSET Photos :
          cache = {[photo |-> p, key |-> 0, content |-> 0] : p \in legacy}
    /\ profile = DefaultSettings /\ saved = DefaultSettings
    /\ job = NoJob /\ work = [p \in Photos |-> NoWork] /\ group = NoGroup
    /\ last = [p \in Photos |-> [score |-> Unscored, overtaken |-> FALSE, replaced |-> FALSE]]

\* save_photo: all columns of the object; the summary is not one of them.
Saved(r, object) == [object EXCEPT !.summary = r.summary]
Event == events < MaxEvents /\ events' = events + 1
TouchJob(S) == [job EXCEPT !.stale = IF job.on THEN @ \cup S ELSE @]
TouchGroup(S) == [group EXCEPT !.stale = IF group.on THEN @ \cup (S \cap group.photos) ELSE @]

-----------------------------------------------------------------------------
(* Files, imports, decisions, the profile.                                 *)

WriteFile(p) ==
    /\ Event
    /\ now < MaxTime
    /\ now' = now + 1 /\ disk' = [disk EXCEPT ![p] = now + 1]
    /\ work' = [work EXCEPT ![p].overtaken = @ \/ work[p].pc \in {"looked", "measured"}]
    /\ UNCHANGED <<row, cache, profile, saved, job, group, last>>

\* _import_photos, and the scan command, save a new object with the defaults over the row.
Import(p) ==
    /\ Event
    /\ row' = [row EXCEPT ![p] = Saved(@, ImportedRow(p))]
    /\ job' = TouchJob({p}) /\ group' = TouchGroup({p})
    /\ last' = [last EXCEPT ![p].replaced = FALSE]
    /\ UNCHANGED <<now, disk, cache, profile, saved, work>>

\* DecisionService.set_decision.
Decide(p) ==
    /\ Event
    /\ row' = [row EXCEPT ![p].decision = "user"]
    /\ job' = TouchJob({p}) /\ group' = TouchGroup({p})
    /\ UNCHANGED <<now, disk, cache, profile, saved, work, last>>

\* save and restore change the memory first; writing the file may fail.
SaveProfile(s) ==
    /\ Event
    /\ profile' = s
    /\ saved' \in {s, saved}
    /\ UNCHANGED <<now, disk, row, cache, job, work, group, last>>

\* The end of the server ends a request; a command has a process of its own.
Restart ==
    /\ Event
    /\ profile' = saved
    /\ job' = NoJob /\ work' = [p \in Photos |-> NoWork] /\ group' \in {group, NoGroup}
    /\ UNCHANGED <<now, disk, row, cache, saved, last>>

-----------------------------------------------------------------------------
(* The analysis job.                                                       *)

\* _needs_analysis.
Needs(r, s) == r.summary.settings # s \/ r.mtime > r.summary.at
Remaining(s) == {p \in Photos : Needs(row[p], s)}

\* The photos to analyze, all or the remaining ones, and their siblings of the same groups;
\* the profile is the one of the request.
Load(photos, also) ==
    /\ Event
    /\ ~job.on /\ photos # {}
    /\ \/ photos = Photos /\ also = {}
       \/ photos = Remaining(profile) /\ also \subseteq Photos \ photos
    /\ job' = [on |-> TRUE, settings |-> profile, photos |-> photos, also |-> also, stale |-> {}]
    /\ work' = [p \in Photos |->
                  [NoWork EXCEPT !.pc = IF p \in photos THEN "queued" ELSE "out",
                                 !.object = IF p \in photos \cup also THEN row[p] ELSE @]]
    /\ UNCHANGED <<now, disk, row, cache, profile, saved, group, last>>

\* The key of the cache is the file's state when its worker looked at it.
Look(p) ==
    /\ work[p].pc = "queued"
    /\ work' = [work EXCEPT ![p].pc = "looked", ![p].key = disk[p]]
    /\ UNCHANGED <<events, now, disk, row, cache, profile, saved, job, group, last>>

\* Mutant: results are kept for a photo whatever its file holds.
LookupAny(p, key) == {e \in cache : e.photo = p}
\* The entry of the key, or else one of an older version under these settings.
Lookup(p, key) ==
    LET found == {e \in cache : e.photo = p /\ e.key = key}
    IN  IF found # {} \/ job.settings # DefaultSettings THEN found
        ELSE {e \in cache : e.photo = p /\ e.key = 0}

\* run_image: a found result, kept under the key as well, or that of reading the file,
\* which is not kept if it is an error.
Measure(p) ==
    /\ work[p].pc = "looked"
    /\ LET found == Lookup(p, work[p].key)
           contents == IF found = {} THEN {disk[p]} ELSE {e.content : e \in found}
       IN  \E c \in contents :
             /\ \/ cache' = cache \cup {[photo |-> p, key |-> work[p].key, content |-> c]}
                \/ found = {} /\ cache' = cache
             /\ work' = [work EXCEPT ![p].pc = "measured", ![p].key = 0,
                                     ![p].object.score = [content |-> c, settings |-> job.settings]]
    /\ UNCHANGED <<events, now, disk, row, profile, saved, job, group, last>>

\* No readable file, or an exception.
Fail(p) ==
    /\ work[p].pc \in {"queued", "looked"}
    /\ work' = [work EXCEPT ![p] = [NoWork EXCEPT !.pc = "failed", !.object = work[p].object]]
    /\ UNCHANGED <<events, now, disk, row, cache, profile, saved, job, group, last>>

\* Mutant: the summary names the profile of the moment.
CurrentSummary(p) == [settings |-> profile, at |-> now]
CollectedSummary(p) == [settings |-> job.settings, at |-> now]

\* The result is stored with a provisional decision.
Collect(p) ==
    /\ work[p].pc = "measured"
    /\ LET object == [work[p].object EXCEPT !.decision = "rules"]
       IN  /\ row' = [row EXCEPT ![p] = [object EXCEPT !.summary = CollectedSummary(p)]]
           /\ work' = [work EXCEPT ![p] = [NoWork EXCEPT !.pc = "saved", !.object = object]]
           /\ last' = [last EXCEPT ![p] = [score |-> object.score, overtaken |-> work[p].overtaken,
                                           replaced |-> FALSE]]
    /\ job' = [job EXCEPT !.stale = @ \ {p}]
    /\ group' = TouchGroup({p})
    /\ UNCHANGED <<events, now, disk, cache, profile, saved>>

\* The final pass judges all photos of the job and their siblings, whatever became of them.
Finish ==
    LET all == job.photos \cup job.also
    IN  /\ job.on /\ \A p \in job.photos : work[p].pc \in {"saved", "failed"}
        /\ row' = [p \in Photos |->
                     IF p \in all THEN Saved(row[p], [work[p].object EXCEPT !.decision = "rules"])
                     ELSE row[p]]
        /\ last' = [p \in Photos |->
                      [last[p] EXCEPT !.replaced = @ \/ p \in all \cap job.stale]]
        /\ job' = NoJob /\ work' = [p \in Photos |-> NoWork]
        /\ group' = TouchGroup(all)
        /\ UNCHANGED <<events, now, disk, cache, profile, saved>>

\* Mutant: the pool of the job is not waited for.
AbortOnly == job.on /\ job' = NoJob /\ UNCHANGED <<events, now, disk, row, cache, profile, saved, work, group, last>>
\* A cancellation or an exception.
Abort ==
    /\ job.on
    /\ job' = NoJob /\ work' = [p \in Photos |-> NoWork]
    /\ UNCHANGED <<events, now, disk, row, cache, profile, saved, group, last>>

-----------------------------------------------------------------------------
(* The similarity grouping and the commands: what they read, and then save. *)

Read(object, photos, judged, scored) ==
    /\ Event
    /\ ~group.on
    /\ group' = [on |-> TRUE, photos |-> photos, judged |-> judged, scored |-> scored, stale |-> {},
                 object |-> [p \in Photos |-> IF p \in photos THEN object[p] ELSE NoWork.object]]
    /\ UNCHANGED <<now, disk, row, cache, profile, saved, job, work, last>>

\* group_similar_photos and the commands group and bursts.
ReadAll == Read(row, Photos, {}, {})

\* The photos of a command that may get another decision, and those that may get a score.
Parts(photos) == IF Alike THEN {{}, photos} ELSE SUBSET photos

\* The analyze command judges photos by the rules, and scores those whose file it finds.
\* Judged and scored are those with another decision, or score, than before. It writes no
\* summary.
AnalyzeCommand(photos, judged, scored) ==
    /\ photos # {} /\ \A p \in photos \ judged : row[p].decision # "none"
    /\ \A p \in scored : row[p].score # CommandScore
    /\ Read([p \in Photos |->
               [row[p] EXCEPT !.decision = IF p \in judged THEN "rules" ELSE @,
                              !.score = IF p \in scored THEN CommandScore ELSE @]],
            photos, judged, scored)

\* The decisions command: one decision of the user for many photos.
DecisionsCommand(photos, judged) ==
    /\ photos # {}
    /\ Read([p \in Photos |-> [row[p] EXCEPT !.decision = IF p \in judged THEN "user" ELSE @]],
            photos, judged, {})

\* Mutant: the photos are judged again.
RegroupedByRules(p, whole) == [Saved(row[p], group.object[p]) EXCEPT !.decision = "rules"]
\* Only what differs from the row is written. Which row: the one that was read, if its
\* object still lives in the session, or the one that is there now.
Regrouped(p, whole) ==
    IF p \in whole THEN Saved(row[p], group.object[p])
    ELSE [row[p] EXCEPT
            !.decision = IF p \in group.judged THEN group.object[p].decision ELSE @,
            !.score = IF p \in group.scored THEN group.object[p].score ELSE @]

SaveAll ==
    /\ group.on
    /\ \E whole \in SUBSET group.stale :
        /\ row' = [p \in Photos |-> Regrouped(p, whole)]
        /\ last' = [p \in Photos |-> [last[p] EXCEPT !.replaced = @ \/ p \in whole \ group.scored]]
        /\ job' = TouchJob(whole \cup group.judged \cup group.scored)
    /\ group' = NoGroup
    /\ UNCHANGED <<events, now, disk, cache, profile, saved, work>>

\* An exception, or the end of the command: nothing is saved.
GiveUp ==
    /\ group.on /\ group' = NoGroup
    /\ UNCHANGED <<events, now, disk, row, cache, profile, saved, job, work, last>>

Next ==
    \/ \E p \in Photos :
        \/ WriteFile(p) \/ Import(p) \/ Decide(p)
        \/ Look(p) \/ Measure(p) \/ Fail(p) \/ Collect(p)
    \/ \E s \in Settings : SaveProfile(s)
    \/ \E photos, also \in SUBSET Photos : Load(photos, also)
    \/ \E photos \in SUBSET Photos : \E judged, scored \in Parts(photos) :
        \/ AnalyzeCommand(photos, judged, scored)
        \/ DecisionsCommand(photos, judged)
    \/ Finish \/ Abort \/ ReadAll \/ SaveAll \/ GiveUp \/ Restart

Spec == Init /\ [][Next]_vars
-----------------------------------------------------------------------------
(* Properties.                                                             *)

\* Every variable has its type, and a photo is worked on only by a job that runs.
TypeOK ==
    /\ events \in 0..MaxEvents /\ now \in 1..MaxTime /\ disk \in [Photos -> 1..MaxTime]
    /\ row \in [Photos -> Row]
    /\ cache \subseteq Entry
    /\ profile \in Settings /\ saved \in Settings
    /\ job \in Job /\ work \in [Photos -> Work] /\ group \in Group
    /\ \A p \in Photos : work[p].pc # "out" => job.on /\ p \in job.photos
    /\ last \in [Photos -> [score : Score, overtaken : BOOLEAN, replaced : BOOLEAN]]

\* An analysis of the remaining photos passes over a photo only if it was collected with
\* these settings, from a file at least as new as the one in the catalog; a file that was
\* written between the worker's look and the stamp of the result is passed over as well.
\* The score in its row is then that result, but for three cases: an import has put the
\* default in its place, the analyze command a score by its own weights, which are no
\* profile's, or an overlapping save of older objects an older score.
RemainingIsRight ==
    \A p \in Photos, s \in Settings : ~Legacy(p) /\ ~Needs(row[p], s) =>
        /\ last[p].score.settings = s
        /\ last[p].overtaken \/ last[p].score.content >= row[p].mtime
        /\ \/ row[p].score = last[p].score
           \/ last[p].replaced \/ row[p].score.settings = None

\* The result under a key is that of the file in the state of the key, or of a later one
\* if it was written meanwhile: never of an earlier one, nor of one that is still to come.
CacheNotOlder ==
    \A e \in cache : ~Legacy(e.photo) => e.content \in e.key..disk[e.photo]

\* A decision of the user is replaced only by an import of the photo, by an analysis or an
\* analyze command that was asked to judge it or a sibling, or by a grouping or a command
\* that had read the photo before. A grouping by itself changes none.
DecisionsKept ==
    [][\A p \in Photos : row[p].decision = "user" /\ row'[p].decision # "user" =>
        \/ row'[p] = Saved(row[p], ImportedRow(p))
        \/ job.on /\ p \in job.photos \cup job.also /\ work' # work
        \/ group.on /\ ~group'.on /\ p \in group.stale \cup group.judged]_vars
=============================================================================
