------------------------------ MODULE Reconcile ------------------------------
(***************************************************************************)
(* What the imports of one source folder make of the catalog:              *)
(* photo_culler/importing/service.py with the scanner, the pairer and      *)
(* PhotoRepository.save_photo.                                             *)
(*                                                                         *)
(* A job visits the files at different moments, groups what it found into  *)
(* photos, imports each photo in a session of its own and at the end marks *)
(* the files it has not seen as missing. The folder may change or become   *)
(* unavailable at any time, jobs may overlap, stop and be resumed. Threads *)
(* and the control of jobs are the subject of ImportJobs; here a session   *)
(* is one step.                                                            *)
(*                                                                         *)
(* Size, modification time and hash of a file are its content. A photo is  *)
(* named by what its identity is computed from, the stem of its files; it  *)
(* exists while it has rows. The counters of a revision, the status of the *)
(* source and the attributes of a photo are left out.                      *)
(***************************************************************************)
EXTENDS Integers, FiniteSets

CONSTANTS
    Paths,       \* the supported files that the folder may hold
    Stems,
    StemOf,      \* the stem of each path, in lower case
    Raw,         \* the paths of RAW files
    Contents,
    Hashed,      \* the contents of files that can be read
    Absent,      \* of a path that is not in the folder
    Jobs,        \* import jobs; each has a scan revision of its own
    MaxLive,     \* bound: jobs that have started and not ended
    MaxChanges,  \* bound: changes and outages of the folder
    MaxResumes   \* bound: how often jobs are interrupted and resumed

ASSUME StemAssumption == StemOf \in [Paths -> Stems]
ASSUME FileAssumption ==
    IsFiniteSet(Paths) /\ Raw \subseteq Paths /\ Hashed \subseteq Contents /\ Absent \notin Contents
ASSUME BoundAssumption == MaxLive \in Nat /\ MaxChanges \in Nat /\ MaxResumes \in Nat

VARIABLES
    folder,    \* the content of each path
    plugged,   \* whether the folder is available
    changes,   \* how often the folder has changed or gone
    resumes,   \* how often a job was interrupted
    files,     \* the rows of FileDB of the source
    job        \* the import jobs

vars == <<folder, plugged, changes, resumes, files, job>>

FileStatus == {"present", "missing", "offline"}
File == [photo : Stems, path : Paths, content : Contents, status : FileStatus, seen : Jobs]

\* A job visits (scan), imports (import), is interrupted (paused) or has ended.
\* shown: what each path has held since the scan began; found: the scan's records;
\* stems: the photos to import; undisturbed, resumed, before: history, whether nothing
\* else happened since the start, whether it was interrupted, the rows at the start.
Listing == [Paths -> Contents \cup {Absent}]
Job == [pc : {"new", "scan", "import", "paused", "ended"},
        shown : [Paths -> SUBSET (Contents \cup {Absent})], found : Listing,
        stems : SUBSET Stems, undisturbed : BOOLEAN, resumed : BOOLEAN,
        before : SUBSET File]
NothingShown == [p \in Paths |-> {}]
NothingFound == [p \in Paths |-> Absent]
NewJob == [pc |-> "new", shown |-> NothingShown, found |-> NothingFound, stems |-> {},
           undisturbed |-> FALSE, resumed |-> FALSE, before |-> {}]
EndedJob == [NewJob EXCEPT !.pc = "ended"]

Live(j) == job[j].pc \in {"scan", "import", "paused"}

Init ==
    /\ folder \in Listing /\ plugged = TRUE /\ changes = 0 /\ resumes = 0
    /\ files = {}
    /\ job = [j \in Jobs |-> NewJob]

Disturbed(j) == IF Live(j) THEN [job[j] EXCEPT !.undisturbed = FALSE, !.before = {}] ELSE job[j]
DisturbAll == job' = [j \in Jobs |-> Disturbed(j)]

\* What a scan comes across from now on; nothing in a folder that is gone.
Listed(f, available) == IF available THEN f ELSE NothingFound
Showing(j, f, available) ==
    IF job[j].pc = "scan"
    THEN [Disturbed(j) EXCEPT !.shown = [p \in Paths |-> @[p] \cup {Listed(f, available)[p]}]]
    ELSE Disturbed(j)

-----------------------------------------------------------------------------
(* The folder.                                                             *)

Change(f) ==
    /\ changes < MaxChanges
    /\ folder' = f /\ changes' = changes + 1
    /\ job' = [j \in Jobs |-> Showing(j, f, plugged)]
    /\ UNCHANGED <<plugged, resumes, files>>

Write(p, c) == folder[p] # c /\ Change([folder EXCEPT ![p] = c])
Remove(p) == folder[p] # Absent /\ Change([folder EXCEPT ![p] = Absent])
Rename(p, q) ==
    /\ folder[p] # Absent /\ p # q
    /\ Change([folder EXCEPT ![p] = Absent, ![q] = folder[p]])
Plug ==
    /\ plugged => changes < MaxChanges
    /\ plugged' = ~plugged
    /\ changes' = IF plugged THEN changes + 1 ELSE changes
    /\ job' = [j \in Jobs |-> Showing(j, folder, ~plugged)]
    /\ UNCHANGED <<folder, resumes, files>>
FolderChanges ==
    \/ Plug
    \/ \E p \in Paths : Remove(p) \/ \E c \in Contents : Write(p, c)
    \/ \E p, q \in Paths : Rename(p, q)

-----------------------------------------------------------------------------
(* Starting, scanning, interruption.                                       *)

\* start_import and, for an available folder, rescan_gallery.
StartImport(j) ==
    /\ plugged
    /\ job[j].pc = "new" /\ Cardinality({i \in Jobs : Live(i)}) < MaxLive
    /\ job' = [i \in Jobs |->
                 IF i # j THEN Disturbed(i)
                 ELSE LET alone == \A k \in Jobs : ~Live(k)
                      IN  [NewJob EXCEPT !.pc = "scan", !.shown = [p \in Paths |-> {folder[p]}],
                                         !.undisturbed = alone,
                                         !.before = IF alone THEN files ELSE {}]]
    /\ UNCHANGED <<folder, plugged, changes, resumes, files>>

\* rescan_gallery for a folder that is not available: _mark_source_offline.
MarkSourceOffline ==
    /\ ~plugged
    /\ files' = {[f EXCEPT !.status = "offline"] : f \in files}
    /\ DisturbAll
    /\ UNCHANGED <<folder, plugged, changes, resumes>>

FoundPaths(j) == {p \in Paths : job[j].found[p] # Absent}
Group(j, s) == {p \in FoundPaths(j) : StemOf[p] = s}

\* The scan is complete: each path was visited once, at some moment. pair_files makes
\* one photo of the records of one stem.
ScanAndPair(j) ==
    /\ job[j].pc = "scan"
    /\ \E found \in {l \in Listing : \A p \in Paths : l[p] \in job[j].shown[p]} :
        job' = [job EXCEPT ![j].pc = "import", ![j].shown = NothingShown, ![j].found = found,
                           ![j].stems = {StemOf[p] : p \in {q \in Paths : found[q] # Absent}}]
    /\ UNCHANGED <<folder, plugged, changes, resumes, files>>

\* A pause, a shutdown or a crash ends the worker; a cancellation or an exception the job.
Interrupt(j) ==
    /\ job[j].pc \in {"scan", "import"} /\ resumes < MaxResumes
    /\ resumes' = resumes + 1
    /\ job' = [job EXCEPT ![j].pc = "paused", ![j].shown = NothingShown,
                          ![j].found = NothingFound, ![j].stems = {}]
    /\ UNCHANGED <<folder, plugged, changes, files>>
Stop(j) ==
    /\ Live(j)
    /\ job' = [job EXCEPT ![j] = EndedJob]
    /\ UNCHANGED <<folder, plugged, changes, resumes, files>>

\* A resumed job scans afresh, with the revision it had.
Resume(j) ==
    /\ job[j].pc = "paused" /\ plugged
    /\ job' = [job EXCEPT ![j].pc = "scan", ![j].resumed = TRUE,
                          ![j].shown = [p \in Paths |-> {folder[p]}]]
    /\ UNCHANGED <<folder, plugged, changes, resumes, files>>

-----------------------------------------------------------------------------
(* Importing one photo.                                                    *)

\* The RAW file of a photo, or any other when it has none.
Primaries(group) == IF group \cap Raw # {} THEN group \cap Raw ELSE group

\* Mutant: rows of files that are still there are taken for moved ones.
SomewhereElse(j, c) == {f \in files : f.content = c /\ f.seen # j}
\* The rows of _reconcile_moved_files: same content, not seen by this revision, and a
\* path that the scan has not found.
Candidates(j, c) ==
    {f \in files : f.content = c /\ f.seen # j /\ f.path \notin FoundPaths(j)}

\* The records that take over a row: of those with one content, the first one, if there
\* is exactly one candidate.
Movers(j, group) ==
    {m \in SUBSET group : \A c \in Contents :
        LET same == {p \in group : job[j].found[p] = c}
        IN  Cardinality(m \cap same) =
                IF c \in Hashed /\ same # {} /\ Cardinality(Candidates(j, c)) = 1 THEN 1 ELSE 0}

TakenRows(j, m) == UNION {Candidates(j, job[j].found[p]) : p \in m}
MovedRows(j, m) ==
    UNION {{[f EXCEPT !.path = p, !.status = "present"] : f \in Candidates(j, job[j].found[p])} :
               p \in m}

\* Mutant: a moved photo is given a new identity.
StemIdentity(j, s, m, primary) == {s}
\* The photo that a moved primary file belonged to, or the one of the stem.
Identity(j, s, m, primary) ==
    IF primary \in m THEN {f.photo : f \in Candidates(j, job[j].found[primary])} ELSE {s}

Imported(j, photo, group) ==
    {[photo |-> photo, path |-> p, content |-> job[j].found[p], status |-> "present", seen |-> j] :
        p \in group}

\* Mutant: a file that was edited is given a second row.
KeptIfEdited(rows, j, photo, group) ==
    {f \in rows : f.photo # photo \/ f.path \notin group \/ f.content # job[j].found[f.path]}
\* save_photo looks up the rows of the photo by their path.
Kept(rows, j, photo, group) == {f \in rows : f.photo # photo \/ f.path \notin group}

Unique(rows) == \A f, g \in rows : f.photo = g.photo /\ f.path = g.path => f = g

\* The session of _import_photos for one photo. A moved row may not take the place of
\* another row of its photo: the flush fails, and with it the job.
ImportPhoto(j, s) ==
    /\ job[j].pc = "import" /\ s \in job[j].stems
    /\ LET group == Group(j, s)
       IN  \E m \in Movers(j, group), primary \in Primaries(group) :
           LET moved == (files \ TakenRows(j, m)) \cup MovedRows(j, m)
           IN  \/ /\ ~Unique(moved)
                  /\ job' = [job EXCEPT ![j] = EndedJob]
                  /\ UNCHANGED files
               \/ \E photo \in Identity(j, s, m, primary) :
                  /\ Unique(moved)
                  /\ files' = Kept(moved, j, photo, group) \cup Imported(j, photo, group)
                  /\ job' = [job EXCEPT ![j].stems = @ \ {s}]
    /\ UNCHANGED <<folder, plugged, changes, resumes>>

\* Mutant: files that were offline are left so.
MarkedIfPresent(j, f) ==
    IF f.seen # j /\ f.status = "present" THEN [f EXCEPT !.status = "missing"] ELSE f
MarkedMissing(j, f) == IF f.seen # j THEN [f EXCEPT !.status = "missing"] ELSE f

\* _complete_job.
Complete(j) ==
    /\ job[j].pc = "import" /\ job[j].stems = {}
    /\ files' = {MarkedMissing(j, f) : f \in files}
    /\ job' = [job EXCEPT ![j] = EndedJob]
    /\ UNCHANGED <<folder, plugged, changes, resumes>>

JobStep(j) ==
    \/ StartImport(j) \/ ScanAndPair(j) \/ Interrupt(j) \/ Stop(j) \/ Resume(j) \/ Complete(j)
    \/ \E s \in Stems : ImportPhoto(j, s)

Next == FolderChanges \/ MarkSourceOffline \/ \E j \in Jobs : JobStep(j)

Spec == Init /\ [][Next]_vars

-----------------------------------------------------------------------------
(* Properties.                                                             *)

\* Types; no two rows of a photo have one path.
TypeOK ==
    /\ folder \in Listing
    /\ plugged \in BOOLEAN /\ changes \in 0..MaxChanges /\ resumes \in 0..MaxResumes
    /\ files \subseteq File /\ Unique(files)
    /\ job \in [Jobs -> Job]

InFolder == {p \in Paths : folder[p] # Absent}

\* The job completes, and nothing else happened since it was first started.
CompletesUndisturbed(j) == job[j].undisturbed /\ Complete(j)

PresentRows(p) == {f \in files : f.path = p /\ f.status = "present"}

\* A completed import has a present row with the right content for every file of the
\* folder, and counts everything else as missing, nothing as offline: whatever was in
\* the catalog before, and however often the job was interrupted and resumed. There is
\* one such row for each file, unless the job was resumed after it had recognized a
\* moved file: the second attempt then adds the row of the file's own stem.
CompletedMatchesFolder ==
    [][\A j \in Jobs : CompletesUndisturbed(j) =>
        /\ \A p \in InFolder : PresentRows(p)' # {}
        /\ \A f \in files' : f.status = IF f.path \in InFolder THEN f.status ELSE "missing"
        /\ \A f \in files' : f.status = "present" => f.content = folder[f.path]
        /\ \A f \in files' : f.status # "offline"
        /\ ~job[j].resumed => \A p \in InFolder : Cardinality(PresentRows(p)') = 1]_vars

\* The rows of photo s are present exactly for the files of its stem in the folder, and
\* no row of a file that is gone has one of their contents.
Settled(rows, s) ==
    /\ \A p \in InFolder : StemOf[p] = s =>
          \E f \in rows : f.photo = s /\ f.path = p /\ f.content = folder[p] /\ f.status = "present"
    /\ \A f \in rows : f.photo = s /\ f.status = "present" => f.path \in InFolder
Unclaimed(rows, s) ==
    \A p \in InFolder : StemOf[p] = s =>
        \A f \in rows : f.content = folder[p] => f.path \in InFolder

\* Unless a lost file has the content of one of its own, a photo gets its rows from its
\* own files, whatever it had before and whatever was moved, added or removed elsewhere,
\* and is given files of another stem only if it had lost one. So an import is idempotent,
\* and a copy of a file elsewhere is no move.
UnclaimedPhotosSettle ==
    [][\A j \in Jobs : CompletesUndisturbed(j) =>
        \A s \in Stems : Unclaimed(job[j].before, s) =>
            /\ Settled(files', s)
            /\ \A f \in files' : f.photo = s /\ f.status = "present" /\ StemOf[f.path] # s =>
                  \E g \in job[j].before : g.photo = s /\ g.path \notin InFolder]_vars

\* A file that was renamed keeps its photo: its content is found at one path, one row
\* had it, the path of that row is gone, and the new path is the only one of its stem.
MoveKeepsIdentity ==
    [][\A j \in Jobs : CompletesUndisturbed(j) =>
        \A f \in job[j].before, p \in InFolder :
            /\ folder[p] = f.content /\ f.path \notin InFolder /\ f.content \in Hashed
            /\ \A g \in job[j].before : g.content = f.content => g = f
            /\ \A q \in InFolder : folder[q] = f.content \/ StemOf[q] = StemOf[p] => q = p
            => \E g \in files' : g.photo = f.photo /\ g.path = p /\ g.status = "present"]_vars
=============================================================================
