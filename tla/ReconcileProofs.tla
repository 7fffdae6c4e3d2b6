--------------------------- MODULE ReconcileProofs ---------------------------
(***************************************************************************)
(* Theorems about Reconcile, for every folder, every number of import jobs *)
(* and every sequence of changes of the folder.                            *)
(***************************************************************************)
EXTENDS Reconcile, FiniteSetTheorems, TLAPS

-----------------------------------------------------------------------------
(* Types.                                                                  *)

LEMMA JobType ==
    /\ NewJob \in Job /\ EndedJob \in Job
    /\ NothingFound \in Listing /\ NothingShown \in [Paths -> SUBSET (Contents \cup {Absent})]
<1>1. NothingFound \in Listing /\ NothingShown \in [Paths -> SUBSET (Contents \cup {Absent})]
  BY DEF NothingFound, NothingShown, Listing
<1>2. NewJob \in Job
  BY <1>1 DEF NewJob, Job
<1>3. EndedJob \in Job
  BY <1>2 DEF EndedJob, Job
<1>4. QED
  BY <1>1, <1>2, <1>3

\* A job that is disturbed is still one, and so is one that is shown something.
LEMMA DisturbedType ==
    ASSUME TypeOK, NEW j \in Jobs
    PROVE  Disturbed(j) \in Job
BY DEF TypeOK, Disturbed, Job

LEMMA ShowingType ==
    ASSUME TypeOK, NEW j \in Jobs, NEW f \in Listing, NEW available \in BOOLEAN
    PROVE  Showing(j, f, available) \in Job
<1> DEFINE d == Disturbed(j)
           l == Listed(f, available)
           s == [p \in Paths |-> d.shown[p] \cup {l[p]}]
<1>1. d \in Job /\ l \in Listing
  BY DisturbedType, JobType DEF Listed
<1> HIDE DEF d, l
<1>2. s \in [Paths -> SUBSET (Contents \cup {Absent})]
  BY <1>1 DEF Job, Listing
<1>3. Showing(j, f, available) = IF job[j].pc = "scan" THEN [d EXCEPT !.shown = s] ELSE d
  BY DEF Showing, d, l
<1> HIDE DEF s
<1>4. [d EXCEPT !.shown = s] \in Job
  BY <1>1, <1>2 DEF Job
<1>5. QED
  BY <1>1, <1>3, <1>4

\* A mark changes the status of a row, and nothing else.
LEMMA Marks ==
    ASSUME NEW f \in File, NEW j \in Jobs
    PROVE  /\ MarkedMissing(j, f) \in File /\ [f EXCEPT !.status = "offline"] \in File
           /\ MarkedMissing(j, f).photo = f.photo /\ MarkedMissing(j, f).path = f.path
           /\ MarkedMissing(j, f).content = f.content /\ MarkedMissing(j, f).seen = f.seen
           /\ MarkedMissing(j, f).status = IF f.seen = j THEN f.status ELSE "missing"
           /\ [f EXCEPT !.status = "offline"].photo = f.photo
           /\ [f EXCEPT !.status = "offline"].path = f.path
           /\ [f EXCEPT !.status = "offline"].seen = f.seen
BY DEF MarkedMissing, File, FileStatus

\* A row keeps its photo and its path while its status changes: no two become one.
LEMMA MarkedUnique ==
    ASSUME TypeOK, NEW j \in Jobs
    PROVE  Unique({MarkedMissing(j, f) : f \in files})
<1>1. ASSUME NEW f \in files, NEW g \in files,
             MarkedMissing(j, f).photo = MarkedMissing(j, g).photo,
             MarkedMissing(j, f).path = MarkedMissing(j, g).path
      PROVE  f = g
  <2>1. f.photo = g.photo /\ f.path = g.path
    BY <1>1, Marks DEF TypeOK
  <2>2. QED
    BY <2>1 DEF TypeOK, Unique
<1>2. QED
  BY <1>1 DEF Unique

LEMMA OfflineUnique ==
    ASSUME TypeOK
    PROVE  Unique({[f EXCEPT !.status = "offline"] : f \in files})
<1> DEFINE Offline(f) == [f EXCEPT !.status = "offline"]
<1>1. ASSUME NEW f \in files, NEW g \in files,
             Offline(f).photo = Offline(g).photo, Offline(f).path = Offline(g).path
      PROVE  f = g
  <2>1. f.photo = g.photo /\ f.path = g.path
    BY <1>1 DEF TypeOK, File
  <2>2. QED
    BY <2>1 DEF TypeOK, Unique
<1> HIDE DEF Offline
<1>2. Unique({Offline(f) : f \in files})
  BY <1>1 DEF Unique
<1>3. QED
  BY <1>2 DEF Offline

\* The rows an import moves and those it writes.
LEMMA MovedType ==
    ASSUME TypeOK, NEW j \in Jobs, NEW m \in SUBSET Paths
    PROVE  \A g \in MovedRows(j, m) :
              /\ g \in File /\ g.seen # j /\ g.status = "present" /\ g.path \in m
              /\ g.content = job[j].found[g.path]
              /\ \E f \in TakenRows(j, m) : f.content = g.content
<1> SUFFICES ASSUME NEW g \in MovedRows(j, m)
             PROVE  /\ g \in File /\ g.seen # j /\ g.status = "present" /\ g.path \in m
                    /\ g.content = job[j].found[g.path]
                    /\ \E f \in TakenRows(j, m) : f.content = g.content
  OBVIOUS
<1>0. PICK p \in m : g \in {[f EXCEPT !.path = p, !.status = "present"] :
                               f \in Candidates(j, job[j].found[p])}
  BY DEF MovedRows
<1>1. PICK f \in Candidates(j, job[j].found[p]) : g = [f EXCEPT !.path = p, !.status = "present"]
  BY <1>0
<1>2. f \in File /\ f.seen # j /\ f.content = job[j].found[p] /\ f \in TakenRows(j, m)
  BY DEF TakenRows, Candidates, TypeOK
<1>3. QED
  BY <1>0, <1>1, <1>2 DEF File, FileStatus

LEMMA ImportedType ==
    ASSUME TypeOK, NEW j \in Jobs, NEW s \in Stems, NEW photo \in Stems
    PROVE  \A f \in Imported(j, photo, Group(j, s)) :
              /\ f \in File /\ f.photo = photo /\ f.path \in Group(j, s) /\ f.seen = j
              /\ f.content = job[j].found[f.path] /\ f.status = "present"
<1>1. job[j].found \in Listing /\ Group(j, s) \subseteq FoundPaths(j) /\ FoundPaths(j) \subseteq Paths
  BY DEF TypeOK, Job, Group, FoundPaths
<1>2. \A p \in Group(j, s) : job[j].found[p] \in Contents
  BY <1>1 DEF Listing, FoundPaths
<1> DEFINE Written(p) == [photo |-> photo, path |-> p, content |-> job[j].found[p],
                          status |-> "present", seen |-> j]
<1>3. ASSUME NEW p \in Group(j, s)
      PROVE  /\ Written(p) \in File /\ Written(p).photo = photo /\ Written(p).path = p
             /\ Written(p).seen = j /\ Written(p).content = job[j].found[p]
             /\ Written(p).status = "present"
  BY <1>1, <1>2 DEF File, FileStatus
<1>4. QED
  BY <1>3 DEF Imported


\* What is left of the moved rows, and the rows written, are rows; those written take
\* the place of all others of their photo with their path.
LEMMA ImportKeepsTypes ==
    ASSUME TypeOK, NEW j \in Jobs, NEW s \in Stems, NEW photo \in Stems,
           NEW m \in SUBSET Group(j, s), NEW moved,
           moved = (files \ TakenRows(j, m)) \cup MovedRows(j, m), Unique(moved)
    PROVE  LET rows == Kept(moved, j, photo, Group(j, s)) \cup Imported(j, photo, Group(j, s))
           IN  rows \subseteq File /\ Unique(rows)
<1> DEFINE written == Imported(j, photo, Group(j, s))
           kept == Kept(moved, j, photo, Group(j, s))
<1>1. m \in SUBSET Paths
  BY DEF Group, FoundPaths
<1>2. \A f \in written :
         f \in File /\ f.photo = photo /\ f.path \in Group(j, s)
  BY ImportedType
<1>3. kept \subseteq File
  BY <1>1, MovedType DEF TypeOK, Kept
<1>4. Unique(kept)
  BY DEF Kept, Unique
<1>5. \A f \in kept : f.photo # photo \/ f.path \notin Group(j, s)
  BY DEF Kept
<1>6. \A f, g \in written : f.path = g.path => f = g
  BY DEF Imported
<1> HIDE DEF written, kept
<1>7. Unique(kept \cup written)
  BY <1>2, <1>4, <1>5, <1>6 DEF Unique
<1>8. QED
  BY <1>2, <1>3, <1>7 DEF kept, written


\* A photo that takes over a file is one that had rows.
LEMMA IdentityType ==
    ASSUME TypeOK, NEW j \in Jobs, NEW s \in Stems, NEW m, NEW primary
    PROVE  Identity(j, s, m, primary) \subseteq Stems
<1>1. \A f \in Candidates(j, job[j].found[primary]) : f.photo \in Stems
  BY DEF TypeOK, Candidates, File
<1>2. CASE primary \in m
  BY <1>1, <1>2 DEF Identity
<1>3. CASE primary \notin m
  BY <1>3 DEF Identity
<1>4. QED
  BY <1>2, <1>3

\* The step of a job leaves every other job as it is.
LEMMA JobUpdate ==
    ASSUME TypeOK, NEW j \in Jobs, NEW new \in Job
    PROVE  [job EXCEPT ![j] = new] \in [Jobs -> Job]
BY DEF TypeOK

LEMMA TypeInit == Init => TypeOK
<1> SUFFICES ASSUME Init PROVE TypeOK
  OBVIOUS
<1>1. job \in [Jobs -> Job]
  BY JobType DEF Init
<1>2. QED
  BY <1>1, BoundAssumption DEF Init, TypeOK, Unique

\* Whatever happens to the folder.
LEMMA TypeFolder == TypeOK /\ FolderChanges => TypeOK'
<1> SUFFICES ASSUME TypeOK, FolderChanges PROVE TypeOK'
  OBVIOUS
<1>1. ASSUME NEW f \in Listing, Change(f) PROVE TypeOK'
  <2>1. job' \in [Jobs -> Job]
    BY <1>1, ShowingType DEF Change, TypeOK
  <2>2. QED
    BY <1>1, <2>1, BoundAssumption DEF Change, TypeOK, Unique
<1>2. CASE Plug
  <2>1. job' \in [Jobs -> Job]
    BY <1>2, ShowingType DEF Plug, TypeOK
  <2>2. changes' \in 0..MaxChanges
    BY <1>2, BoundAssumption DEF Plug, TypeOK
  <2>3. QED
    BY <1>2, <2>1, <2>2 DEF Plug, TypeOK, Unique
<1>3. ASSUME NEW p \in Paths, Remove(p) PROVE TypeOK'
  <2>1. [folder EXCEPT ![p] = Absent] \in Listing
    BY DEF TypeOK, Listing
  <2>2. QED
    BY <1>1, <1>3, <2>1 DEF Remove
<1>4. ASSUME NEW p \in Paths, NEW c \in Contents, Write(p, c) PROVE TypeOK'
  <2>1. [folder EXCEPT ![p] = c] \in Listing
    BY DEF TypeOK, Listing
  <2>2. QED
    BY <1>1, <1>4, <2>1 DEF Write
<1>5. ASSUME NEW p \in Paths, NEW q \in Paths, Rename(p, q) PROVE TypeOK'
  <2>1. [folder EXCEPT ![p] = Absent, ![q] = folder[p]] \in Listing
    BY DEF TypeOK, Listing
  <2>2. QED
    BY <1>1, <1>5, <2>1 DEF Rename
<1>6. QED
  BY <1>2, <1>3, <1>4, <1>5 DEF FolderChanges

LEMMA TypeOffline == TypeOK /\ MarkSourceOffline => TypeOK'
<1> SUFFICES ASSUME TypeOK, MarkSourceOffline PROVE TypeOK'
  OBVIOUS
<1>1. job' \in [Jobs -> Job]
  BY DisturbedType DEF MarkSourceOffline, DisturbAll
<1>2. files' \subseteq File
  BY DEF MarkSourceOffline, TypeOK, File, FileStatus
<1>3. Unique(files)'
  <2>1. files' = {[f EXCEPT !.status = "offline"] : f \in files}
    BY DEF MarkSourceOffline
  <2>2. Unique({[f EXCEPT !.status = "offline"] : f \in files})
    BY OfflineUnique
  <2>3. QED
    BY <2>1, <2>2 DEF Unique
<1>4. QED
  BY <1>1, <1>2, <1>3 DEF MarkSourceOffline, TypeOK


\* The steps of a job that leave the rows alone.
LEMMA TypeJob ==
    ASSUME TypeOK, NEW j \in Jobs,
           StartImport(j) \/ ScanAndPair(j) \/ Interrupt(j) \/ Stop(j) \/ Resume(j)
    PROVE  TypeOK'
<1>1. job[j] \in Job /\ job \in [Jobs -> Job] /\ folder \in Listing /\ files \subseteq File
  BY DEF TypeOK
<1> DEFINE shown == [p \in Paths |-> {folder[p]}]
<1>2. shown \in [Paths -> SUBSET (Contents \cup {Absent})]
  BY <1>1 DEF Listing
<1>3. CASE StartImport(j)
  <2> DEFINE alone == \A k \in Jobs : ~Live(k)
             rows == IF alone THEN files ELSE {}
             started == [NewJob EXCEPT !.pc = "scan", !.shown = shown, !.undisturbed = alone,
                                       !.before = rows]
  <2>1. rows \subseteq File /\ alone \in BOOLEAN
    BY <1>1
  <2> HIDE DEF shown, alone, rows
  <2>2. started \in Job
    BY <1>2, <2>1, JobType DEF Job
  <2> HIDE DEF started
  <2>3. job' = [i \in Jobs |-> IF i # j THEN Disturbed(i) ELSE started]
    BY <1>3 DEF StartImport, started, rows, alone, shown
  <2>4. job' \in [Jobs -> Job]
    BY <2>2, <2>3, DisturbedType
  <2>5. QED
    BY <1>3, <2>4 DEF StartImport, TypeOK, Unique
<1>4. CASE ScanAndPair(j)
  <2>1. PICK found \in Listing :
           job' = [job EXCEPT ![j].pc = "import", ![j].shown = NothingShown, ![j].found = found,
                              ![j].stems = {StemOf[p] : p \in {q \in Paths : found[q] # Absent}}]
    BY <1>4 DEF ScanAndPair
  <2> DEFINE stems == {StemOf[p] : p \in {q \in Paths : found[q] # Absent}}
             scanned == [job[j] EXCEPT !.pc = "import", !.shown = NothingShown, !.found = found,
                                       !.stems = stems]
  <2>2. stems \subseteq Stems
    BY StemAssumption
  <2> HIDE DEF stems
  <2>3. scanned \in Job
    BY <1>1, <2>2, JobType DEF Job
  <2>4. job' = [job EXCEPT ![j] = scanned]
    BY <1>1, <2>1 DEF stems
  <2> HIDE DEF scanned
  <2>5. job' \in [Jobs -> Job]
    BY <2>3, <2>4, JobUpdate
  <2>6. QED
    BY <1>4, <2>5 DEF ScanAndPair, TypeOK, Unique
<1>5. CASE Interrupt(j)
  <2> DEFINE paused == [job[j] EXCEPT !.pc = "paused", !.shown = NothingShown,
                                      !.found = NothingFound, !.stems = {}]
  <2>1. paused \in Job
    BY <1>1, JobType DEF Job
  <2>2. job' = [job EXCEPT ![j] = paused]
    BY <1>1, <1>5 DEF Interrupt
  <2> HIDE DEF paused
  <2>3. job' \in [Jobs -> Job]
    BY <2>1, <2>2, JobUpdate
  <2>4. resumes' \in 0..MaxResumes
    BY <1>5, BoundAssumption DEF Interrupt, TypeOK
  <2>5. QED
    BY <1>5, <2>3, <2>4 DEF Interrupt, TypeOK, Unique
<1>6. CASE Stop(j)
  <2>1. job' \in [Jobs -> Job]
    BY <1>6, JobType, JobUpdate DEF Stop
  <2>2. QED
    BY <1>6, <2>1 DEF Stop, TypeOK, Unique
<1>7. CASE Resume(j)
  <2> DEFINE resumed == [job[j] EXCEPT !.pc = "scan", !.resumed = TRUE, !.shown = shown]
  <2> HIDE DEF shown
  <2>1. resumed \in Job
    BY <1>1, <1>2 DEF Job
  <2>2. job' = [job EXCEPT ![j] = resumed]
    BY <1>1, <1>7 DEF Resume, shown
  <2> HIDE DEF resumed
  <2>3. job' \in [Jobs -> Job]
    BY <2>1, <2>2, JobUpdate
  <2>4. QED
    BY <1>7, <2>3 DEF Resume, TypeOK, Unique
<1>8. QED
  BY <1>3, <1>4, <1>5, <1>6, <1>7

\* The import of a photo, whole or failed.
LEMMA TypeImport ==
    ASSUME TypeOK, NEW j \in Jobs, NEW s \in Stems, ImportPhoto(j, s)
    PROVE  TypeOK'
<1> DEFINE group == Group(j, s)
<1>1. PICK m \in Movers(j, group) : \E primary \in Primaries(group) :
         LET moved == (files \ TakenRows(j, m)) \cup MovedRows(j, m)
         IN  \/ /\ ~Unique(moved)
                /\ job' = [job EXCEPT ![j] = EndedJob]
                /\ UNCHANGED files
             \/ \E photo \in Identity(j, s, m, primary) :
                /\ Unique(moved)
                /\ files' = Kept(moved, j, photo, group) \cup Imported(j, photo, group)
                /\ job' = [job EXCEPT ![j].stems = @ \ {s}]
  BY DEF ImportPhoto
<1> DEFINE moved == (files \ TakenRows(j, m)) \cup MovedRows(j, m)
<1>2. PICK primary \in Primaries(group) :
         \/ /\ ~Unique(moved)
            /\ job' = [job EXCEPT ![j] = EndedJob]
            /\ UNCHANGED files
         \/ \E photo \in Identity(j, s, m, primary) :
            /\ Unique(moved)
            /\ files' = Kept(moved, j, photo, group) \cup Imported(j, photo, group)
            /\ job' = [job EXCEPT ![j].stems = @ \ {s}]
  BY <1>1
<1>3. m \in SUBSET group
  BY DEF Movers
<1>4. UNCHANGED <<folder, plugged, changes, resumes>>
  BY DEF ImportPhoto
<1>5. CASE job' = [job EXCEPT ![j] = EndedJob] /\ UNCHANGED files
  <2>1. job' \in [Jobs -> Job]
    BY <1>5, JobType, JobUpdate
  <2>2. QED
    BY <1>4, <1>5, <2>1 DEF TypeOK, Unique
<1>6. ASSUME NEW photo \in Identity(j, s, m, primary), Unique(moved),
             files' = Kept(moved, j, photo, group) \cup Imported(j, photo, group),
             job' = [job EXCEPT ![j].stems = @ \ {s}]
      PROVE  TypeOK'
  <2> HIDE DEF moved, group
  <2>1. photo \in Stems
    BY <1>6, IdentityType
  <2>2. files' \subseteq File /\ Unique(files')
    BY <1>3, <1>6, <2>1, ImportKeepsTypes DEF moved, group
  <2>3. [job[j] EXCEPT !.stems = @ \ {s}] \in Job
    BY DEF TypeOK, Job
  <2>4. job' \in [Jobs -> Job]
    BY <1>6, <2>3, JobUpdate DEF TypeOK
  <2>5. QED
    BY <1>4, <2>2, <2>4 DEF TypeOK, Unique
<1>7. QED
  BY <1>2, <1>5, <1>6

LEMMA TypeComplete ==
    ASSUME TypeOK, NEW j \in Jobs, Complete(j)
    PROVE  TypeOK'
<1>1. files' = {MarkedMissing(j, f) : f \in files}
  BY DEF Complete
<1> DEFINE marked == {MarkedMissing(j, f) : f \in files}
<1>2. files' \subseteq File /\ Unique(files')
  <2>1. ASSUME NEW f \in files PROVE MarkedMissing(j, f) \in File
    BY Marks DEF TypeOK
  <2>2. Unique(marked)
    BY MarkedUnique
  <2> HIDE DEF marked
  <2>3. files' = marked
    BY <1>1 DEF marked
  <2>4. QED
    BY <2>1, <2>2, <2>3 DEF marked
<1>3. job' \in [Jobs -> Job]
  BY JobType, JobUpdate DEF Complete
<1>4. QED
  BY <1>2, <1>3 DEF Complete, TypeOK, Unique

LEMMA TypeNext == TypeOK /\ [Next]_vars => TypeOK'
<1> SUFFICES ASSUME TypeOK, [Next]_vars PROVE TypeOK'
  OBVIOUS
<1>1. CASE UNCHANGED vars
  BY <1>1 DEF vars, TypeOK, Unique
<1>2. QED
  BY <1>1, TypeFolder, TypeOffline, TypeJob, TypeImport, TypeComplete DEF Next, JobStep

\* The catalog stays well formed: whatever overlaps, fails or is resumed, no photo is
\* given two rows with one path.
THEOREM TypeCorrect == Spec => []TypeOK
BY TypeInit, TypeNext, PTL DEF Spec

-----------------------------------------------------------------------------
(* What is true of a job that nothing has disturbed since it was started:  *)
(* it is the only one, the folder is as it was, and the rows it has not    *)
(* seen are those of the start, but for the ones that it moved.            *)

\* A row that the job wrote tells what is in the folder, and belongs to the photo of its
\* stem or to one that had lost a file.
SeenRight(j, f) ==
    /\ f.path \in InFolder /\ f.content = folder[f.path] /\ f.status = "present"
    /\ \/ f.photo = StemOf[f.path]
       \/ \E g \in job[j].before : g.photo = f.photo /\ g.path \notin InFolder

QuietJob(j) ==
    /\ Live(j) /\ \A i \in Jobs \ {j} : ~Live(i)
    /\ job[j].pc = "scan" => job[j].shown = [p \in Paths |-> {folder[p]}]
    /\ job[j].pc = "import" => job[j].found = folder
    /\ \A f \in job[j].before : f.seen # j
    /\ \A f \in files : f.seen = j => SeenRight(j, f)
    /\ \A f \in files : f.path \notin InFolder => f \in job[j].before

\* What has been imported has a row, that of its stem unless a file was lost.
ImportedHaveRows(j) ==
    job[j].pc = "import" =>
        \A p \in InFolder : StemOf[p] \notin job[j].stems =>
            \E f \in files : /\ f.seen = j /\ f.path = p
                             /\ Unclaimed(job[j].before, StemOf[p]) => f.photo = StemOf[p]

\* The first attempt writes the rows of a path once.
FirstAttempt(j) ==
    ~job[j].resumed =>
        /\ job[j].pc = "scan" => \A f \in files : f.seen # j
        /\ job[j].pc = "import" => \A f \in files : f.seen = j => StemOf[f.path] \notin job[j].stems
        /\ \A f, g \in files : f.seen = j /\ g.seen = j /\ f.path = g.path => f = g

\* The file of row f has moved to path p, for all that the scan can tell.
Moved(j, f, p) ==
    /\ folder[p] = f.content /\ f.path \notin InFolder /\ f.content \in Hashed
    /\ \A g \in job[j].before : g.content = f.content => g = f
    /\ \A q \in InFolder : folder[q] = f.content \/ StemOf[q] = StemOf[p] => q = p

\* Such a row is there, alone with its content, until the new path is imported.
MovedFound(j) ==
    \A f \in job[j].before, p \in InFolder : Moved(j, f, p) =>
        \/ \E g \in files : g.photo = f.photo /\ g.path = p /\ g.seen = j
        \/ /\ f \in files
           /\ \A g \in files : g.content = f.content /\ g.seen # j => g = f
           /\ job[j].pc = "import" => StemOf[p] \in job[j].stems

SyncInv ==
    /\ \A f \in files : job[f.seen].pc # "new"
    /\ \A j \in Jobs : job[j].undisturbed =>
            QuietJob(j) /\ ImportedHaveRows(j) /\ FirstAttempt(j) /\ MovedFound(j)
LEMMA SyncInit == Init => SyncInv
BY DEF Init, SyncInv, NewJob

-----------------------------------------------------------------------------
(* One undisturbed job at most.                                            *)

\* While a job is at work no other one is undisturbed.
LEMMA OthersDisturbed ==
    ASSUME SyncInv, NEW j \in Jobs, Live(j)
    PROVE  \A i \in Jobs \ {j} : ~job[i].undisturbed
BY DEF SyncInv, QuietJob

\* A job that has ended or not begun is not undisturbed.
LEMMA UndisturbedLive ==
    ASSUME SyncInv, NEW j \in Jobs, job[j].undisturbed
    PROVE  Live(j)
BY DEF SyncInv, QuietJob

LEMMA DisturbedIsSo ==
    ASSUME TypeOK, SyncInv, NEW j \in Jobs
    PROVE  ~Disturbed(j).undisturbed /\ Disturbed(j).pc = job[j].pc
<1>1. job[j] \in Job
  BY DEF TypeOK
<1>2. CASE Live(j)
  BY <1>1, <1>2 DEF Disturbed, Job
<1>3. CASE ~Live(j)
  BY <1>3, UndisturbedLive DEF Disturbed
<1>4. QED
  BY <1>2, <1>3

LEMMA ShowingIsDisturbed ==
    ASSUME TypeOK, SyncInv, NEW j \in Jobs, NEW f, NEW available
    PROVE  /\ ~Showing(j, f, available).undisturbed
           /\ Showing(j, f, available).pc = job[j].pc
<1> DEFINE d == Disturbed(j)
           s == [p \in Paths |-> d.shown[p] \cup {Listed(f, available)[p]}]
<1>1. d \in Job /\ ~d.undisturbed /\ d.pc = job[j].pc
  BY DisturbedType, DisturbedIsSo
<1>2. Showing(j, f, available) = IF job[j].pc = "scan" THEN [d EXCEPT !.shown = s] ELSE d
  BY DEF Showing
<1> HIDE DEF d, s
<1>3. QED
  BY <1>1, <1>2 DEF Job

\* A step after which no job is undisturbed, and none is new that was not.
LEMMA DisturbingSync ==
    ASSUME SyncInv, TypeOK,
           \A i \in Jobs : ~job'[i].undisturbed /\ (job[i].pc # "new" => job'[i].pc # "new"),
           \A f \in files' : \E g \in files : f.seen = g.seen
    PROVE  SyncInv'
BY DEF SyncInv, TypeOK, File

LEMMA SyncFolder ==
    ASSUME TypeOK, SyncInv, FolderChanges \/ MarkSourceOffline
    PROVE  SyncInv'
<1>1. ASSUME NEW f \in Listing, Change(f) PROVE SyncInv'
  BY <1>1, ShowingIsDisturbed, DisturbingSync DEF Change
<1>2. CASE Plug
  BY <1>2, ShowingIsDisturbed, DisturbingSync DEF Plug
<1>3. ASSUME NEW p \in Paths, Remove(p) PROVE SyncInv'
  <2>1. [folder EXCEPT ![p] = Absent] \in Listing
    BY DEF TypeOK, Listing
  <2>2. QED
    BY <1>1, <1>3, <2>1 DEF Remove
<1>4. ASSUME NEW p \in Paths, NEW c \in Contents, Write(p, c) PROVE SyncInv'
  <2>1. [folder EXCEPT ![p] = c] \in Listing
    BY DEF TypeOK, Listing
  <2>2. QED
    BY <1>1, <1>4, <2>1 DEF Write
<1>5. ASSUME NEW p \in Paths, NEW q \in Paths, Rename(p, q) PROVE SyncInv'
  <2>1. [folder EXCEPT ![p] = Absent, ![q] = folder[p]] \in Listing
    BY DEF TypeOK, Listing
  <2>2. QED
    BY <1>1, <1>5, <2>1 DEF Rename
<1>6. CASE MarkSourceOffline
  <2>1. \A i \in Jobs : ~job'[i].undisturbed /\ job'[i].pc = job[i].pc
    BY <1>6, DisturbedIsSo DEF MarkSourceOffline, DisturbAll
  <2>2. \A f \in files' : \E g \in files : f.seen = g.seen
    BY <1>6 DEF MarkSourceOffline, TypeOK, File
  <2>3. QED
    BY <2>1, <2>2, DisturbingSync
<1>7. QED
  BY <1>2, <1>3, <1>4, <1>5, <1>6 DEF FolderChanges

\* A step of a job: the others are disturbed already, it remains to look at this one.
LEMMA OneJobSync ==
    ASSUME TypeOK, SyncInv, NEW j \in Jobs, Live(j), NEW new \in Job,
           job' = [job EXCEPT ![j] = new], new.pc # "new",
           \A f \in files' : f.seen = j \/ \E g \in files : f.seen = g.seen,
           new.undisturbed =>
               (QuietJob(j) /\ ImportedHaveRows(j) /\ FirstAttempt(j) /\ MovedFound(j))'
    PROVE  SyncInv'
<1>1. job'[j] = new /\ \A i \in Jobs \ {j} : job'[i] = job[i]
  BY DEF TypeOK
<1>2. \A f \in files : f.seen \in Jobs /\ job[f.seen].pc # "new"
  BY DEF TypeOK, File, SyncInv
<1>3. \A f \in files' : job'[f.seen].pc # "new"
  BY <1>1, <1>2
<1>4. ASSUME NEW i \in Jobs, job'[i].undisturbed
      PROVE  i = j
  BY <1>1, <1>4, OthersDisturbed
<1>5. QED
  BY <1>1, <1>3, <1>4 DEF SyncInv

\* The jobs that end: by a failure, a cancellation, or because they are complete.
LEMMA EndedSync ==
    ASSUME TypeOK, SyncInv, NEW j \in Jobs, Live(j), job' = [job EXCEPT ![j] = EndedJob],
           \A f \in files' : \E g \in files : f.seen = g.seen
    PROVE  SyncInv'
<1>1. EndedJob \in Job /\ EndedJob.pc # "new" /\ ~EndedJob.undisturbed
  BY JobType DEF EndedJob, NewJob
<1>2. QED
  BY <1>1, OneJobSync

LEMMA SyncEnds ==
    ASSUME TypeOK, SyncInv, NEW j \in Jobs, Stop(j) \/ Complete(j)
    PROVE  SyncInv'
<1>1. CASE Stop(j)
  BY <1>1, EndedSync DEF Stop
<1>2. CASE Complete(j)
  <2>1. \A f \in files : MarkedMissing(j, f).seen = f.seen
    BY Marks DEF TypeOK
  <2>2. \A f \in files' : \E g \in files : f.seen = g.seen
    BY <1>2, <2>1 DEF Complete
  <2>3. QED
    BY <1>2, <2>2, EndedSync DEF Complete, Live
<1>3. QED
  BY <1>1, <1>2


-----------------------------------------------------------------------------
(* The start of a job, its scan, its interruption and its next attempt.    *)

LEMMA SyncStart ==
    ASSUME TypeOK, SyncInv, NEW j \in Jobs, StartImport(j)
    PROVE  SyncInv'
<1> DEFINE alone == \A k \in Jobs : ~Live(k)
           shown == [p \in Paths |-> {folder[p]}]
           rows == IF alone THEN files ELSE {}
           started == [NewJob EXCEPT !.pc = "scan", !.shown = shown, !.undisturbed = alone,
                                     !.before = rows]
<1>1. /\ started.pc = "scan" /\ started.shown = shown /\ started.undisturbed = alone
      /\ started.before = rows /\ ~started.resumed
  BY DEF NewJob
<1> HIDE DEF shown, started, rows
<1>2. job' = [i \in Jobs |-> IF i # j THEN Disturbed(i) ELSE started]
  BY DEF StartImport, started, rows, alone, shown
<1>3. job'[j] = started /\ \A i \in Jobs \ {j} : job'[i] = Disturbed(i)
  BY <1>2
<1>4. \A i \in Jobs \ {j} : ~job'[i].undisturbed /\ job'[i].pc = job[i].pc
  BY <1>3, DisturbedIsSo
<1>5. files' = files /\ folder' = folder /\ job[j].pc = "new"
  BY DEF StartImport
<1>6. \A f \in files : f.seen \in Jobs /\ job[f.seen].pc # "new"
  BY DEF SyncInv, TypeOK, File
<1>7. \A f \in files' : job'[f.seen].pc # "new" /\ f.seen # j
  BY <1>1, <1>3, <1>4, <1>5, <1>6
<1>8. ASSUME alone
      PROVE  (QuietJob(j) /\ ImportedHaveRows(j) /\ FirstAttempt(j) /\ MovedFound(j))'
  <2>1. Live(j)' /\ \A i \in Jobs \ {j} : ~Live(i)'
    BY <1>1, <1>3, <1>4, <1>8 DEF Live
  <2>2. job'[j].before = files
    BY <1>1, <1>3, <1>8 DEF rows
  <2>3. QuietJob(j)'
    BY <1>1, <1>3, <1>5, <1>7, <2>1, <2>2 DEF QuietJob, shown
  <2>4. ImportedHaveRows(j)' /\ FirstAttempt(j)'
    BY <1>1, <1>3, <1>7 DEF ImportedHaveRows, FirstAttempt
  <2>5. MovedFound(j)'
    BY <1>1, <1>3, <1>5, <2>2 DEF MovedFound, Moved
  <2>6. QED
    BY <2>3, <2>4, <2>5
<1>9. ASSUME NEW i \in Jobs, job'[i].undisturbed
      PROVE  (QuietJob(i) /\ ImportedHaveRows(i) /\ FirstAttempt(i) /\ MovedFound(i))'
  BY <1>1, <1>3, <1>4, <1>8, <1>9
<1>10. QED
  BY <1>7, <1>9 DEF SyncInv

\* Of an undisturbed job: what is used of a step that leaves the rows and the folder alone.
LEMMA SameRows ==
    ASSUME TypeOK, SyncInv, NEW j \in Jobs, Live(j), NEW new \in Job,
           job' = [job EXCEPT ![j] = new], UNCHANGED <<files, folder>>,
           new.before = job[j].before, new.pc \in {"scan", "import", "paused"},
           new.undisturbed = job[j].undisturbed, job[j].resumed => new.resumed,
           job[j].undisturbed =>
               /\ new.pc = "scan" => new.shown = [p \in Paths |-> {folder[p]}] /\ new.resumed
               /\ new.pc = "import" => /\ new.found = folder
                                       /\ job[j].pc = "scan"
                                       /\ \A p \in InFolder : StemOf[p] \in new.stems
    PROVE  SyncInv'
<1>1. job'[j] = new /\ \A i \in Jobs \ {j} : job'[i] = job[i]
  BY DEF TypeOK
<1>2. new.pc # "new" /\ \A f \in files' : \E g \in files : f.seen = g.seen
  OBVIOUS
<1>3. ASSUME new.undisturbed
      PROVE  (QuietJob(j) /\ ImportedHaveRows(j) /\ FirstAttempt(j) /\ MovedFound(j))'
  <2>1. QuietJob(j) /\ ImportedHaveRows(j) /\ FirstAttempt(j) /\ MovedFound(j)
    BY <1>3 DEF SyncInv
  <2>2. InFolder' = InFolder
    BY DEF InFolder
  <2>3. Live(j)' /\ \A i \in Jobs \ {j} : ~Live(i)'
    BY <1>1, <2>1 DEF Live, QuietJob
  <2>4. \A f \in files : f.seen = j => SeenRight(j, f)'
    BY <1>1, <2>1, <2>2 DEF QuietJob, SeenRight
  <2>5. QuietJob(j)'
    BY <1>1, <1>3, <2>1, <2>2, <2>3, <2>4 DEF QuietJob
  <2>6. ImportedHaveRows(j)'
    BY <1>1, <1>3, <2>2 DEF ImportedHaveRows
  <2>7. FirstAttempt(j)'
    BY <1>1, <1>3, <2>1 DEF FirstAttempt
  <2>8. MovedFound(j)'
    BY <1>1, <1>3, <2>1, <2>2 DEF MovedFound, Moved
  <2>9. QED
    BY <2>5, <2>6, <2>7, <2>8
<1>4. QED
  BY <1>2, <1>3, OneJobSync

LEMMA SyncScan ==
    ASSUME TypeOK, SyncInv, NEW j \in Jobs, ScanAndPair(j)
    PROVE  SyncInv'
<1>1. PICK found \in Listing :
         /\ \A p \in Paths : found[p] \in job[j].shown[p]
         /\ job' = [job EXCEPT ![j].pc = "import", ![j].shown = NothingShown, ![j].found = found,
                               ![j].stems = {StemOf[p] : p \in {q \in Paths : found[q] # Absent}}]
  BY DEF ScanAndPair
<1> DEFINE stems == {StemOf[p] : p \in {q \in Paths : found[q] # Absent}}
           new == [job[j] EXCEPT !.pc = "import", !.shown = NothingShown, !.found = found,
                                 !.stems = stems]
<1>2. job[j] \in Job /\ job[j].pc = "scan" /\ stems \subseteq Stems
  BY StemAssumption DEF TypeOK, ScanAndPair
<1> HIDE DEF stems
<1>3. /\ new \in Job /\ new.pc = "import" /\ new.found = found /\ new.stems = stems
      /\ new.before = job[j].before /\ new.undisturbed = job[j].undisturbed
      /\ new.resumed = job[j].resumed
  BY <1>2, JobType DEF Job
<1>4. job' = [job EXCEPT ![j] = new]
  BY <1>1 DEF TypeOK, stems
<1> HIDE DEF new
<1>5. ASSUME job[j].undisturbed
      PROVE  found = folder /\ \A p \in InFolder : StemOf[p] \in stems
  <2>1. job[j].shown = [p \in Paths |-> {folder[p]}]
    BY <1>2, <1>5 DEF SyncInv, QuietJob
  <2>2. \A p \in Paths : found[p] = folder[p]
    BY <1>1, <2>1
  <2>3. found = folder
    BY <2>2 DEF TypeOK, Listing
  <2>4. QED
    BY <2>3 DEF stems, InFolder
<1>6. Live(j) /\ UNCHANGED <<files, folder>>
  BY DEF ScanAndPair, Live
<1>7. QED
  BY <1>2, <1>3, <1>4, <1>5, <1>6, SameRows

LEMMA SyncInterrupt ==
    ASSUME TypeOK, SyncInv, NEW j \in Jobs, Interrupt(j)
    PROVE  SyncInv'
<1> DEFINE new == [job[j] EXCEPT !.pc = "paused", !.shown = NothingShown,
                                 !.found = NothingFound, !.stems = {}]
<1>1. job[j] \in Job
  BY DEF TypeOK
<1>2. /\ new \in Job /\ new.pc = "paused" /\ new.before = job[j].before
      /\ new.undisturbed = job[j].undisturbed /\ new.resumed = job[j].resumed
  BY <1>1, JobType DEF Job
<1>3. job' = [job EXCEPT ![j] = new]
  BY DEF Interrupt, TypeOK
<1> HIDE DEF new
<1>4. Live(j) /\ UNCHANGED <<files, folder>>
  BY DEF Interrupt, Live
<1>5. QED
  BY <1>2, <1>3, <1>4, SameRows

LEMMA SyncResume ==
    ASSUME TypeOK, SyncInv, NEW j \in Jobs, Resume(j)
    PROVE  SyncInv'
<1> DEFINE shown == [p \in Paths |-> {folder[p]}]
           new == [job[j] EXCEPT !.pc = "scan", !.resumed = TRUE, !.shown = shown]
<1>1. job[j] \in Job /\ shown \in [Paths -> SUBSET (Contents \cup {Absent})]
  BY DEF TypeOK, Listing
<1> HIDE DEF shown
<1>2. /\ new \in Job /\ new.pc = "scan" /\ new.before = job[j].before
      /\ new.undisturbed = job[j].undisturbed /\ new.resumed /\ new.shown = shown
  BY <1>1 DEF Job
<1>3. job' = [job EXCEPT ![j] = new]
  BY DEF Resume, TypeOK, shown
<1> HIDE DEF new
<1>4. Live(j) /\ UNCHANGED <<files, folder>>
  BY DEF Resume, Live
<1>5. QED
  BY <1>2, <1>3, <1>4, SameRows DEF shown


-----------------------------------------------------------------------------
(* The import of a photo by a job that nothing has disturbed.              *)

\* The rows that may have moved were there at the start, and have lost their file.
LEMMA CandidatesLost ==
    ASSUME TypeOK, SyncInv, NEW j \in Jobs, job[j].undisturbed, job[j].pc = "import", NEW c
    PROVE  /\ FoundPaths(j) = InFolder /\ \A p \in Paths : job[j].found[p] = folder[p]
           /\ \A f \in Candidates(j, c) :
                 f \in files /\ f \in job[j].before /\ f.path \notin InFolder /\ f.content = c
<1>1. QuietJob(j) /\ job[j].found = folder
  BY DEF SyncInv, QuietJob
<1>2. FoundPaths(j) = InFolder
  BY <1>1 DEF FoundPaths, InFolder
<1>3. QED
  BY <1>1, <1>2 DEF Candidates, QuietJob

\* The photo is that of the stem, or one that has lost a file.
LEMMA IdentityLost ==
    ASSUME TypeOK, SyncInv, NEW j \in Jobs, job[j].undisturbed, job[j].pc = "import",
           NEW s \in Stems, NEW m, NEW primary \in Group(j, s),
           NEW photo \in Identity(j, s, m, primary)
    PROVE  \/ photo = s
           \/ /\ \E g \in job[j].before : g.photo = photo /\ g.path \notin InFolder
              /\ ~Unclaimed(job[j].before, s)
<1>1. CASE primary \notin m
  BY <1>1 DEF Identity
<1>2. CASE primary \in m
  <2>1. PICK g \in Candidates(j, job[j].found[primary]) : g.photo = photo
    BY <1>2 DEF Identity
  <2>2. /\ g \in job[j].before /\ g.path \notin InFolder /\ g.content = folder[primary]
        /\ primary \in InFolder /\ StemOf[primary] = s
    BY <2>1, CandidatesLost DEF Group, FoundPaths
  <2>3. ~Unclaimed(job[j].before, s)
    BY <2>2 DEF Unclaimed
  <2>4. QED
    BY <2>1, <2>2, <2>3
<1>3. QED
  BY <1>1, <1>2

\* A file that has moved to a path of its own is recognized: the photo imported is its.
LEMMA MovedRecognized ==
    ASSUME TypeOK, SyncInv, NEW j \in Jobs, job[j].undisturbed, job[j].pc = "import",
           NEW f \in job[j].before, NEW p \in InFolder, Moved(j, f, p), f \in files,
           \A g \in files : g.content = f.content /\ g.seen # j => g = f,
           NEW s \in Stems, s = StemOf[p], NEW m \in Movers(j, Group(j, s)),
           NEW primary \in Group(j, s), NEW photo \in Identity(j, s, m, primary)
    PROVE  photo = f.photo /\ p \in Group(j, s)
<1>1. /\ FoundPaths(j) = InFolder /\ \A q \in Paths : job[j].found[q] = folder[q]
      /\ InFolder \subseteq Paths
  BY CandidatesLost DEF InFolder
<1>2. Group(j, s) = {p} /\ primary = p
  BY <1>1 DEF Group, Moved
<1>3. f.seen # j /\ f.content = folder[p] /\ f.path \notin InFolder /\ f.content \in Hashed
  BY DEF SyncInv, QuietJob, Moved
<1>4. Candidates(j, folder[p]) = {f}
  BY <1>1, <1>3 DEF Candidates
<1>5. Cardinality(Candidates(j, folder[p])) = 1
  BY <1>4, FS_Singleton
<1>6. folder[p] \in Contents
  BY <1>3, FileAssumption
<1>7. Cardinality(m \cap {p}) = 1
  <2>1. {q \in Group(j, s) : job[j].found[q] = folder[p]} = {p}
    BY <1>1, <1>2
  <2>2. QED
    BY <1>3, <1>5, <1>6, <2>1 DEF Movers
<1>8. p \in m
  <2>1. m \cap {p} # {}
    BY <1>7, FS_EmptySet
  <2>2. QED
    BY <2>1
<1>9. Identity(j, s, m, primary) = {f.photo}
  BY <1>1, <1>2, <1>4, <1>8 DEF Identity
<1>10. QED
  BY <1>2, <1>9


\* What rows is to files when a photo has been imported: a row is one that was written,
\* one that was there, or one that has moved.
ImportOutcome(j, s, m, photo, rows) ==
    /\ \A h \in rows :
          \/ /\ h.seen = j /\ h.photo = photo /\ h.path \in Group(j, s)
             /\ h.content = folder[h.path] /\ h.status = "present"
          \/ h \in files /\ (h.photo # photo \/ h.path \notin Group(j, s))
          \/ h.seen # j /\ h.path \in m /\ h.content = folder[h.path]
    /\ \A p \in Group(j, s) : \E h \in rows : h.seen = j /\ h.photo = photo /\ h.path = p
    /\ \A f \in files : /\ \A p \in m : f \notin Candidates(j, job[j].found[p])
                        /\ f.photo # photo \/ f.path \notin Group(j, s)
                        => f \in rows
    /\ \A f, h \in rows : f.photo = h.photo /\ f.path = h.path => f = h

LEMMA ImportHasOutcome ==
    ASSUME TypeOK, SyncInv, NEW j \in Jobs, job[j].undisturbed, job[j].pc = "import",
           NEW s \in Stems, NEW m \in SUBSET Group(j, s), NEW photo \in Stems,
           NEW moved, moved = (files \ TakenRows(j, m)) \cup MovedRows(j, m), Unique(moved),
           NEW rows, rows = Kept(moved, j, photo, Group(j, s)) \cup Imported(j, photo, Group(j, s))
    PROVE  ImportOutcome(j, s, m, photo, rows)
<1> DEFINE group == Group(j, s)
           written == Imported(j, photo, group)
           kept == Kept(moved, j, photo, group)
<1>1. group \subseteq Paths /\ \A p \in Paths : job[j].found[p] = folder[p]
  BY CandidatesLost DEF Group, FoundPaths
<1>2. \A h \in written : /\ h.seen = j /\ h.photo = photo /\ h.path \in group
                         /\ h.content = folder[h.path] /\ h.status = "present"
  BY <1>1, ImportedType
<1>3. m \in SUBSET Paths
  BY <1>1
<1>4. \A h \in MovedRows(j, m) : h.seen # j /\ h.path \in m /\ h.content = folder[h.path]
  BY <1>1, <1>3, MovedType
<1>5. \A h \in kept : /\ h \in files \/ h \in MovedRows(j, m)
                      /\ h.photo # photo \/ h.path \notin group
  BY DEF Kept
<1>6. rows = kept \cup written
  OBVIOUS
<1>7. ASSUME NEW p \in group
      PROVE  \E h \in written : h.seen = j /\ h.photo = photo /\ h.path = p
  <2> DEFINE h == [photo |-> photo, path |-> p, content |-> job[j].found[p],
                   status |-> "present", seen |-> j]
  <2>1. h \in written
    BY DEF Imported
  <2>2. h.seen = j /\ h.photo = photo /\ h.path = p
    OBVIOUS
  <2>3. QED
    BY <2>1, <2>2
<1>8. ASSUME NEW f \in files, \A p \in m : f \notin Candidates(j, job[j].found[p]),
             f.photo # photo \/ f.path \notin group
      PROVE  f \in kept
  <2>1. f \notin TakenRows(j, m)
    BY <1>8 DEF TakenRows
  <2>2. QED
    BY <1>8, <2>1 DEF Kept
<1>9. rows \subseteq File /\ Unique(rows)
  BY ImportKeepsTypes
<1> HIDE DEF written, kept, group
<1>10. ASSUME NEW h \in rows
       PROVE  \/ /\ h.seen = j /\ h.photo = photo /\ h.path \in group
                 /\ h.content = folder[h.path] /\ h.status = "present"
              \/ h \in files /\ (h.photo # photo \/ h.path \notin group)
              \/ h.seen # j /\ h.path \in m /\ h.content = folder[h.path]
  <2>1. CASE h \in written
    BY <1>2, <2>1
  <2>2. CASE h \in kept
    BY <1>4, <1>5, <2>2
  <2>3. QED
    BY <1>6, <2>1, <2>2
<1>11. \A p \in group : \E h \in rows : h.seen = j /\ h.photo = photo /\ h.path = p
  BY <1>6, <1>7
<1>12. \A f \in files : /\ \A p \in m : f \notin Candidates(j, job[j].found[p])
                        /\ f.photo # photo \/ f.path \notin group
                        => f \in rows
  BY <1>6, <1>8
<1>13. QED
  BY <1>9, <1>10, <1>11, <1>12 DEF ImportOutcome, Unique, group

\* After it the job is as it was, with one stem less.
LEMMA SyncPhoto ==
    ASSUME TypeOK, SyncInv, NEW j \in Jobs, job[j].undisturbed, job[j].pc = "import",
           NEW s \in Stems, s \in job[j].stems, NEW m \in Movers(j, Group(j, s)),
           NEW primary \in Group(j, s), NEW photo \in Identity(j, s, m, primary),
           ImportOutcome(j, s, m, photo, files'), UNCHANGED folder,
           job'[j].pc = "import", job'[j].found = job[j].found, job'[j].before = job[j].before,
           job'[j].resumed = job[j].resumed, job'[j].stems = job[j].stems \ {s},
           \A i \in Jobs \ {j} : job'[i] = job[i]
    PROVE  (QuietJob(j) /\ ImportedHaveRows(j) /\ FirstAttempt(j) /\ MovedFound(j))'
<1> DEFINE group == Group(j, s)
<1>1. QuietJob(j) /\ ImportedHaveRows(j) /\ FirstAttempt(j) /\ MovedFound(j)
  BY DEF SyncInv
<1>2. /\ FoundPaths(j) = InFolder /\ \A p \in Paths : job[j].found[p] = folder[p]
      /\ InFolder \subseteq Paths /\ InFolder' = InFolder
  BY CandidatesLost DEF InFolder
<1>3. \A p \in Paths : p \in group <=> p \in InFolder /\ StemOf[p] = s
  BY <1>2 DEF Group
<1>4. m \subseteq group /\ group \subseteq Paths /\ photo \in Stems
  BY <1>2, IdentityType DEF Movers, Group
<1>5. /\ \A h \in files' :
            \/ /\ h.seen = j /\ h.photo = photo /\ h.path \in group
               /\ h.content = folder[h.path] /\ h.status = "present"
            \/ h \in files /\ (h.photo # photo \/ h.path \notin group)
            \/ h.seen # j /\ h.path \in m /\ h.content = folder[h.path]
      /\ \A p \in group : \E h \in files' : h.seen = j /\ h.photo = photo /\ h.path = p
      /\ \A f \in files : /\ \A p \in m : f \notin Candidates(j, job[j].found[p])
                          /\ f.photo # photo \/ f.path \notin group
                          => f \in files'
  BY DEF ImportOutcome
<1>6. /\ job'[j].pc = "import" /\ job'[j].found = job[j].found /\ job'[j].before = job[j].before
      /\ job'[j].resumed = job[j].resumed /\ job'[j].stems = job[j].stems \ {s}
      /\ \A i \in Jobs \ {j} : job'[i] = job[i]
  OBVIOUS
<1>7. \/ photo = s
      \/ /\ \E g \in job[j].before : g.photo = photo /\ g.path \notin InFolder
         /\ ~Unclaimed(job[j].before, s)
  BY IdentityLost
<1>8. \A f \in files : f.seen = j => \A p \in m : f \notin Candidates(j, job[j].found[p])
  BY DEF Candidates
<1>9. \A f, h \in files' : f.photo = h.photo /\ f.path = h.path => f = h
  BY DEF ImportOutcome
<1> HIDE DEF group
<1>10. QuietJob(j)'
  <2>1. Live(j)' /\ \A i \in Jobs \ {j} : ~Live(i)'
    BY <1>1, <1>6 DEF Live, QuietJob
  <2>2. ASSUME NEW f \in files', f.seen = j PROVE SeenRight(j, f)'
    <3>1. CASE /\ f.photo = photo /\ f.path \in group
               /\ f.content = folder[f.path] /\ f.status = "present"
      BY <1>2, <1>3, <1>4, <1>6, <1>7, <3>1 DEF SeenRight
    <3>2. CASE f \in files
      BY <1>1, <1>2, <1>6, <2>2, <3>2 DEF QuietJob, SeenRight
    <3>3. QED
      BY <1>5, <2>2, <3>1, <3>2
  <2>3. ASSUME NEW f \in files', f.path \notin InFolder PROVE f \in job[j].before
    <3>1. f \in files
      BY <1>3, <1>4, <1>5, <2>3
    <3>2. QED
      BY <1>1, <2>3, <3>1 DEF QuietJob
  <2>4. job'[j].found = folder'
    BY <1>1, <1>6 DEF QuietJob
  <2>5. \A f \in job'[j].before : f.seen # j
    BY <1>1, <1>6 DEF QuietJob
  <2>6. QED
    BY <1>2, <1>6, <2>1, <2>2, <2>3, <2>4, <2>5 DEF QuietJob
<1>11. ImportedHaveRows(j)'
  <2> SUFFICES ASSUME NEW p \in InFolder, StemOf[p] \notin job'[j].stems
               PROVE  \E f \in files' : /\ f.seen = j /\ f.path = p
                                        /\ Unclaimed(job[j].before, StemOf[p]) => f.photo = StemOf[p]
    BY <1>2, <1>6 DEF ImportedHaveRows, Unclaimed
  <2>1. CASE StemOf[p] = s
    <3>1. p \in group
      BY <1>2, <1>3, <2>1
    <3>2. QED
      BY <1>5, <1>7, <2>1, <3>1
  <2>2. CASE StemOf[p] # s
    <3>1. StemOf[p] \notin job[j].stems /\ p \notin group
      BY <1>2, <1>3, <1>6, <2>2
    <3>2. PICK f \in files : /\ f.seen = j /\ f.path = p
                             /\ Unclaimed(job[j].before, StemOf[p]) => f.photo = StemOf[p]
      BY <1>1, <3>1 DEF ImportedHaveRows
    <3>3. f \in files'
      BY <1>5, <1>8, <3>1, <3>2
    <3>4. QED
      BY <3>2, <3>3
  <2>3. QED
    BY <2>1, <2>2
<1>12. FirstAttempt(j)'
  <2> SUFFICES ASSUME ~job[j].resumed
               PROVE  /\ \A f \in files' : f.seen = j => StemOf[f.path] \notin job'[j].stems
                      /\ \A f, g \in files' : f.seen = j /\ g.seen = j /\ f.path = g.path => f = g
    BY <1>6 DEF FirstAttempt
  <2>1. /\ \A f \in files : f.seen = j => StemOf[f.path] \notin job[j].stems
        /\ \A f, g \in files : f.seen = j /\ g.seen = j /\ f.path = g.path => f = g
    BY <1>1 DEF FirstAttempt
  <2>2. \A f \in files' : f.seen = j /\ f \notin files => f.photo = photo /\ f.path \in group
    BY <1>5
  <2>3. \A p \in group : StemOf[p] = s
    BY <1>3, <1>4
  <2>4. \A f \in files' : f.seen = j => StemOf[f.path] \notin job'[j].stems
    BY <1>6, <2>1, <2>2, <2>3
  <2>5. ASSUME NEW f \in files', NEW g \in files', f.seen = j, g.seen = j, f.path = g.path
        PROVE  f = g
    <3>1. CASE f \in files /\ g \in files
      BY <2>1, <2>5, <3>1
    <3>2. CASE f \notin files /\ g \notin files
      BY <1>9, <2>2, <2>5, <3>2
    <3>3. f \in files <=> g \in files
      BY <2>1, <2>2, <2>3, <2>5
    <3>4. QED
      BY <3>1, <3>2, <3>3
  <2>6. QED
    BY <2>4, <2>5
<1>13. MovedFound(j)'
  <2> SUFFICES ASSUME NEW f \in job[j].before, NEW p \in InFolder, Moved(j, f, p)
               PROVE  \/ \E g \in files' : g.photo = f.photo /\ g.path = p /\ g.seen = j
                      \/ /\ f \in files'
                         /\ \A g \in files' : g.content = f.content /\ g.seen # j => g = f
                         /\ StemOf[p] \in job'[j].stems
    BY <1>2, <1>6 DEF MovedFound, Moved
  <2>1. CASE \E g \in files : g.photo = f.photo /\ g.path = p /\ g.seen = j
    <3>1. PICK g \in files : g.photo = f.photo /\ g.path = p /\ g.seen = j
      BY <2>1
    <3>2. CASE g.photo = photo /\ p \in group
      BY <1>5, <3>1, <3>2
    <3>3. CASE g.photo # photo \/ p \notin group
      <4>1. g \in files'
        BY <1>5, <1>8, <3>1, <3>3
      <4>2. QED
        BY <3>1, <4>1
    <3>4. QED
      BY <3>2, <3>3
  <2>2. CASE /\ f \in files
             /\ \A g \in files : g.content = f.content /\ g.seen # j => g = f
             /\ StemOf[p] \in job[j].stems
    <3>1. CASE StemOf[p] = s
      <4>1. photo = f.photo /\ p \in group
        BY <2>2, <3>1, MovedRecognized DEF group
      <4>2. QED
        BY <1>5, <4>1
    <3>2. CASE StemOf[p] # s
      <4>1. p \notin m
        BY <1>3, <1>4, <3>2
      <4>2. \A q \in m : folder[q] # f.content
        BY <1>3, <1>4, <4>1 DEF Moved
      <4>3. f \in files'
        <5>1. \A q \in m : f \notin Candidates(j, job[j].found[q])
          BY <1>2, <1>4, <4>2 DEF Candidates
        <5>2. f.path \notin group
          BY <1>3, <1>4 DEF Moved
        <5>3. QED
          BY <1>5, <2>2, <5>1, <5>2
      <4>4. ASSUME NEW g \in files', g.content = f.content, g.seen # j
            PROVE  g = f
        <5>1. ~(g.path \in m /\ g.content = folder[g.path])
          BY <4>2, <4>4
        <5>2. g \in files
          BY <1>5, <4>4, <5>1
        <5>3. QED
          BY <2>2, <4>4, <5>2
      <4>5. StemOf[p] \in job'[j].stems
        BY <1>6, <2>2, <3>2
      <4>6. QED
        BY <4>3, <4>4, <4>5
    <3>3. QED
      BY <3>1, <3>2
  <2>3. QED
    BY <1>1, <2>1, <2>2 DEF MovedFound, QuietJob
<1>14. QED
  BY <1>10, <1>11, <1>12, <1>13


LEMMA SyncImport ==
    ASSUME TypeOK, SyncInv, NEW j \in Jobs, NEW s \in Stems, ImportPhoto(j, s)
    PROVE  SyncInv'
<1> DEFINE group == Group(j, s)
           RowsMoved(m) == (files \ TakenRows(j, m)) \cup MovedRows(j, m)
<1>1. PICK m \in Movers(j, group) : \E primary \in Primaries(group) :
         \/ /\ ~Unique(RowsMoved(m))
            /\ job' = [job EXCEPT ![j] = EndedJob]
            /\ UNCHANGED files
         \/ \E photo \in Identity(j, s, m, primary) :
            /\ Unique(RowsMoved(m))
            /\ files' = Kept(RowsMoved(m), j, photo, group) \cup Imported(j, photo, group)
            /\ job' = [job EXCEPT ![j].stems = @ \ {s}]
  BY DEF ImportPhoto
<1>2. PICK primary \in Primaries(group) :
         \/ /\ ~Unique(RowsMoved(m))
            /\ job' = [job EXCEPT ![j] = EndedJob]
            /\ UNCHANGED files
         \/ \E photo \in Identity(j, s, m, primary) :
            /\ Unique(RowsMoved(m))
            /\ files' = Kept(RowsMoved(m), j, photo, group) \cup Imported(j, photo, group)
            /\ job' = [job EXCEPT ![j].stems = @ \ {s}]
  BY <1>1
<1>3. /\ m \in SUBSET group /\ primary \in group /\ Live(j) /\ job[j].pc = "import"
      /\ s \in job[j].stems /\ folder' = folder
  BY DEF Movers, Primaries, ImportPhoto, Live
<1>4. CASE job' = [job EXCEPT ![j] = EndedJob] /\ UNCHANGED files
  BY <1>3, <1>4, EndedSync
<1>5. ASSUME NEW photo \in Identity(j, s, m, primary), Unique(RowsMoved(m)),
             files' = Kept(RowsMoved(m), j, photo, group) \cup Imported(j, photo, group),
             job' = [job EXCEPT ![j].stems = @ \ {s}]
      PROVE  SyncInv'
  <2> DEFINE new == [job[j] EXCEPT !.stems = @ \ {s}]
             moved == RowsMoved(m)
  <2>1. /\ new \in Job /\ new.pc = job[j].pc /\ new.found = job[j].found
        /\ new.before = job[j].before /\ new.resumed = job[j].resumed
        /\ new.undisturbed = job[j].undisturbed /\ new.stems = job[j].stems \ {s}
    BY DEF TypeOK, Job
  <2>2. job' = [job EXCEPT ![j] = new]
    BY <1>5 DEF TypeOK
  <2> HIDE DEF new
  <2>3. job'[j] = new /\ \A i \in Jobs \ {j} : job'[i] = job[i]
    BY <2>2 DEF TypeOK
  <2>4. photo \in Stems
    BY IdentityType
  <2>5. ASSUME NEW f \in files', f.seen # j
        PROVE  \E g \in files : f.seen = g.seen
    <3>1. f \in Kept(moved, j, photo, group) \/ f \in Imported(j, photo, group)
      BY <1>5
    <3>2. f \notin Imported(j, photo, group)
      BY <2>4, <2>5, ImportedType
    <3>3. f \in files \/ f \in MovedRows(j, m)
      BY <3>1, <3>2 DEF Kept
    <3>4. CASE f \in MovedRows(j, m)
      <4>1. PICK p \in m : f \in {[g EXCEPT !.path = p, !.status = "present"] :
                                     g \in Candidates(j, job[j].found[p])}
        BY <3>4 DEF MovedRows
      <4>2. PICK g \in Candidates(j, job[j].found[p]) :
               f = [g EXCEPT !.path = p, !.status = "present"]
        BY <4>1
      <4>3. g \in files /\ g \in File
        BY DEF Candidates, TypeOK
      <4>4. f.seen = g.seen
        BY <4>2, <4>3 DEF File
      <4>5. QED
        BY <4>3, <4>4
    <3>5. QED
      BY <3>3, <3>4
  <2>6. ASSUME new.undisturbed
        PROVE  (QuietJob(j) /\ ImportedHaveRows(j) /\ FirstAttempt(j) /\ MovedFound(j))'
    <3>1. ImportOutcome(j, s, m, photo, files')
      <4> DEFINE rows == files'
      <4>1. moved = (files \ TakenRows(j, m)) \cup MovedRows(j, m) /\ Unique(moved)
        BY <1>5
      <4>2. rows = Kept(moved, j, photo, group) \cup Imported(j, photo, group)
        BY <1>5
      <4> HIDE DEF moved, rows, RowsMoved
      <4>3. ImportOutcome(j, s, m, photo, rows)
        BY <1>3, <2>1, <2>4, <2>6, <4>1, <4>2, ImportHasOutcome
      <4>4. QED
        BY <4>3 DEF rows
    <3> HIDE DEF group
    <3>2. m \in Movers(j, Group(j, s)) /\ primary \in Group(j, s)
      BY <1>3 DEF group
    <3>3. QED
      BY <1>3, <2>1, <2>3, <2>6, <3>1, <3>2, SyncPhoto
  <2>7. new.pc # "new"
    BY <1>3, <2>1
  <2>8. QED
    BY <1>3, <2>1, <2>2, <2>5, <2>6, <2>7, OneJobSync
<1>6. QED
  BY <1>2, <1>4, <1>5

LEMMA SyncNext == TypeOK /\ SyncInv /\ [Next]_vars => SyncInv'
<1> SUFFICES ASSUME TypeOK, SyncInv, [Next]_vars PROVE SyncInv'
  OBVIOUS
<1>1. CASE UNCHANGED vars
  BY <1>1 DEF vars, SyncInv, QuietJob, ImportedHaveRows, FirstAttempt, MovedFound, SeenRight,
              Moved, Unclaimed, Live, InFolder
<1>2. CASE FolderChanges \/ MarkSourceOffline
  BY <1>2, SyncFolder
<1>3. ASSUME NEW j \in Jobs, JobStep(j) PROVE SyncInv'
  BY <1>3, SyncStart, SyncScan, SyncInterrupt, SyncResume, SyncEnds, SyncImport DEF JobStep
<1>4. QED
  BY <1>1, <1>2, <1>3 DEF Next

LEMMA SyncCorrect == Spec => []SyncInv
BY SyncInit, SyncNext, TypeCorrect, PTL DEF Spec


-----------------------------------------------------------------------------
(* What a completed import leaves.                                         *)

\* The last step of an undisturbed job: the rows that it wrote stay as they are, all
\* others are missing.
LEMMA Completion ==
    ASSUME TypeOK, SyncInv, NEW j \in Jobs, CompletesUndisturbed(j)
    PROVE  /\ QuietJob(j) /\ ImportedHaveRows(j) /\ FirstAttempt(j) /\ MovedFound(j)
           /\ job[j].pc = "import" /\ job[j].stems = {}
           /\ \A f \in files : f.seen = j => f \in files' /\ SeenRight(j, f)
           /\ \A f \in files' : \/ /\ f \in files /\ f.seen = j /\ SeenRight(j, f)
                                \/ /\ f.status = "missing" /\ f.seen # j
<1>1. /\ QuietJob(j) /\ ImportedHaveRows(j) /\ FirstAttempt(j) /\ MovedFound(j)
      /\ job[j].pc = "import" /\ job[j].stems = {} /\ files' = {MarkedMissing(j, f) : f \in files}
  BY DEF CompletesUndisturbed, Complete, SyncInv
<1>2. \A f \in files : f.seen = j => MarkedMissing(j, f) = f /\ SeenRight(j, f)
  BY <1>1 DEF MarkedMissing, QuietJob
<1>3. \A f \in files : f.seen # j =>
         MarkedMissing(j, f).status = "missing" /\ MarkedMissing(j, f).seen # j
  BY Marks DEF TypeOK
<1>4. QED
  BY <1>1, <1>2, <1>3

LEMMA CompletionMatches ==
    ASSUME TypeOK, SyncInv, NEW j \in Jobs, CompletesUndisturbed(j)
    PROVE  /\ \A p \in InFolder : PresentRows(p)' # {}
           /\ \A f \in files' : f.status = IF f.path \in InFolder THEN f.status ELSE "missing"
           /\ \A f \in files' : f.status = "present" => f.content = folder[f.path]
           /\ \A f \in files' : f.status # "offline"
           /\ ~job[j].resumed => \A p \in InFolder : Cardinality(PresentRows(p)') = 1
<1>1. /\ \A f \in files : f.seen = j => /\ f \in files' /\ f.status = "present"
                                        /\ f.path \in InFolder /\ f.content = folder[f.path]
      /\ \A f \in files' : (f \in files /\ f.seen = j) \/ f.status = "missing"
  BY Completion DEF SeenRight
<1>2. ASSUME NEW p \in InFolder
      PROVE  \E f \in PresentRows(p)' : f \in files /\ f.seen = j /\ f.path = p
  <2>1. PICK f \in files : f.seen = j /\ f.path = p
    BY Completion DEF ImportedHaveRows
  <2>2. QED
    BY <1>1, <2>1 DEF PresentRows
<1>3. ASSUME ~job[j].resumed, NEW p \in InFolder
      PROVE  Cardinality(PresentRows(p)') = 1
  <2>1. PICK f \in PresentRows(p)' : f \in files /\ f.seen = j /\ f.path = p
    BY <1>2
  <2>2. ASSUME NEW g \in PresentRows(p)' PROVE g = f
    <3>1. g \in files' /\ g.path = p /\ g.status = "present"
      BY DEF PresentRows
    <3>2. g \in files /\ g.seen = j
      BY <1>1, <3>1
    <3>3. QED
      BY <1>3, <2>1, <3>1, <3>2, Completion DEF FirstAttempt
  <2>3. PresentRows(p)' = {f}
    BY <2>1, <2>2
  <2>4. QED
    BY <2>3, FS_Singleton
<1>4. QED
  BY <1>1, <1>2, <1>3

\* A completed import has, for every file of the folder, a present row with the right
\* content, one unless the job was resumed, and counts everything else as missing:
\* whatever was in the catalog before, whatever other jobs left unfinished.
THEOREM CompletionCorrect == Spec => CompletedMatchesFolder
<1>1. TypeOK /\ SyncInv /\ [Next]_vars =>
        [\A j \in Jobs : CompletesUndisturbed(j) =>
            /\ \A p \in InFolder : PresentRows(p)' # {}
            /\ \A f \in files' : f.status = IF f.path \in InFolder THEN f.status ELSE "missing"
            /\ \A f \in files' : f.status = "present" => f.content = folder[f.path]
            /\ \A f \in files' : f.status # "offline"
            /\ ~job[j].resumed => \A p \in InFolder : Cardinality(PresentRows(p)') = 1]_vars
  BY CompletionMatches
<1>2. QED
  BY <1>1, TypeCorrect, SyncCorrect, PTL DEF Spec, CompletedMatchesFolder

LEMMA CompletionMoves ==
    ASSUME TypeOK, SyncInv, NEW j \in Jobs, CompletesUndisturbed(j),
           NEW f \in job[j].before, NEW p \in InFolder, Moved(j, f, p)
    PROVE  \E g \in files' : g.photo = f.photo /\ g.path = p /\ g.status = "present"
<1>1. PICK g \in files : g.photo = f.photo /\ g.path = p /\ g.seen = j
  BY Completion DEF MovedFound
<1>2. g \in files' /\ g.status = "present"
  BY <1>1, Completion DEF SeenRight
<1>3. QED
  BY <1>1, <1>2

\* A renamed file keeps its photo, and with it the decisions about it: whatever is
\* imported with it, in whatever order, however often the import is interrupted.
THEOREM MovesCorrect == Spec => MoveKeepsIdentity
<1>1. TypeOK /\ SyncInv /\ [Next]_vars =>
        [\A j \in Jobs : CompletesUndisturbed(j) =>
            \A f \in job[j].before, p \in InFolder :
                /\ folder[p] = f.content /\ f.path \notin InFolder /\ f.content \in Hashed
                /\ \A g \in job[j].before : g.content = f.content => g = f
                /\ \A q \in InFolder : folder[q] = f.content \/ StemOf[q] = StemOf[p] => q = p
                => \E g \in files' : g.photo = f.photo /\ g.path = p /\ g.status = "present"]_vars
  BY CompletionMoves DEF Moved
<1>2. QED
  BY <1>1, TypeCorrect, SyncCorrect, PTL DEF Spec, MoveKeepsIdentity

LEMMA CompletionSettles ==
    ASSUME TypeOK, SyncInv, NEW j \in Jobs, CompletesUndisturbed(j), NEW s \in Stems,
           Unclaimed(job[j].before, s)
    PROVE  /\ Settled(files', s)
           /\ \A f \in files' : f.photo = s /\ f.status = "present" /\ StemOf[f.path] # s =>
                 \E g \in job[j].before : g.photo = s /\ g.path \notin InFolder
<1>1. ASSUME NEW p \in InFolder, StemOf[p] = s
      PROVE  \E f \in files' : /\ f.photo = s /\ f.path = p /\ f.content = folder[p]
                               /\ f.status = "present"
  <2>1. PICK f \in files : f.seen = j /\ f.path = p /\ f.photo = s
    BY <1>1, Completion DEF ImportedHaveRows
  <2>2. f \in files' /\ SeenRight(j, f)
    BY <2>1, Completion
  <2>3. QED
    BY <2>1, <2>2 DEF SeenRight
<1>2. ASSUME NEW f \in files', f.photo = s, f.status = "present"
      PROVE  SeenRight(j, f)
  BY <1>2, Completion
<1>3. QED
  BY <1>1, <1>2 DEF Settled, SeenRight

\* A photo gets its rows from its own files, unless a lost file has the content of one of
\* them, and is given files of another stem only if it had lost one: an import is
\* idempotent, and takes no copy for a move.
THEOREM SettlingCorrect == Spec => UnclaimedPhotosSettle
<1>1. TypeOK /\ SyncInv /\ [Next]_vars =>
        [\A j \in Jobs : CompletesUndisturbed(j) =>
            \A s \in Stems : Unclaimed(job[j].before, s) =>
                /\ Settled(files', s)
                /\ \A f \in files' : f.photo = s /\ f.status = "present" /\ StemOf[f.path] # s =>
                      \E g \in job[j].before : g.photo = s /\ g.path \notin InFolder]_vars
  BY CompletionSettles
<1>2. QED
  BY <1>1, TypeCorrect, SyncCorrect, PTL DEF Spec, UnclaimedPhotosSettle

=============================================================================
