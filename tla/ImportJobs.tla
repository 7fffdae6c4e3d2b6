------------------------------ MODULE ImportJobs ------------------------------
(***************************************************************************)
(* The control plane of gallery imports: GalleryImportService of           *)
(* photo_culler/importing/service.py.                                      *)
(*                                                                         *)
(* An import job is a row of import_jobs (its scan revision's state is     *)
(* folded into the row) and, while the process lives, a worker thread that *)
(* scans a directory, persists the photos one by one and closes the job.   *)
(* Requests cancel, pause and resume it; the application shuts down or     *)
(* dies and recovers the interrupted rows when it starts again.            *)
(*                                                                         *)
(* Every database session is a read of the row followed later by a commit  *)
(* that writes only the columns the session changed (the ORM's UPDATE), so *)
(* a session is two steps here: one takes a snapshot, the other merges.    *)
(* The requests and the workers' checkpoints hold the condition variable   *)
(* _control from their read to their commit; the workers' other sessions   *)
(* do not, and interleave with everything.                                 *)
(***************************************************************************)
EXTENDS Naturals, FiniteSets

CONSTANTS
    Jobs,       \* import jobs that may ever be created
    Workers,    \* slots for live threads; a dead thread's slot is reused
    None,       \* no worker, no job
    N,          \* photos the directory holds; each scanned file is a photo
    Events      \* what the environment may do in this instance

ASSUME JobsAssumption == None \notin Jobs /\ None \notin Workers
ASSUME NAssumption == N \in Nat
ASSUME EventsAssumption ==
    Events \subseteq {"cancel", "pause", "resume", "shutdown", "restart", "fail"}

VARIABLES
    job,        \* the committed row of each job
    seen,       \* photos whose files carry the job's revision as last seen
    worker,     \* the threads and where each one is
    threads,    \* the service's _threads dictionary
    waiting,    \* the wait set of the condition variable _control
    call,       \* the request that holds _control, if any
    stopJobs,   \* _shutdown_jobs
    todo,       \* jobs shutdown() has still to pause
    serving     \* FALSE from the application's shutdown event on

vars == <<job, seen, worker, threads, waiting, call, stopJobs, todo, serving>>

Photos == 1..N

Active == {"queued", "discovering", "previewing"}
Terminal == {"completed", "failed", "cancelled"}
State == {"none", "paused"} \cup Active \cup Terminal

\* A counter is told apart from N only: it saturates one above.
Count == 0..(N + 1)

ASSUME NoneAssumption == None \notin State /\ None \notin BOOLEAN /\ None \notin Count

Bump(n) == IF n > N THEN n ELSE n + 1

Row == [state : State, rev : State, resume : State,
        cancel : BOOLEAN, pause : BOOLEAN, imported : Count]

\* The row before the job exists.
NoRow == [state |-> "none", rev |-> "none", resume |-> "none",
          cancel |-> FALSE, pause |-> FALSE, imported |-> 0]

QueuedRow == [NoRow EXCEPT !.state = "queued", !.rev = "queued"]

-----------------------------------------------------------------------------
(* What each session makes of the row it read.                             *)

SetState(r, s) ==
    IF r.pause THEN r
    ELSE [r EXCEPT !.state = s, !.rev = IF @ = "completed" THEN @ ELSE s]

\* Mutant: the outcome is not copied to the revision.
EndedJobOnly(r, s) == [r EXCEPT !.state = s]
Ended(r, s) == [r EXCEPT !.state = s, !.rev = s]

CompleteJob(r) == Ended(r, IF r.cancel THEN "cancelled" ELSE "completed")

\* The ORM's UPDATE: the columns a session changed since it read the row. None
\* stands for a column it leaves alone.
Update == [state : State \cup {None}, rev : State \cup {None}, resume : State \cup {None},
           cancel : BOOLEAN \cup {None}, pause : BOOLEAN \cup {None},
           imported : Count \cup {None}]
NoUpdate == [state |-> None, rev |-> None, resume |-> None,
             cancel |-> None, pause |-> None, imported |-> None]

Changed(old, new) == IF new = old THEN None ELSE new
Diff(old, new) ==
    [state |-> Changed(old.state, new.state), rev |-> Changed(old.rev, new.rev),
     resume |-> Changed(old.resume, new.resume), cancel |-> Changed(old.cancel, new.cancel),
     pause |-> Changed(old.pause, new.pause), imported |-> Changed(old.imported, new.imported)]

Written(cur, new) == IF new = None THEN cur ELSE new
Apply(row, u) ==
    [state |-> Written(row.state, u.state), rev |-> Written(row.rev, u.rev),
     resume |-> Written(row.resume, u.resume), cancel |-> Written(row.cancel, u.cancel),
     pause |-> Written(row.pause, u.pause), imported |-> Written(row.imported, u.imported)]

PausedRow(r) ==
    [r EXCEPT !.resume = r.state, !.state = "paused", !.pause = TRUE, !.rev = "paused"]

\* The checkpoint's own pause, for a row that another session moved on.
ParkedRow(r) == [r EXCEPT !.resume = r.state, !.state = "paused"]

CancelledRow(r, hasWorker) ==
    LET asked == [r EXCEPT !.cancel = TRUE, !.pause = FALSE]
    IN  IF hasWorker THEN asked ELSE Ended(asked, "cancelled")

\* Mutant: a recreated worker goes on counting where the last attempt stopped.
ResumedRowKeepsCount(r, alive) ==
    LET s == IF r.resume = "none" THEN "queued" ELSE r.resume
    IN  [r EXCEPT !.state = s, !.rev = s, !.resume = "none", !.pause = FALSE]
ResumedRow(r, alive) ==
    LET s == IF r.resume = "none" THEN "queued" ELSE r.resume
        back == [r EXCEPT !.state = s, !.rev = s, !.resume = "none", !.pause = FALSE]
    IN  IF alive THEN back ELSE [back EXCEPT !.imported = 0]

\* Mutants: recovery forgets the jobs that had started, or does not tell an
\* interrupted job from an ended one.
RecoveredRowQueued(r) ==
    IF r.state = "queued"
    THEN [r EXCEPT !.resume = r.state, !.state = "paused", !.pause = TRUE]
    ELSE r
RecoveredRowAny(r) ==
    IF r.state # "none"
    THEN [r EXCEPT !.resume = r.state, !.state = "paused", !.pause = TRUE]
    ELSE r
RecoveredRow(r) ==
    IF r.state \in Active
    THEN [r EXCEPT !.resume = r.state, !.state = "paused", !.pause = TRUE]
    ELSE r

-----------------------------------------------------------------------------
(* Threads.                                                                *)

Checkpoints == {"begin", "scan", "paired", "import", "end"}
Sessions == {"discovering", "previewing", "save", "complete", "fail"}
Pc == {"dead", "new", "registered", "count", "exit"} \cup Checkpoints \cup Sessions

\* open: a session has read the row and will commit update. hold: the session
\* is that of a checkpoint, which keeps _control until the commit.
WorkerState == [job : Jobs \cup {None}, pc : Pc, found : 0..N, done : 0..N,
                open : BOOLEAN, hold : {"no", "halt", "park"}, update : Update]

Dead == [job |-> None, pc |-> "dead", found |-> 0, done |-> 0,
         open |-> FALSE, hold |-> "no", update |-> NoUpdate]
Thread(j, pc) == [Dead EXCEPT !.job = j, !.pc = pc]

NoCall == [op |-> "none", job |-> None, snap |-> NoRow, spawn |-> None]
CallState == [op : {"none", "pause", "cancel", "cancelLive", "cancelIdle", "resume",
                    "resumeLive", "resumeSpawn", "shutdown", "shutdownPause"},
              job : Jobs \cup {None}, snap : Row, spawn : Workers \cup {None}]

\* Thread.is_alive(): between start() and the end of _run.
Alive(w) == worker[w].pc \notin {"dead", "new", "registered"}

\* _control is held by a request, or by a checkpoint that is about to write.
LockFree == call = NoCall /\ \A w \in Workers : worker[w].hold = "no"

-----------------------------------------------------------------------------
Init ==
    /\ job = [j \in Jobs |-> NoRow]
    /\ seen = [j \in Jobs |-> {}]
    /\ worker = [w \in Workers |-> Dead]
    /\ threads = [j \in Jobs |-> None]
    /\ waiting = {}
    /\ call = NoCall
    /\ stopJobs = {}
    /\ todo = {}
    /\ serving = TRUE

\* start_import up to its commit: the job is visible before its thread is
\* registered.
StartImport(j, w) ==
    /\ serving
    /\ job[j].state = "none"
    /\ worker[w].pc = "dead"
    /\ job' = [job EXCEPT ![j] = QueuedRow]
    /\ worker' = [worker EXCEPT ![w] = Thread(j, "new")]
    /\ UNCHANGED <<seen, threads, waiting, call, stopJobs, todo, serving>>

RegisterThread(w) ==
    /\ worker[w].pc = "new"
    /\ threads' = [threads EXCEPT ![worker[w].job] = w]
    /\ worker' = [worker EXCEPT ![w].pc = "registered"]
    /\ UNCHANGED <<job, seen, waiting, call, stopJobs, todo, serving>>

\* thread.start(), which resume() calls only after it released _control.
StartThread(w) ==
    /\ worker[w].pc = "registered"
    /\ call.spawn # w
    /\ worker' = [worker EXCEPT ![w].pc = "begin"]
    /\ UNCHANGED <<job, seen, threads, waiting, call, stopJobs, todo, serving>>

-----------------------------------------------------------------------------
(* _wait_if_paused_or_cancelled, called at every checkpoint.               *)

AtCheckpoint(w) == worker[w].pc \in Checkpoints /\ w \notin waiting /\ LockFree

\* Where the worker goes on when the checkpoint lets it, and when it stops.
PassPc(pc) == CASE pc = "begin"  -> "discovering"
                [] pc = "scan"   -> "count"
                [] pc = "paired" -> "previewing"
                [] pc = "import" -> "save"
                [] pc = "end"    -> "complete"
\* Mutant: a scan that must stop skips the record and goes on.
StopPcSkips(pc) == IF pc = "scan" THEN "scan" ELSE "exit"
\* A scan that must stop ends the generator: _run pairs what it has so far.
StopPc(pc) == IF pc = "scan" THEN "paired" ELSE "exit"

CheckPass(w) ==
    LET r == job[worker[w].job] IN
    /\ AtCheckpoint(w)
    /\ ~r.cancel /\ worker[w].job \notin stopJobs /\ ~r.pause
    /\ worker' = [worker EXCEPT ![w].pc = PassPc(@)]
    /\ UNCHANGED <<job, seen, threads, waiting, call, stopJobs, todo, serving>>

CheckShutdown(w) ==
    LET r == job[worker[w].job] IN
    /\ AtCheckpoint(w)
    /\ ~r.cancel /\ worker[w].job \in stopJobs
    /\ worker' = [worker EXCEPT ![w].pc = StopPc(@)]
    /\ UNCHANGED <<job, seen, threads, waiting, call, stopJobs, todo, serving>>

\* The read of a checkpoint that finds a cancellation, or a pause whose state
\* another session has overwritten: it keeps _control and will write.
CheckRead(w) ==
    LET r == job[worker[w].job] IN
    /\ AtCheckpoint(w)
    /\ \/ /\ r.cancel
          /\ worker' = [worker EXCEPT ![w].hold = "halt",
                                      ![w].update = Diff(r, Ended(r, "cancelled"))]
       \/ /\ ~r.cancel /\ worker[w].job \notin stopJobs /\ r.pause /\ r.state # "paused"
          /\ worker' = [worker EXCEPT ![w].hold = "park",
                                      ![w].update = Diff(r, ParkedRow(r))]
    /\ UNCHANGED <<job, seen, threads, waiting, call, stopJobs, todo, serving>>

CheckCommit(w) ==
    LET me == worker[w] IN
    /\ me.hold # "no"
    /\ job' = [job EXCEPT ![me.job] = Apply(@, me.update)]
    /\ worker' = [worker EXCEPT ![w].hold = "no", ![w].update = NoUpdate,
                                ![w].pc = IF me.hold = "halt" THEN StopPc(@) ELSE @]
    /\ waiting' = IF me.hold = "park" THEN waiting \cup {w} ELSE waiting
    /\ UNCHANGED <<seen, threads, call, stopJobs, todo, serving>>

CheckWait(w) ==
    LET r == job[worker[w].job] IN
    /\ AtCheckpoint(w)
    /\ ~r.cancel /\ worker[w].job \notin stopJobs /\ r.pause /\ r.state = "paused"
    /\ waiting' = waiting \cup {w}
    /\ UNCHANGED <<job, seen, worker, threads, call, stopJobs, todo, serving>>

-----------------------------------------------------------------------------
(* The workers' sessions that do not take _control.                        *)

\* Mutant: the scan reads past the last file.
ScanPcPastEnd(found) == IF found <= N THEN "scan" ELSE "paired"
ScanPc(found) == IF found < N THEN "scan" ELSE "paired"
ImportPc(done, found) == IF done < found THEN "import" ELSE "end"

\* The row a session makes of the row it read.
Handled(pc, r) == CASE pc = "discovering" -> SetState(r, "discovering")
                    [] pc = "previewing"  -> SetState(r, "previewing")
                    [] pc = "save"        -> [r EXCEPT !.imported = Bump(@)]
                    [] pc = "complete"    -> CompleteJob(r)
                    [] pc = "fail"        -> Ended(r, "failed")

ReadSession(w) ==
    LET r == job[worker[w].job] IN
    /\ worker[w].pc \in Sessions
    /\ ~worker[w].open
    /\ worker' = [worker EXCEPT ![w].open = TRUE,
                                ![w].update = Diff(r, Handled(worker[w].pc, r))]
    /\ UNCHANGED <<job, seen, threads, waiting, call, stopJobs, todo, serving>>

\* The commit of worker w's session, after which it is as next says.
Commits(w, next) ==
    /\ worker[w].open
    /\ job' = [job EXCEPT ![worker[w].job] = Apply(@, worker[w].update)]
    /\ worker' = [worker EXCEPT ![w] = [next EXCEPT !.open = FALSE, !.update = NoUpdate]]
    /\ UNCHANGED <<threads, waiting, call, stopJobs, todo, serving>>

Discovering(w) ==
    /\ worker[w].pc = "discovering"
    /\ Commits(w, [worker[w] EXCEPT !.pc = ScanPc(0)])
    /\ UNCHANGED seen

\* One record: its hash, the progress counters (not modelled), the record.
CountRecord(w) ==
    /\ worker[w].pc = "count"
    /\ worker' = [worker EXCEPT ![w].found = @ + 1, ![w].pc = ScanPc(worker[w].found + 1)]
    /\ UNCHANGED <<job, seen, threads, waiting, call, stopJobs, todo, serving>>

Previewing(w) ==
    /\ worker[w].pc = "previewing"
    /\ Commits(w, [worker[w] EXCEPT !.pc = ImportPc(0, worker[w].found)])
    /\ UNCHANGED seen

\* Mutant: the loop saves the same photo again and again.
SavePhotoAgain(w) ==
    LET next == worker[w].done + 1 IN
    /\ worker[w].pc = "save"
    /\ Commits(w, [worker[w] EXCEPT !.pc = "import"])
    /\ seen' = [seen EXCEPT ![worker[w].job] = @ \cup {next}]

\* One iteration of _import_photos.
SavePhoto(w) ==
    LET next == worker[w].done + 1 IN
    /\ worker[w].pc = "save"
    /\ Commits(w, [worker[w] EXCEPT !.done = next, !.pc = ImportPc(next, worker[w].found)])
    /\ seen' = [seen EXCEPT ![worker[w].job] = @ \cup {next}]

\* _complete_job, or _mark_failed.
EndJob(w) ==
    /\ worker[w].pc \in {"complete", "fail"}
    /\ Commits(w, [worker[w] EXCEPT !.pc = "exit"])
    /\ UNCHANGED seen

\* Mutant: an exception of the scan is swallowed and the scan ends there.
RaiseSwallowed(w) ==
    /\ "fail" \in Events
    /\ worker[w].pc \in (Checkpoints \cup Sessions \cup {"count"}) \ {"fail"}
    /\ w \notin waiting
    /\ worker' = [worker EXCEPT ![w].pc = IF @ \in {"scan", "count"} THEN "paired" ELSE "fail",
                                ![w].open = FALSE,
                                ![w].hold = "no", ![w].update = NoUpdate]
    /\ UNCHANGED <<job, seen, threads, waiting, call, stopJobs, todo, serving>>

\* An exception anywhere in the body of _run rolls the open session back.
Raise(w) ==
    /\ "fail" \in Events
    /\ worker[w].pc \in (Checkpoints \cup Sessions \cup {"count"}) \ {"fail"}
    /\ w \notin waiting
    /\ worker' = [worker EXCEPT ![w].pc = "fail", ![w].open = FALSE,
                                    ![w].hold = "no", ![w].update = NoUpdate]
    /\ UNCHANGED <<job, seen, threads, waiting, call, stopJobs, todo, serving>>

\* Mutant: a finished thread stays registered.
ExitRegistered(w) ==
    /\ worker[w].pc = "exit"
    /\ worker' = [worker EXCEPT ![w] = Dead]
    /\ UNCHANGED <<job, seen, threads, waiting, call, stopJobs, todo, serving>>

\* The finally clause of _run drops whatever thread the job has registered.
Exit(w) ==
    /\ worker[w].pc = "exit"
    /\ threads' = [threads EXCEPT ![worker[w].job] = None]
    /\ worker' = [worker EXCEPT ![w] = Dead]
    /\ UNCHANGED <<job, seen, waiting, call, stopJobs, todo, serving>>

-----------------------------------------------------------------------------
(* Requests. One that is refused changes nothing and is not a step.        *)

Begin(op, j) ==
    /\ serving
    /\ op \in Events
    /\ LockFree
    /\ job[j].state # "none"
    /\ call' = [NoCall EXCEPT !.op = op, !.job = j, !.snap = job[j]]
    /\ UNCHANGED <<job, seen, worker, threads, waiting, stopJobs, todo, serving>>

\* Mutant: a job at work can be resumed.
ResumeReadActive(j) == job[j].state \in Active \cup {"paused"} /\ Begin("resume", j)

CancelRead(j) == job[j].state \notin Terminal /\ Begin("cancel", j)
PauseRead(j) == job[j].state \in Active /\ Begin("pause", j)
ResumeRead(j) == job[j].state = "paused" /\ job[j].pause /\ Begin("resume", j)

\* The look at _threads, under _lock, before the commit.
CancelDecide ==
    /\ call.op = "cancel"
    /\ call' = [call EXCEPT !.op = IF threads[call.job] # None THEN "cancelLive"
                                                             ELSE "cancelIdle"]
    /\ UNCHANGED <<job, seen, worker, threads, waiting, stopJobs, todo, serving>>

WorkerAlive(j) == threads[j] # None /\ Alive(threads[j])

ResumeDecide ==
    LET j == call.job IN
    /\ call.op = "resume"
    /\ \/ /\ WorkerAlive(j)
          /\ call' = [call EXCEPT !.op = "resumeLive"]
          /\ UNCHANGED <<worker, threads>>
       \/ /\ ~WorkerAlive(j)
          /\ \E w \in Workers :
                /\ worker[w].pc = "dead"
                /\ call' = [call EXCEPT !.op = "resumeSpawn", !.spawn = w]
                /\ worker' = [worker EXCEPT ![w] = Thread(j, "registered")]
                /\ threads' = [threads EXCEPT ![j] = w]
    /\ UNCHANGED <<job, seen, waiting, stopJobs, todo, serving>>

\* Mutant: a request commits and wakes nobody.
FinishSilently(new) ==
    /\ job' = [job EXCEPT ![call.job] = Apply(@, Diff(call.snap, new))]
    /\ call' = NoCall
    /\ UNCHANGED <<seen, worker, threads, waiting, stopJobs, todo, serving>>

\* The commit of a request, its notify_all() and the release of _control.
Finish(new) ==
    /\ job' = [job EXCEPT ![call.job] = Apply(@, Diff(call.snap, new))]
    /\ waiting' = {}
    /\ call' = NoCall
    /\ UNCHANGED <<seen, worker, threads, stopJobs, todo, serving>>

CancelCommit == \/ call.op = "cancelLive" /\ Finish(CancelledRow(call.snap, TRUE))
                \/ call.op = "cancelIdle" /\ Finish(CancelledRow(call.snap, FALSE))
PauseCommit == call.op = "pause" /\ Finish(PausedRow(call.snap))
ResumeCommit == \/ call.op = "resumeLive" /\ Finish(ResumedRow(call.snap, TRUE))
                \/ call.op = "resumeSpawn" /\ Finish(ResumedRow(call.snap, FALSE))

-----------------------------------------------------------------------------
(* shutdown(): every registered job is paused under one hold of _control.  *)
(* The application calls it when no request is in progress any more.       *)

ShutdownBegin ==
    /\ serving
    /\ "shutdown" \in Events
    /\ LockFree
    /\ \A w \in Workers : worker[w].pc \notin {"new", "registered"}
    /\ serving' = FALSE
    /\ todo' = {j \in Jobs : threads[j] # None}
    /\ call' = [NoCall EXCEPT !.op = "shutdown"]
    /\ UNCHANGED <<job, seen, worker, threads, waiting, stopJobs>>

ShutdownRead(j) ==
    /\ call.op = "shutdown"
    /\ j \in todo
    /\ todo' = todo \ {j}
    /\ \/ /\ job[j].state \in Active
          /\ call' = [call EXCEPT !.op = "shutdownPause", !.job = j, !.snap = job[j]]
          /\ UNCHANGED stopJobs
       \/ /\ job[j].state \notin Active
          /\ stopJobs' = stopJobs \cup {j}
          /\ UNCHANGED call
    /\ UNCHANGED <<job, seen, worker, threads, waiting, serving>>

ShutdownCommit ==
    /\ call.op = "shutdownPause"
    /\ job' = [job EXCEPT ![call.job] = Apply(@, Diff(call.snap, PausedRow(call.snap)))]
    /\ stopJobs' = stopJobs \cup {call.job}
    /\ call' = [NoCall EXCEPT !.op = "shutdown"]
    /\ UNCHANGED <<seen, worker, threads, waiting, todo, serving>>

ShutdownEnd ==
    /\ call.op = "shutdown"
    /\ todo = {}
    /\ call' = NoCall
    /\ waiting' = {}
    /\ UNCHANGED <<job, seen, worker, threads, stopJobs, todo, serving>>

\* The process ends, by a crash at any point or after a shutdown, and the next
\* one constructs the service: the daemon threads are gone.
Restart ==
    /\ "restart" \in Events
    /\ job' = [j \in Jobs |-> RecoveredRow(job[j])]
    /\ worker' = [w \in Workers |-> Dead]
    /\ threads' = [j \in Jobs |-> None]
    /\ waiting' = {}
    /\ call' = NoCall
    /\ stopJobs' = {}
    /\ todo' = {}
    /\ serving' = TRUE
    /\ UNCHANGED seen

-----------------------------------------------------------------------------
Checkpoint(w) == CheckPass(w) \/ CheckShutdown(w) \/ CheckRead(w) \/ CheckWait(w)

Session(w) == \/ ReadSession(w) \/ CountRecord(w)
              \/ Discovering(w) \/ Previewing(w) \/ SavePhoto(w) \/ EndJob(w)

Request(j) == CancelRead(j) \/ PauseRead(j) \/ ResumeRead(j)

CallStep == \/ CancelDecide \/ ResumeDecide
            \/ CancelCommit \/ PauseCommit \/ ResumeCommit
            \/ ShutdownCommit \/ ShutdownEnd
            \/ \E j \in Jobs : ShutdownRead(j)

Next ==
    \/ \E j \in Jobs, w \in Workers : StartImport(j, w)
    \/ \E j \in Jobs : Request(j)
    \/ \E w \in Workers : \/ RegisterThread(w) \/ StartThread(w)
                          \/ Checkpoint(w) \/ CheckCommit(w)
                          \/ Session(w) \/ Raise(w) \/ Exit(w)
    \/ CallStep
    \/ ShutdownBegin
    \/ Restart

\* Threads run, a request in progress ends, and a worker that competes for
\* _control again and again gets it: the lock is free in between, so this is
\* strong fairness. The environment owes nothing.
Fairness ==
    /\ \A w \in Workers : /\ WF_vars(RegisterThread(w))
                          /\ WF_vars(StartThread(w))
                          /\ SF_vars(Checkpoint(w))
                          /\ WF_vars(CheckCommit(w))
                          /\ WF_vars(Session(w))
                          /\ WF_vars(Exit(w))
    /\ WF_vars(CallStep)

Spec == Init /\ [][Next]_vars /\ Fairness

-----------------------------------------------------------------------------
(* What must hold whatever the requests, the failures and the restarts.    *)

\* Every variable has the values the code gives it.
TypeOK ==
    /\ job \in [Jobs -> Row]
    /\ seen \in [Jobs -> SUBSET Photos]
    /\ worker \in [Workers -> WorkerState]
    /\ threads \in [Jobs -> Workers \cup {None}]
    /\ waiting \subseteq Workers
    /\ call \in CallState
    /\ stopJobs \subseteq Jobs
    /\ todo \subseteq Jobs
    /\ serving \in BOOLEAN

\* A job is recorded as completed only if every photo of the directory was
\* saved under its revision: a scan cut short by a cancellation, a shutdown or
\* an exception is never closed as a whole one. (_complete_job marks as missing
\* every file of the source its revision has not seen.)
CompletedMeansImported ==
    \A j \in Jobs : job[j].state = "completed" => seen[j] = Photos

\* No wakeup is lost: a worker sleeps on _control only while its job is paused
\* and neither cancelled nor shutting down, unless the shutdown that holds
\* _control is about to notify.
NoLostWakeup ==
    \A w \in waiting : LET j == worker[w].job IN
        /\ j # None
        /\ job[j].pause /\ ~job[j].cancel
        /\ j \in stopJobs => call.op \in {"shutdown", "shutdownPause"}

\* The registry never names a thread that is over, or one of another job: a
\* cancellation left to "the worker" is left to one that exists, and a
\* shutdown pauses and joins only those.
RegistryLive ==
    \A j \in Jobs : LET w == threads[j] IN
        w # None => worker[w].job = j /\ worker[w].pc \notin {"dead", "new"}

\* Every thread that started comes to rest: it ends, or it sleeps at a pause.
WorkerSettles == \A w \in Workers : Alive(w) ~> (w \in waiting \/ ~Alive(w))

\* An acknowledged cancellation leaves the job without threads, whether they
\* slept at a pause or a resume started them afterwards.
CancelStopsWorkers ==
    \A j \in Jobs : job[j].cancel ~> \A w \in Workers : worker[w].job # j

-----------------------------------------------------------------------------
(* What holds as long as no pause is requested and no shutdown pauses.     *)

\* A job has at most one worker.
OneWorker ==
    \A v, w \in Workers : worker[v].job = worker[w].job /\ worker[v].job # None => v = w

\* "Counters describe the current attempt rather than double-counting prior
\* work": as long as a job has a thread at work, its count of imported photos is
\* what this thread has saved. A job that is recorded as completed has counted
\* every photo of the directory, and none ever counts more. ("registered" is
\* left out: resume creates the thread before it commits the count it resets.)
CountersDescribeAttempt ==
    /\ \A w \in Workers : worker[w].pc \notin {"dead", "registered"} =>
            job[worker[w].job].imported = worker[w].done
    /\ \A j \in Jobs : /\ job[j].state = "completed" => job[j].imported = N
                       /\ job[j].imported <= N

Idle(j) == call = NoCall /\ \A w \in Workers : worker[w].job # j

\* active_job_count returns "imports that are still changing the catalog": a
\* job in an active state has a thread, or a request is about to give it one.
\* The analysis waits until no job is active.
ActiveIsWorked == \A j \in Jobs : Idle(j) => job[j].state \notin Active

\* Once an ended job is left alone, its revision tells the same outcome.
RevisionAgrees ==
    \A j \in Jobs : Idle(j) /\ job[j].state \in Terminal => job[j].rev = job[j].state

\* Every job that is queued or at work eventually ends or is interrupted.
EveryJobSettles == \A j \in Jobs : job[j].state \in Active ~> job[j].state \notin Active

\* The life of a job, as ImportLifecycle tells it.
Phase(s) == CASE s \in Active -> "working"
              [] s = "paused" -> "interrupted"
              [] OTHER        -> s

Lifecycle == INSTANCE ImportLifecycle WITH
    phase <- [j \in Jobs |-> Phase(job[j].state)], seen <- seen

ImplementsLifecycle == Lifecycle!Spec

-----------------------------------------------------------------------------
(* What the code says of itself and does not keep.                         *)

\* "Complete a job unless a cancellation won the final race" (_complete_job):
\* no step completes a job whose cancellation is already committed.
CancellationWinsFinalRace ==
    [][\A j \in Jobs : job[j].state # "completed" /\ job'[j].state = "completed"
            => ~job[j].cancel]_vars

=============================================================================
