---------------------------- MODULE AnalysisJobs ----------------------------
(***************************************************************************)
(* The analysis of the catalog: AnalysisJobManager of                      *)
(* photo_culler/web/routes/analysis.py.                                    *)
(*                                                                         *)
(* One job at a time: its thread waits until no import is active, loads    *)
(* the photos to analyze and keeps a window of them submitted to a pool.   *)
(* Each photo passes two gates of the condition variable _control (the     *)
(* pause, then a permit), is analyzed, and is collected and persisted by   *)
(* the job's thread. Requests pause, resume and cancel the job and change  *)
(* the number of permits; the process may die.                             *)
(*                                                                         *)
(* The critical sections of _control are short and call nothing, so each   *)
(* is one step. Photos are numbered in the order in which the catalog      *)
(* lists them, which is the order of submission, and the pool's queue is   *)
(* first in, first out. The progress events are not modelled.              *)
(***************************************************************************)
EXTENDS Integers, FiniteSets

CONSTANTS
    N,          \* photos in the catalog
    MaxWorkers, \* max_workers: threads of the pool, and the most permits
    Workers0,   \* the permits a job starts with
    Events      \* what the environment may do in this instance

ASSUME NAssumption == N \in Nat
ASSUME WorkersAssumption == MaxWorkers \in Nat \ {0} /\ Workers0 \in 1..MaxWorkers
ASSUME EventsAssumption ==
    Events \subseteq {"pause", "resume", "cancel", "workers", "import", "fail", "restart"}

VARIABLES
    is_running,
    status,
    scope,      \* whether the job analyzes all photos or the remaining ones
    pauseReq,   \* _pause_requested
    cancelReq,  \* _cancel_requested
    workers,    \* the permits
    active,     \* _active_workers
    asleep,     \* the wait set of _control: photos, and Main for the job's thread
    pc,         \* where the job's thread is
    task,       \* where each photo of the job is
    analyzed,   \* photos with a persisted analysis
    importing   \* active_job_count() > 0

job == <<is_running, status, scope>>
requests == <<pauseReq, cancelReq, workers>>
vars == <<job, requests, active, asleep, pc, task, analyzed, importing>>

Photos == 1..N
Main == 0

\* max_workers * 2 photos are submitted before the first result is awaited.
Window == 2 * MaxWorkers

Ended == {"completed", "cancelled", "failed"}

\* A photo is pending until it is submitted (queued), passes the two gates
\* (control, slot) and is worked on; it then has a result or none (ok, empty),
\* and is collected, or skipped for want of a result.
InPool == {"control", "slot", "work"}
Task == {"none", "pending", "queued", "ok", "empty", "collected", "skipped"} \cup InPool

\* A member of Ended publishes that status; leave and raise wait for the pool.
MainPc == {"none", "poll", "gate", "load", "fill", "collect", "advance", "final",
           "leave", "raise", "exit"} \cup Ended

In(states) == {p \in Photos : task[p] \in states}
InFlight == In({"queued", "ok", "empty"} \cup InPool)
Oldest(state) == {p \in In({state}) : \A q \in In({state}) : p <= q}
PoolIdle == In({"queued"} \cup InPool) = {}

Init ==
    /\ is_running = FALSE /\ status = "idle" /\ scope = "all"
    /\ pauseReq = FALSE /\ cancelReq = FALSE /\ workers = 1
    /\ active = 0
    /\ asleep = {}
    /\ pc = "none"
    /\ task = [p \in Photos |-> "none"]
    /\ analyzed = {}
    /\ importing = FALSE

-----------------------------------------------------------------------------
(* Requests. Each notifies everyone who waits for _control.                *)

Start(s) ==
    /\ ~is_running
    /\ is_running' = TRUE /\ status' = "running" /\ scope' = s
    /\ pauseReq' = FALSE /\ cancelReq' = FALSE /\ workers' = Workers0
    /\ pc' = "poll"
    /\ UNCHANGED <<active, asleep, task, analyzed, importing>>

Pause ==
    /\ "pause" \in Events
    /\ is_running /\ status # "paused"
    /\ pauseReq' = TRUE
    /\ status' = "paused"
    /\ asleep' = {}
    /\ UNCHANGED <<is_running, scope, cancelReq, workers, active, pc, task, analyzed, importing>>

\* Mutant: a resumed job is not told.
ResumeSilently ==
    /\ "resume" \in Events
    /\ is_running /\ pauseReq
    /\ pauseReq' = FALSE
    /\ status' = "running"
    /\ UNCHANGED <<is_running, scope, cancelReq, workers, active, asleep, pc, task, analyzed,
                   importing>>

Resume ==
    /\ "resume" \in Events
    /\ is_running /\ pauseReq
    /\ pauseReq' = FALSE
    /\ status' = "running"
    /\ asleep' = {}
    /\ UNCHANGED <<is_running, scope, cancelReq, workers, active, pc, task, analyzed, importing>>

\* Mutant: a cancelled job is not told.
CancelSilently ==
    /\ "cancel" \in Events
    /\ is_running
    /\ cancelReq' = TRUE
    /\ pauseReq' = FALSE
    /\ UNCHANGED <<job, workers, active, asleep, pc, task, analyzed, importing>>

\* cancel(), also what shutdown() does before it waits for the thread.
Cancel ==
    /\ "cancel" \in Events
    /\ is_running
    /\ cancelReq' = TRUE
    /\ pauseReq' = FALSE
    /\ asleep' = {}
    /\ UNCHANGED <<job, workers, active, pc, task, analyzed, importing>>

\* Mutant: the request is taken as it is.
Unclamped(n) == n
Clamped(n) ==
    IF n < 1 THEN 1 ELSE IF n > MaxWorkers THEN MaxWorkers ELSE n

SetWorkers(n) ==
    /\ "workers" \in Events
    /\ workers' = Clamped(n)
    /\ asleep' = {}
    /\ UNCHANGED <<job, pauseReq, cancelReq, active, pc, task, analyzed, importing>>

-----------------------------------------------------------------------------
(* The job's thread, _run_analysis.                                        *)

Poll ==
    /\ pc = "poll"
    /\ pc' = IF importing THEN "gate" ELSE "load"
    /\ UNCHANGED <<job, requests, active, asleep, task, analyzed, importing>>

\* _wait_for_control holds whoever calls it while this is true.
Held == pauseReq /\ ~cancelReq

Gate ==
    /\ pc = "gate"
    /\ Main \notin asleep
    /\ \/ /\ Held
          /\ asleep' = asleep \cup {Main}
          /\ UNCHANGED pc
       \/ /\ ~Held
          /\ pc' = IF cancelReq THEN "cancelled" ELSE "poll"
          /\ UNCHANGED asleep
    /\ UNCHANGED <<job, requests, active, task, analyzed, importing>>

Selected == {p \in Photos : scope = "all" \/ p \notin analyzed}

Load ==
    /\ pc = "load"
    /\ task' = [p \in Photos |-> IF p \in Selected THEN "pending" ELSE "none"]
    /\ pc' = IF Selected = {} THEN "completed" ELSE "fill"
    /\ UNCHANGED <<job, requests, active, asleep, analyzed, importing>>

\* submit_next(): the next photo, if there is one.
SubmitNext ==
    IF In({"pending"}) = {} THEN UNCHANGED task
    ELSE \E p \in Oldest("pending") : task' = [task EXCEPT ![p] = "queued"]

Fill ==
    /\ pc = "fill"
    /\ IF Cardinality(Selected \ In({"pending"})) < Window /\ In({"pending"}) # {}
       THEN SubmitNext /\ UNCHANGED pc
       ELSE pc' = "collect" /\ UNCHANGED task
    /\ UNCHANGED <<job, requests, active, asleep, analyzed, importing>>

\* A photo that is done leaves the flight; its result, if any, is persisted.
Collect ==
    /\ pc = "collect"
    /\ pc' = "advance"
    /\ \E p \in In({"ok", "empty"}) :
          /\ task' = [task EXCEPT ![p] = IF @ = "ok" THEN "collected" ELSE "skipped"]
          /\ analyzed' = IF task[p] = "ok" THEN analyzed \cup {p} ELSE analyzed
    /\ UNCHANGED <<job, requests, active, asleep, importing>>

\* Mutant: the window is not refilled.
AdvanceOnly ==
    /\ pc = "advance"
    /\ pc' = IF cancelReq THEN "cancelled" ELSE "collect"
    /\ UNCHANGED <<job, requests, active, asleep, task, analyzed, importing>>

\* A cancellation is noticed here, or the next photo is submitted.
Advance ==
    /\ pc = "advance"
    /\ pc' = IF cancelReq THEN "cancelled" ELSE "collect"
    /\ IF cancelReq THEN UNCHANGED task ELSE SubmitNext
    /\ UNCHANGED <<job, requests, active, asleep, analyzed, importing>>

AllCollected ==
    /\ pc = "collect"
    /\ InFlight = {}
    /\ pc' = "final"
    /\ UNCHANGED <<job, requests, active, asleep, task, analyzed, importing>>

\* The final grouping and decisions, which look at no request.
Final ==
    /\ pc = "final"
    /\ pc' = "completed"
    /\ UNCHANGED <<job, requests, active, asleep, task, analyzed, importing>>

\* Mutant: a cancelled job does not wait for its pool.
AfterFinishAtOnce(s) == "exit"
\* A cancelled job publishes its end inside the pool's block, which then waits.
AfterFinish(s) == IF s = "cancelled" THEN "leave" ELSE "exit"

Finish(s) ==
    /\ pc = s
    /\ status' = s
    /\ pc' = AfterFinish(s)
    /\ UNCHANGED <<is_running, scope, requests, active, asleep, task, analyzed, importing>>

\* The catalog fails; a failed job waits for its pool before it publishes.
Raise ==
    /\ "fail" \in Events
    /\ pc \in {"poll", "load", "collect", "final"}
    /\ pc' = "raise"
    /\ UNCHANGED <<job, requests, active, asleep, task, analyzed, importing>>

Join ==
    /\ pc \in {"leave", "raise"}
    /\ PoolIdle
    /\ pc' = IF pc = "leave" THEN "exit" ELSE "failed"
    /\ UNCHANGED <<job, requests, active, asleep, task, analyzed, importing>>

Exit ==
    /\ pc = "exit"
    /\ is_running' = FALSE
    /\ pc' = "none"
    /\ UNCHANGED <<status, scope, requests, active, asleep, task, analyzed, importing>>

-----------------------------------------------------------------------------
(* The pool, analyze_photo.                                                *)

\* A free thread of the pool takes the oldest submission.
Take(p) ==
    /\ p \in Oldest("queued")
    /\ Cardinality(In(InPool)) < MaxWorkers
    /\ task' = [task EXCEPT ![p] = "control"]
    /\ UNCHANGED <<job, requests, active, asleep, pc, analyzed, importing>>

Sleep(p) ==
    /\ asleep' = asleep \cup {p}
    /\ UNCHANGED <<active, task>>

Move(p, to) ==
    /\ task' = [task EXCEPT ![p] = to]
    /\ UNCHANGED <<active, asleep>>

\* _wait_for_control, called by the pool.
Control(p) ==
    /\ task[p] = "control" /\ p \notin asleep
    /\ \/ Held /\ Sleep(p)
       \/ ~Held /\ Move(p, IF cancelReq THEN "empty" ELSE "slot")
    /\ UNCHANGED <<job, requests, pc, analyzed, importing>>

\* Mutant: a permit is enough, whether or not the job was paused meanwhile.
NoPermitUnlessBusy == active >= workers /\ ~cancelReq
\* _acquire_worker_slot holds whoever calls it while this is true.
NoPermit == (pauseReq \/ active >= workers) /\ ~cancelReq

Slot(p) ==
    /\ task[p] = "slot" /\ p \notin asleep
    /\ \/ NoPermit /\ Sleep(p)
       \/ cancelReq /\ Move(p, "empty")
       \/ /\ ~NoPermit /\ ~cancelReq
          /\ task' = [task EXCEPT ![p] = "work"]
          /\ active' = active + 1
          /\ UNCHANGED asleep
    /\ UNCHANGED <<job, requests, pc, analyzed, importing>>

\* Mutant: a released permit is not announced.
ReleaseSilently ==
    /\ active' = active - 1
    /\ UNCHANGED asleep

Release ==
    /\ active' = active - 1
    /\ asleep' = {}

\* Mutant: a photo that cannot be analyzed keeps its permit.
WorkLeaks(p) ==
    /\ task[p] = "work"
    /\ \/ task' = [task EXCEPT ![p] = "ok"] /\ Release
       \/ task' = [task EXCEPT ![p] = "empty"] /\ UNCHANGED <<active, asleep>>
    /\ UNCHANGED <<job, requests, pc, analyzed, importing>>

\* The analysis of one photo, which may fail or find no file.
Work(p) ==
    /\ task[p] = "work"
    /\ \E result \in {"ok", "empty"} : task' = [task EXCEPT ![p] = result]
    /\ Release
    /\ UNCHANGED <<job, requests, pc, analyzed, importing>>

-----------------------------------------------------------------------------
(* The environment.                                                        *)

ImportToggles ==
    /\ "import" \in Events
    /\ importing' = ~importing
    /\ UNCHANGED <<job, requests, active, asleep, pc, task, analyzed>>

\* The process dies and starts again; only the catalog survives.
Restart ==
    /\ "restart" \in Events
    /\ is_running' = FALSE /\ status' = "idle" /\ scope' = "all"
    /\ pauseReq' = FALSE /\ cancelReq' = FALSE /\ workers' = 1
    /\ active' = 0
    /\ asleep' = {}
    /\ pc' = "none"
    /\ task' = [p \in Photos |-> "none"]
    /\ importing' = FALSE
    /\ UNCHANGED analyzed

Thread ==
    \/ Poll \/ Gate \/ Load \/ Fill \/ Collect \/ Advance \/ AllCollected \/ Final
    \/ (\E s \in Ended : Finish(s))
    \/ Join \/ Exit

PoolStep(p) == Take(p) \/ Control(p) \/ Slot(p) \/ Work(p)

Next ==
    \/ \E s \in {"all", "remaining"} : Start(s)
    \/ Pause \/ Resume \/ Cancel
    \/ \E n \in 0..(MaxWorkers + 1) : SetWorkers(n)
    \/ Thread \/ Raise
    \/ \E p \in Photos : PoolStep(p)
    \/ ImportToggles \/ Restart

\* Threads are scheduled and every analysis ends. A critical section is one
\* step that is enabled whoever else runs, so weak fairness is enough.
Fairness == WF_vars(Thread) /\ \A p \in Photos : WF_vars(PoolStep(p))

Spec == Init /\ [][Next]_vars /\ Fairness

-----------------------------------------------------------------------------
(* Correctness.                                                            *)

\* Every variable has its type; permits stay within one and max_workers.
TypeOK ==
    /\ is_running \in BOOLEAN /\ pauseReq \in BOOLEAN /\ cancelReq \in BOOLEAN
    /\ status \in {"idle", "running", "paused"} \cup Ended
    /\ scope \in {"all", "remaining"}
    /\ workers \in 1..MaxWorkers
    /\ active \in 0..MaxWorkers
    /\ asleep \subseteq Photos \cup {Main}
    /\ pc \in MainPc
    /\ task \in [Photos -> Task]
    /\ analyzed \subseteq Photos
    /\ importing \in BOOLEAN

\* The permits taken are those of the photos being worked on: whatever fails, is
\* cancelled or is paused, no permit is lost, also from one job to the next, for
\* start_analysis does not reset _active_workers.
PermitsAccounted == active = Cardinality(In({"work"}))

\* A thread asleep on _control has reason to be: the condition it waits for was
\* not established without a notification (analysis.py:360, 367).
NoLostWakeup ==
    \A x \in asleep :
        \/ x = Main /\ pc = "gate" /\ Held
        \/ x \in In({"control"}) /\ Held
        \/ x \in In({"slot"}) /\ NoPermit

\* A job that published "completed" has collected every photo of the catalog that
\* it had to analyze: the window lost none of them (analysis.py:300-332).
CompletedCovers ==
    status = "completed" =>
        \A p \in Photos :
            \/ task[p] \in {"collected", "skipped"}
            \/ task[p] = "none" /\ p \in analyzed

\* When the manager accepts a new job, no photo of the former one is left in a
\* pool: two jobs never analyze at once (analysis.py:330, 355).
JoinedBeforeExit == ~is_running => PoolIdle

\* A photo begins to be analyzed only while the job is shown as running: a pause
\* or a cancellation that was answered holds also for a photo already past the
\* first gate.
WorkBeginsWhileRunning ==
    [][\A p \in Photos : task[p] # "work" /\ task'[p] = "work" => status = "running"]_vars

\* A cancelled job ends, though its pool and its thread may sleep.
CancelEnds == cancelReq /\ is_running ~> ~is_running

\* Unless it stays paused or an import stays active, a job ends: a photo that
\* waits for a permit gets one, and the thread does not wait for a pool that
\* waits for nobody.
AnalysisEnds ==
    <>[](~pauseReq /\ ~importing) => (is_running ~> ~is_running)

\* A job shown as paused is there to be resumed, as resume() promises
\* (analysis.py:115). pause() breaks it: see the run analysis_pause_race.
PausedIsResumable == status = "paused" => is_running
=============================================================================
