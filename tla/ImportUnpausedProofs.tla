------------------------ MODULE ImportUnpausedProofs ------------------------
(***************************************************************************)
(* Theorems about ImportJobs that hold as long as no pause is requested    *)
(* and no shutdown pauses a job: only a restart interrupts one then, when  *)
(* no thread is left, and a thread has its job's row for itself but for    *)
(* the cancellation. (With pauses they fail: see the run                   *)
(* import_pause_race.)                                                     *)
(***************************************************************************)
EXTENDS ImportJobsProofs

Unpaused == Events \cap {"pause", "shutdown"} = {}

-----------------------------------------------------------------------------
(* The inductive invariant.                                                *)

\* A row is paused exactly while a pause is recorded, its revision tells the outcome,
\* what it is resumed to is work, and one that is completed has counted every photo.
Consistent(r) ==
    /\ r.pause <=> r.state = "paused"
    /\ r.state \in Active \cup Terminal => r.rev = r.state
    /\ r.state = "paused" => r.rev \in Active
    /\ r.resume \in Active \cup {"none"}
    /\ r.imported <= N /\ (r.state = "completed" => r.imported = N)

\* Before its first checkpoint, and where only an active job leads.
Early == {"new", "registered", "begin"}
Busy == {"scan", "import", "end", "discovering", "count", "previewing", "save", "complete"}

\* At work, or ended by a cancellation that the thread will see.
Workable(r) == r.state \in Active \/ (r.state = "cancelled" /\ r.cancel)

FailedUpdate == [state |-> "failed", rev |-> "failed", resume |-> None,
                 cancel |-> None, pause |-> None, imported |-> None]

\* A session writes what its handler makes of the row, whose columns are still as it
\* read them, but for the cancellation.
Writes(t, r) ==
    \E c \in BOOLEAN : t.update = Diff([r EXCEPT !.cancel = c],
                                       Handled(t.pc, [r EXCEPT !.cancel = c]))

\* Thread t at work on a job of row r.
Works(t, r) ==
    /\ ~r.pause /\ r.imported = t.done
    /\ t.pc \in Early \cup {"paired"} => Workable(r)
    /\ t.pc \in Busy => r.state \in Active
    /\ t.pc = "fail" => r.state \in Active \cup {"cancelled"}
    /\ t.pc = "exit" => r.state \in Terminal
    /\ t.pc \in {"end", "complete"} => t.done = t.found
    /\ t.open => t.pc \in Sessions /\ (IF t.pc = "fail" THEN t.update = FailedUpdate ELSE Writes(t, r))
    /\ t.hold # "no" => r.cancel /\ t.update = Diff(r, Ended(r, "cancelled"))

\* The thread that a resume has created and not started yet.
Pending(w) == call.op = "resumeSpawn" /\ call.spawn = w

ThreadsWork ==
    \A w \in Workers : worker[w].pc # "dead" /\ ~Pending(w) => Works(worker[w], job[worker[w].job])

\* Every thread is registered once it may run, and the dead have no job.
ThreadsRegistered ==
    \A w \in Workers : /\ worker[w].pc = "dead" => worker[w].job = None
                       /\ worker[w].pc \notin {"dead", "new"} => threads[worker[w].job] = w

RowsConsistent ==
    \A j \in Jobs : /\ Consistent(job[j])
                    /\ job[j].state \in Active => \E w \in Workers : worker[w].job = j

\* A request: what it has read agrees with the row as far as no thread may change it.
Agrees(c, r) ==
    /\ Consistent(c.snap) /\ c.snap.state \notin Terminal
    /\ c.snap.pause = r.pause /\ c.snap.cancel = r.cancel
    /\ c.op \in {"resume", "resumeSpawn"} => c.snap = r /\ r.pause
    /\ c.op = "cancelLive" => ~r.pause

RequestAgrees ==
    /\ call.op \in {"none", "cancel", "cancelLive", "cancelIdle", "resume", "resumeSpawn"}
    /\ call.op # "none" => Agrees(call, job[call.job])
    /\ call.op = "resumeSpawn" => /\ call.spawn \in Workers
                                  /\ worker[call.spawn] = Thread(call.job, "registered")
    /\ call.op = "cancelIdle" =>
        \A w \in Workers : worker[w].job = call.job => worker[w].pc \in Early \cup {"fail", "exit"}

SoloInv ==
    /\ OneWorker /\ ThreadsWork /\ ThreadsRegistered /\ RowsConsistent /\ RequestAgrees
    /\ stopJobs = {}

-----------------------------------------------------------------------------
(* What the commits make of a row.                                         *)

\* A commit on the row that was read writes what the handler made of it.
LEMMA ApplyDiff ==
    ASSUME NEW r \in Row, NEW new \in Row
    PROVE  Apply(r, Diff(r, new)) = new
<1>1. new.state # None /\ new.rev # None /\ new.resume # None /\ new.cancel # None
      /\ new.pause # None /\ new.imported # None
  BY NoneAssumption DEF Row
<1>2. new = [state |-> new.state, rev |-> new.rev, resume |-> new.resume,
             cancel |-> new.cancel, pause |-> new.pause, imported |-> new.imported]
  BY DEF Row
<1>3. QED
  BY <1>1, <1>2 DEF Apply, Diff, Written, Changed

\* One that comes after a cancellation leaves the cancellation standing.
LEMMA ApplyLate ==
    ASSUME NEW r \in Row, NEW c \in BOOLEAN, NEW new \in Row, new.cancel = c
    PROVE  Apply(r, Diff([r EXCEPT !.cancel = c], new)) = [new EXCEPT !.cancel = r.cancel]
<1> DEFINE q == [r EXCEPT !.cancel = c]
<1>1. new.state # None /\ new.rev # None /\ new.resume # None
      /\ new.pause # None /\ new.imported # None
  BY NoneAssumption DEF Row
<1>2. q.state = r.state /\ q.rev = r.rev /\ q.resume = r.resume /\ q.pause = r.pause
      /\ q.imported = r.imported /\ q.cancel = c
  BY DEF Row
<1>3. [new EXCEPT !.cancel = r.cancel]
        = [state |-> new.state, rev |-> new.rev, resume |-> new.resume,
           cancel |-> r.cancel, pause |-> new.pause, imported |-> new.imported]
  BY DEF Row
<1> HIDE DEF q
<1>4. Apply(r, Diff(q, new)) = [new EXCEPT !.cancel = r.cancel]
  BY <1>1, <1>2, <1>3 DEF Apply, Diff, Written, Changed
<1>5. QED
  BY <1>4 DEF q

\* A session of a thread at work, its commit: the row that the handler makes of the row.
LEMMA SessionRow ==
    ASSUME NEW t \in WorkerState, NEW r \in Row, t.pc \in Sessions, Writes(t, r)
    PROVE  \E c \in BOOLEAN :
              Apply(r, t.update) = [Handled(t.pc, [r EXCEPT !.cancel = c]) EXCEPT !.cancel = r.cancel]
<1>1. PICK c \in BOOLEAN : t.update = Diff([r EXCEPT !.cancel = c], Handled(t.pc, [r EXCEPT !.cancel = c]))
  BY DEF Writes
<1> DEFINE q == [r EXCEPT !.cancel = c]
           new == Handled(t.pc, q)
<1>2. q \in Row /\ q.cancel = c
  BY DEF Row
<1> HIDE DEF q
<1>3. new \in Row /\ new.cancel = c
  BY <1>2, HandlersType, ModestHandlers
<1> HIDE DEF new
<1>4. Apply(r, Diff(q, new)) = [new EXCEPT !.cancel = r.cancel]
  BY <1>3, ApplyLate DEF q
<1>5. QED
  BY <1>1, <1>4 DEF q, new

\* The sessions of a thread at work, one by one.
LEMMA DiscoveringRow ==
    ASSUME NEW r \in Row, NEW c \in BOOLEAN, Consistent(r), r.state \in Active, ~r.pause
    PROVE  LET s == [Handled("discovering", [r EXCEPT !.cancel = c]) EXCEPT !.cancel = r.cancel]
           IN  /\ s.state = "discovering" /\ s.rev = "discovering" /\ s.resume = r.resume
               /\ s.pause = r.pause /\ s.cancel = r.cancel /\ s.imported = r.imported
BY DEF Handled, SetState, Consistent, Active, Row

LEMMA PreviewingRow ==
    ASSUME NEW r \in Row, NEW c \in BOOLEAN, Consistent(r), r.state \in Active, ~r.pause
    PROVE  LET s == [Handled("previewing", [r EXCEPT !.cancel = c]) EXCEPT !.cancel = r.cancel]
           IN  /\ s.state = "previewing" /\ s.rev = "previewing" /\ s.resume = r.resume
               /\ s.pause = r.pause /\ s.cancel = r.cancel /\ s.imported = r.imported
BY DEF Handled, SetState, Consistent, Active, Row

LEMMA SaveRow ==
    ASSUME NEW r \in Row, NEW c \in BOOLEAN
    PROVE  LET s == [Handled("save", [r EXCEPT !.cancel = c]) EXCEPT !.cancel = r.cancel]
           IN  /\ s.state = r.state /\ s.rev = r.rev /\ s.resume = r.resume
               /\ s.pause = r.pause /\ s.cancel = r.cancel /\ s.imported = Bump(r.imported)
BY DEF Handled, Row

LEMMA CompleteRow ==
    ASSUME NEW r \in Row, NEW c \in BOOLEAN
    PROVE  LET s == [Handled("complete", [r EXCEPT !.cancel = c]) EXCEPT !.cancel = r.cancel]
           IN  /\ s.state \in {"completed", "cancelled"} /\ s.rev = s.state /\ s.resume = r.resume
               /\ s.pause = r.pause /\ s.cancel = r.cancel /\ s.imported = r.imported
BY DEF Handled, CompleteJob, Ended, Row

LEMMA FailRow ==
    ASSUME NEW r \in Row
    PROVE  LET s == Apply(r, FailedUpdate)
           IN  /\ s.state = "failed" /\ s.rev = "failed" /\ s.resume = r.resume
               /\ s.pause = r.pause /\ s.cancel = r.cancel /\ s.imported = r.imported
BY NoneAssumption DEF Apply, Written, FailedUpdate, State, Terminal

LEMMA FailReads ==
    ASSUME NEW r \in Row, Consistent(r), r.state \in Active \cup {"cancelled"}
    PROVE  Diff(r, Handled("fail", r)) = FailedUpdate
<1>1. Handled("fail", r) = [r EXCEPT !.state = "failed", !.rev = "failed"]
  BY DEF Handled, Ended
<1>2. r.state # "failed" /\ r.rev # "failed"
  BY DEF Consistent, Active, Terminal
<1> DEFINE new == [r EXCEPT !.state = "failed", !.rev = "failed"]
<1>3. /\ new.state = "failed" /\ new.rev = "failed" /\ new.resume = r.resume
      /\ new.pause = r.pause /\ new.cancel = r.cancel /\ new.imported = r.imported
  BY DEF Row
<1> HIDE DEF new
<1>4. Diff(r, new) = [state |-> "failed", rev |-> "failed", resume |-> None,
                      cancel |-> None, pause |-> None, imported |-> None]
  BY <1>2, <1>3 DEF Diff, Changed
<1>5. QED
  BY <1>1, <1>4 DEF new, FailedUpdate

\* A cancellation left to the thread, one that ends the job, and a resumption.
LEMMA LiveRow ==
    ASSUME NEW r \in Row, NEW snap \in Row, snap.pause = r.pause, snap.cancel = r.cancel, ~r.pause
    PROVE  Apply(r, Diff(snap, CancelledRow(snap, TRUE))) = [r EXCEPT !.cancel = TRUE]
<1> DEFINE new == CancelledRow(snap, TRUE)
<1>1. /\ new.state = snap.state /\ new.rev = snap.rev /\ new.resume = snap.resume
      /\ new.cancel = TRUE /\ new.pause = FALSE /\ new.imported = snap.imported
  BY DEF CancelledRow, Row
<1> HIDE DEF new
<1>2. [r EXCEPT !.cancel = TRUE] = [state |-> r.state, rev |-> r.rev, resume |-> r.resume,
                                   cancel |-> TRUE, pause |-> FALSE, imported |-> r.imported]
  <2>1. r.pause = FALSE
    BY DEF Row
  <2> DEFINE s == [r EXCEPT !.cancel = TRUE]
  <2>2. s \in Row /\ s.state = r.state /\ s.rev = r.rev /\ s.resume = r.resume
        /\ s.cancel = TRUE /\ s.pause = FALSE /\ s.imported = r.imported
    BY <2>1 DEF Row
  <2> HIDE DEF s
  <2>3. s = [state |-> r.state, rev |-> r.rev, resume |-> r.resume,
             cancel |-> TRUE, pause |-> FALSE, imported |-> r.imported]
    BY <2>2 DEF Row
  <2>4. QED
    BY <2>3 DEF s
<1>3. TRUE # None /\ r.cancel \in BOOLEAN
  BY NoneAssumption DEF Row
<1>4. Apply(r, Diff(snap, new)) = [r EXCEPT !.cancel = TRUE]
  BY <1>1, <1>2, <1>3 DEF Apply, Diff, Written, Changed, Row
<1>5. QED
  BY <1>4 DEF new

LEMMA IdleRow ==
    ASSUME NEW r \in Row, NEW snap \in Row, snap.pause = r.pause, snap.cancel = r.cancel,
           Consistent(snap), snap.state \notin Terminal \cup {"none"}
    PROVE  LET s == Apply(r, Diff(snap, CancelledRow(snap, FALSE)))
           IN  /\ s.state = "cancelled" /\ s.rev = "cancelled" /\ s.resume = r.resume
               /\ ~s.pause /\ s.cancel /\ s.imported = r.imported
<1> DEFINE new == CancelledRow(snap, FALSE)
<1>1. /\ new.state = "cancelled" /\ new.rev = "cancelled" /\ new.resume = snap.resume
      /\ new.cancel = TRUE /\ new.pause = FALSE /\ new.imported = snap.imported
  BY DEF CancelledRow, Ended, Row
<1>2. snap.state # "cancelled" /\ snap.rev # "cancelled"
  BY DEF Consistent, Active, Terminal, Row, State
<1>3. TRUE # None /\ FALSE # None /\ "cancelled" # None /\ r.cancel \in BOOLEAN /\ r.pause \in BOOLEAN
  BY NoneAssumption DEF Row, State, Terminal
<1> HIDE DEF new
<1>4. LET s == Apply(r, Diff(snap, new))
      IN  /\ s.state = "cancelled" /\ s.rev = "cancelled" /\ s.resume = r.resume
          /\ ~s.pause /\ s.cancel /\ s.imported = r.imported
  BY <1>1, <1>2, <1>3 DEF Apply, Diff, Written, Changed
<1>5. QED
  BY <1>4 DEF new

LEMMA ResumeRow ==
    ASSUME NEW r \in Row, Consistent(r)
    PROVE  LET s == Apply(r, Diff(r, ResumedRow(r, FALSE)))
           IN  /\ s.state \in Active /\ s.rev = s.state /\ s.resume = "none"
               /\ ~s.pause /\ s.cancel = r.cancel /\ s.imported = 0
<1> DEFINE new == ResumedRow(r, FALSE)
<1>1. /\ new.state \in Active /\ new.rev = new.state /\ new.resume = "none"
      /\ ~new.pause /\ new.cancel = r.cancel /\ new.imported = 0
  <2> DEFINE st == IF r.resume = "none" THEN "queued" ELSE r.resume
             back == [r EXCEPT !.state = st, !.rev = st, !.resume = "none", !.pause = FALSE]
  <2>1. st \in Active
    BY DEF Consistent, Active
  <2>2. back.state = st /\ back.rev = st /\ back.resume = "none" /\ back.pause = FALSE
        /\ back.cancel = r.cancel /\ [back EXCEPT !.imported = 0].imported = 0
        /\ new = [back EXCEPT !.imported = 0]
    BY DEF ResumedRow, Row
  <2> HIDE DEF st, new
  <2>3. QED
    BY <2>1, <2>2
<1>2. Apply(r, Diff(r, new)) = new
  BY HandlersType, ApplyDiff
<1>3. QED
  BY <1>1, <1>2

-----------------------------------------------------------------------------
(* The steps of a thread. It is the only one of its job, and no request that *)
(* relies on the whole row is about its job: that job is paused.             *)

LEMMA OneThreadSolo ==
    ASSUME TypeInv, TypeInv', SoloInv, NEW w \in Workers, worker[w].pc # "dead", ~Pending(w),
           UNCHANGED <<call, stopJobs>>,
           \A v \in Workers \ {w} : worker'[v] = worker[v],
           \A j \in Jobs \ {worker[w].job} : job'[j] = job[j] /\ threads'[j] = threads[j],
           worker'[w].job = worker[w].job, worker'[w].pc # "dead",
           worker'[w].pc # "new" => threads'[worker[w].job] = w,
           Works(worker'[w], job'[worker[w].job]), Consistent(job'[worker[w].job]),
           job'[worker[w].job].pause = job[worker[w].job].pause,
           job'[worker[w].job].cancel = job[worker[w].job].cancel,
           call.op = "cancelIdle" /\ call.job = worker[w].job =>
               worker'[w].pc \in Early \cup {"fail", "exit"}
    PROVE  SoloInv'
<1> DEFINE k == worker[w].job
<1>1. k \in Jobs /\ k # None /\ Works(worker[w], job[k])
  BY JobsAssumption DEF TypeInv, ThreadOK, SoloInv, ThreadsWork
<1>2. ASSUME NEW v \in Workers \ {w}
      PROVE  worker[v].job # k
  BY <1>1, <1>2 DEF SoloInv, OneWorker
<1>3. \A v \in Workers : worker'[v].job = worker[v].job
  OBVIOUS
<1>4. \A v \in Workers : worker[v].pc # "dead" => worker[v].job \in Jobs
  BY DEF TypeInv, ThreadOK
<1>5. OneWorker'
  BY <1>3 DEF SoloInv, OneWorker
<1>6. ThreadsWork'
  <2> SUFFICES ASSUME NEW v \in Workers, worker'[v].pc # "dead", ~Pending(v)'
               PROVE  Works(worker'[v], job'[worker'[v].job])
    BY DEF ThreadsWork
  <2>1. CASE v = w
    BY <2>1
  <2>2. CASE v # w
    <3>1. worker'[v] = worker[v] /\ worker[v].job \in Jobs \ {k}
      BY <1>2, <1>4, <2>2
    <3>2. job'[worker[v].job] = job[worker[v].job] /\ Works(worker[v], job[worker[v].job])
      BY <3>1 DEF SoloInv, ThreadsWork, Pending
    <3>3. QED
      BY <3>1, <3>2
  <2>3. QED
    BY <2>1, <2>2
<1>7. ThreadsRegistered'
  BY <1>2, <1>3, <1>4 DEF SoloInv, ThreadsRegistered
<1>8. RowsConsistent'
  <2> SUFFICES ASSUME NEW j \in Jobs
               PROVE  (Consistent(job[j]) /\ (job[j].state \in Active => \E v \in Workers : worker[v].job = j))'
    BY DEF RowsConsistent
  <2>1. CASE j = k
    BY <1>3, <2>1
  <2>2. CASE j # k
    BY <1>3, <2>2 DEF SoloInv, RowsConsistent
  <2>3. QED
    BY <2>1, <2>2
<1>9. RequestAgrees'
  <2>1. ASSUME call.op # "none"
        PROVE  Agrees(call, job'[call.job])
    <3>1. Agrees(call, job[call.job]) /\ call.job \in Jobs
      BY <2>1 DEF SoloInv, RequestAgrees, TypeInv, CallOK
    <3>2. CASE call.job = k
      BY <1>1, <3>1, <3>2 DEF Agrees, Works
    <3>3. CASE call.job # k
      BY <3>1, <3>3
    <3>4. QED
      BY <3>2, <3>3
  <2>2. ASSUME call.op = "resumeSpawn"
        PROVE  call.spawn \in Workers /\ worker'[call.spawn] = Thread(call.job, "registered")
    BY <2>2 DEF SoloInv, RequestAgrees, Pending
  <2>3. ASSUME call.op = "cancelIdle", NEW v \in Workers, worker'[v].job = call.job
        PROVE  worker'[v].pc \in Early \cup {"fail", "exit"}
    BY <1>3, <2>3 DEF SoloInv, RequestAgrees
  <2>4. QED
    BY <2>1, <2>2, <2>3 DEF SoloInv, RequestAgrees
<1>10. QED
  BY <1>5, <1>6, <1>7, <1>8, <1>9 DEF SoloInv

\* A thread that moves on without a commit.
LEMMA MoveSolo ==
    ASSUME TypeInv, TypeInv', SoloInv, NEW w \in Workers, worker[w].pc # "dead", ~Pending(w),
           UNCHANGED <<job, call, stopJobs>>,
           \A v \in Workers \ {w} : worker'[v] = worker[v],
           UNCHANGED threads \/ threads' = [threads EXCEPT ![worker[w].job] = w],
           worker'[w].job = worker[w].job, worker'[w].pc \notin {"dead", "new"},
           worker[w].pc = "new" => threads' = [threads EXCEPT ![worker[w].job] = w],
           Works(worker'[w], job[worker[w].job]),
           call.op = "cancelIdle" /\ call.job = worker[w].job =>
               worker'[w].pc \in Early \cup {"fail", "exit"}
    PROVE  SoloInv'
<1> DEFINE k == worker[w].job
<1>1. k \in Jobs /\ threads \in [Jobs -> Workers \cup {None}]
  BY DEF TypeInv, TypeOK, ThreadOK
<1>2. \A j \in Jobs \ {k} : threads'[j] = threads[j]
  BY <1>1
<1>3. threads'[k] = w
  BY <1>1 DEF SoloInv, ThreadsRegistered
<1>4. Consistent(job'[k]) /\ Works(worker'[w], job'[k])
  BY <1>1 DEF SoloInv, RowsConsistent
<1> HIDE DEF k
<1>5. QED
  BY <1>2, <1>3, <1>4, OneThreadSolo DEF k

\* The steps of a thread before it runs, at its checkpoints and in the scan.
LEMMA AwaySolo ==
    ASSUME TypeInv, TypeInv', ControlInv, SoloInv, NEW w \in Workers,
           RegisterThread(w) \/ StartThread(w) \/ CheckPass(w) \/ CountRecord(w) \/ Raise(w)
    PROVE  SoloInv'
<1> DEFINE me == worker[w]
           r == job[me.job]
<1>1. me \in WorkerState /\ ThreadOK(me) /\ me.pc # "dead"
  BY DEF TypeInv, TypeOK, RegisterThread, StartThread, CheckPass, AtCheckpoint, CountRecord, Raise,
     Checkpoints, Sessions
<1>2. ~Pending(w)
  <2>1. ASSUME Pending(w)
        PROVE  me.pc = "registered"
    <3>1. me = Thread(call.job, "registered")
      BY <2>1 DEF SoloInv, RequestAgrees, Pending
    <3>2. QED
      BY <3>1 DEF Thread, Dead
  <2>2. QED
    BY <2>1 DEF RegisterThread, StartThread, CheckPass, AtCheckpoint, CountRecord, Raise,
       Checkpoints, Sessions, Pending
<1>3. Works(me, r)
  BY <1>1, <1>2 DEF SoloInv, ThreadsWork
<1>4. UNCHANGED <<job, call, stopJobs>> /\ \A v \in Workers \ {w} : worker'[v] = worker[v]
  BY DEF RegisterThread, StartThread, CheckPass, CountRecord, Raise, TypeInv, TypeOK
<1>5. CASE RegisterThread(w)
  <2>1. me.pc = "new" /\ worker'[w] = [me EXCEPT !.pc = "registered"]
        /\ threads' = [threads EXCEPT ![me.job] = w]
    BY <1>5 DEF RegisterThread, TypeInv, TypeOK
  <2>2. worker'[w].job = me.job /\ worker'[w].pc = "registered" /\ worker'[w].open = me.open
        /\ worker'[w].hold = me.hold /\ worker'[w].done = me.done
    BY <1>1, <2>1 DEF WorkerState
  <2>3. ~me.open /\ me.hold = "no"
    BY <1>1, <1>3, <2>1 DEF Works, Sessions, ThreadOK, Checkpoints, WorkerState
  <2>4. Works(worker'[w], r)
    BY <1>3, <2>1, <2>2, <2>3 DEF Works, Early, Busy
  <2>5. QED
    BY <1>1, <1>2, <1>4, <2>1, <2>2, <2>4, MoveSolo DEF Early
<1>6. CASE StartThread(w)
  <2>1. me.pc = "registered" /\ worker'[w] = [me EXCEPT !.pc = "begin"] /\ UNCHANGED threads
    BY <1>6 DEF StartThread, TypeInv, TypeOK
  <2>2. worker'[w].job = me.job /\ worker'[w].pc = "begin" /\ worker'[w].open = me.open
        /\ worker'[w].hold = me.hold /\ worker'[w].done = me.done
    BY <1>1, <2>1 DEF WorkerState
  <2>3. ~me.open /\ me.hold = "no"
    BY <1>1, <1>3, <2>1 DEF Works, Sessions, ThreadOK, Checkpoints, WorkerState
  <2>4. Works(worker'[w], r)
    BY <1>3, <2>1, <2>2, <2>3 DEF Works, Early, Busy
  <2>5. QED
    BY <1>1, <1>2, <1>4, <2>1, <2>2, <2>4, MoveSolo DEF Early
<1>7. CASE CheckPass(w)
  <2>1. me.pc \in Checkpoints /\ worker'[w] = [me EXCEPT !.pc = PassPc(me.pc)] /\ UNCHANGED threads
        /\ call = NoCall /\ me.hold = "no" /\ ~r.cancel
    BY <1>7 DEF CheckPass, AtCheckpoint, LockFree, TypeInv, TypeOK
  <2>2. worker'[w].job = me.job /\ worker'[w].pc = PassPc(me.pc) /\ worker'[w].open = me.open
        /\ worker'[w].hold = me.hold /\ worker'[w].done = me.done /\ worker'[w].found = me.found
    BY <1>1, <2>1 DEF WorkerState
  <2>3. ~me.open
    BY <1>1, <1>3, <2>1 DEF Works, Sessions, Checkpoints, WorkerState
  <2>4. r.state \in Active
    BY <1>3, <2>1 DEF Works, Workable, Early, Busy, Checkpoints
  <2>5. PassPc(me.pc) \in Busy /\ (PassPc(me.pc) \in {"end", "complete"} => me.pc = "end")
    BY <2>1 DEF PassPc, Busy, Checkpoints
  <2>6. Works(worker'[w], r)
    BY <1>3, <2>1, <2>2, <2>3, <2>4, <2>5 DEF Works, Early, Busy
  <2>7. call.op # "cancelIdle" /\ me.pc # "new"
    BY <2>1 DEF NoCall, Checkpoints
  <2>8. QED
    BY <1>1, <1>2, <1>4, <2>1, <2>2, <2>5, <2>6, <2>7, MoveSolo DEF Busy
<1>8. CASE CountRecord(w)
  <2>1. me.pc = "count" /\ worker'[w] = [me EXCEPT !.found = @ + 1, !.pc = ScanPc(me.found + 1)]
        /\ UNCHANGED threads
    BY <1>8 DEF CountRecord, TypeInv, TypeOK
  <2>2. worker'[w].job = me.job /\ worker'[w].pc = ScanPc(me.found + 1) /\ worker'[w].open = me.open
        /\ worker'[w].hold = me.hold /\ worker'[w].done = me.done
    BY <1>1, <2>1 DEF WorkerState
  <2>3. ~me.open /\ me.hold = "no" /\ r.state \in Active
    BY <1>1, <1>3, <2>1 DEF Works, Sessions, Checkpoints, WorkerState, ThreadOK, Busy
  <2>4. ScanPc(me.found + 1) \in {"scan", "paired"}
    BY DEF ScanPc
  <2>5. Works(worker'[w], r)
    BY <1>3, <2>1, <2>2, <2>3, <2>4 DEF Works, Workable, Early, Busy
  <2>6. ~(call.op = "cancelIdle" /\ call.job = me.job)
    BY <2>1 DEF SoloInv, RequestAgrees, Early
  <2>7. QED
    BY <1>1, <1>2, <1>4, <2>1, <2>2, <2>4, <2>5, <2>6, MoveSolo
<1>9. CASE Raise(w)
  <2>1. me.pc \in (Checkpoints \cup Sessions \cup {"count"}) \ {"fail"} /\ UNCHANGED threads
        /\ worker'[w] = [me EXCEPT !.pc = "fail", !.open = FALSE, !.hold = "no", !.update = NoUpdate]
    BY <1>9 DEF Raise, TypeInv, TypeOK
  <2>2. worker'[w].job = me.job /\ worker'[w].pc = "fail" /\ worker'[w].open = FALSE
        /\ worker'[w].hold = "no" /\ worker'[w].done = me.done
    BY <1>1, <2>1 DEF WorkerState
  <2>3. r.state \in Active \cup {"cancelled"}
    BY <1>3, <2>1 DEF Works, Workable, Early, Busy, Checkpoints, Sessions
  <2>4. Works(worker'[w], r)
    BY <1>3, <2>2, <2>3 DEF Works, Early, Busy
  <2>5. me.pc # "new"
    BY <2>1 DEF Checkpoints, Sessions
  <2>6. QED
    BY <1>1, <1>2, <1>4, <2>1, <2>2, <2>4, <2>5, MoveSolo
<1>10. QED
  BY <1>5, <1>6, <1>7, <1>8, <1>9

\* A thread that runs is at work on a job.
LEMMA RunningWorks ==
    ASSUME TypeInv, SoloInv, NEW w \in Workers, worker[w].pc \notin {"dead", "registered"}
    PROVE  /\ ~Pending(w) /\ worker[w] \in WorkerState /\ ThreadOK(worker[w]) /\ worker[w].job \in Jobs
           /\ job[worker[w].job] \in Row /\ Consistent(job[worker[w].job])
           /\ Works(worker[w], job[worker[w].job])
<1>1. worker[w] \in WorkerState /\ ThreadOK(worker[w]) /\ worker[w].job \in Jobs
      /\ job[worker[w].job] \in Row
  BY DEF TypeInv, TypeOK, ThreadOK
<1>2. ~Pending(w)
  BY DEF SoloInv, RequestAgrees, Pending, Thread, Dead
<1>3. QED
  BY <1>1, <1>2 DEF SoloInv, ThreadsWork, RowsConsistent

\* A checkpoint that finds the cancellation, and its commit. Nobody sleeps.
LEMMA HaltSolo ==
    ASSUME TypeInv, TypeInv', ControlInv, SoloInv, NEW w \in Workers,
           CheckShutdown(w) \/ CheckRead(w) \/ CheckCommit(w) \/ CheckWait(w)
    PROVE  SoloInv'
<1> DEFINE me == worker[w]
           r == job[me.job]
<1>1. me.pc \in Checkpoints
  BY DEF CheckShutdown, CheckRead, CheckCommit, CheckWait, AtCheckpoint, TypeInv, ThreadOK
<1>2. /\ ~Pending(w) /\ me \in WorkerState /\ ThreadOK(me) /\ me.job \in Jobs
      /\ r \in Row /\ Consistent(r) /\ Works(me, r)
  BY <1>1, RunningWorks DEF Checkpoints
<1>3. ~r.pause /\ me.job \notin stopJobs
  BY <1>2 DEF Works, SoloInv
<1>4. CheckRead(w) \/ CheckCommit(w)
  BY <1>3 DEF CheckShutdown, CheckWait
<1>5. CASE CheckRead(w)
  <2> DEFINE u == Diff(r, Ended(r, "cancelled"))
  <2>1. /\ r.cancel /\ UNCHANGED <<job, threads, call, stopJobs>> /\ call = NoCall
        /\ worker' = [worker EXCEPT ![w].hold = "halt", ![w].update = u]
    BY <1>3, <1>5 DEF CheckRead, AtCheckpoint, LockFree
  <2> HIDE DEF u
  <2>2. worker'[w] = [me EXCEPT !.hold = "halt", !.update = u]
        /\ \A v \in Workers \ {w} : worker'[v] = worker[v]
    BY <2>1 DEF TypeInv, TypeOK
  <2>3. worker'[w].job = me.job /\ worker'[w].pc = me.pc /\ worker'[w].open = me.open
        /\ worker'[w].hold = "halt" /\ worker'[w].update = u /\ worker'[w].done = me.done
        /\ worker'[w].found = me.found
    BY <1>2, <2>2 DEF WorkerState
  <2>4. ~me.open
    BY <1>1, <1>2 DEF Works, Sessions, Checkpoints, WorkerState
  <2>5. Works(worker'[w], r)
    BY <1>2, <2>1, <2>3, <2>4 DEF Works, u
  <2>6. call.op # "cancelIdle"
    BY <2>1 DEF NoCall
  <2>7. QED
    BY <1>1, <1>2, <2>1, <2>2, <2>3, <2>5, <2>6, MoveSolo DEF Checkpoints
<1>6. CASE CheckCommit(w)
  <2> DEFINE row == Ended(r, "cancelled")
             t == [me EXCEPT !.hold = "no", !.update = NoUpdate,
                             !.pc = IF me.hold = "halt" THEN StopPc(@) ELSE @]
  <2>1. /\ me.hold # "no" /\ UNCHANGED <<threads, call, stopJobs>>
        /\ worker' = [worker EXCEPT ![w] = t]
        /\ job' = [job EXCEPT ![me.job] = Apply(r, me.update)]
    BY <1>6 DEF CheckCommit
  <2>2. r.cancel /\ me.update = Diff(r, row) /\ call = NoCall
    BY <1>2, <2>1 DEF Works, ControlInv, HoldsRightly
  <2>3. me.hold = "halt"
    BY <1>2, <2>1, <2>2 DEF ControlInv, HoldsRightly, Paused, WorkerState
  <2>4. row \in Row /\ row.state = "cancelled" /\ row.rev = "cancelled" /\ row.resume = r.resume
        /\ row.pause = r.pause /\ row.cancel = r.cancel /\ row.imported = r.imported
    BY <1>2 DEF Ended, Row, State, Terminal
  <2>5. /\ t.job = me.job /\ t.pc = StopPc(me.pc) /\ t.open = me.open /\ t.hold = "no"
        /\ t.done = me.done
    BY <1>2, <2>3 DEF WorkerState
  <2> HIDE DEF t, row
  <2>6. Apply(r, me.update) = row
    BY <1>2, <2>2, <2>4, ApplyDiff
  <2>7. job'[me.job] = row /\ \A j \in Jobs \ {me.job} : job'[j] = job[j]
    BY <1>2, <2>1, <2>6 DEF TypeInv, TypeOK
  <2>8. worker'[w] = t /\ \A v \in Workers \ {w} : worker'[v] = worker[v]
    BY <2>1 DEF TypeInv, TypeOK
  <2>9. StopPc(me.pc) \in {"paired", "exit"} /\ ~me.open
    BY <1>1, <1>2 DEF StopPc, Works, Sessions, Checkpoints, WorkerState
  <2>10. Works(t, row)
    BY <1>2, <2>2, <2>4, <2>5, <2>9 DEF Works, Workable, Early, Busy, Terminal
  <2>11. Consistent(row)
    BY <1>2, <1>3, <2>4 DEF Consistent, Active, Terminal
  <2>12. call.op # "cancelIdle" /\ threads[me.job] = w
    BY <1>1, <2>2 DEF NoCall, SoloInv, ThreadsRegistered, Checkpoints
  <2>13. t.pc \notin {"dead", "new"} /\ me.pc # "dead"
    BY <1>1, <2>5, <2>9 DEF Checkpoints
  <2>14. QED
    BY <1>2, <2>1, <2>4, <2>5, <2>7, <2>8, <2>10, <2>11, <2>12, <2>13, OneThreadSolo
<1>7. QED
  BY <1>4, <1>5, <1>6

\* The read of a session.
LEMMA ReadSolo ==
    ASSUME TypeInv, TypeInv', SoloInv, NEW w \in Workers, ReadSession(w)
    PROVE  SoloInv'
<1> DEFINE me == worker[w]
           r == job[me.job]
           u == Diff(r, Handled(me.pc, r))
<1>1. /\ me.pc \in Sessions /\ ~me.open /\ UNCHANGED <<job, threads, call, stopJobs>>
      /\ worker' = [worker EXCEPT ![w].open = TRUE, ![w].update = u]
  BY DEF ReadSession
<1>2. /\ ~Pending(w) /\ me \in WorkerState /\ ThreadOK(me) /\ me.job \in Jobs
      /\ r \in Row /\ Consistent(r) /\ Works(me, r)
  BY <1>1, RunningWorks DEF Sessions
<1>3. me.pc # "fail" => \E c \in BOOLEAN :
         u = Diff([r EXCEPT !.cancel = c], Handled(me.pc, [r EXCEPT !.cancel = c]))
  <2>1. r.cancel \in BOOLEAN /\ [r EXCEPT !.cancel = r.cancel] = r
    BY <1>2 DEF Row
  <2>2. QED
    BY <2>1
<1>4. me.pc = "fail" => u = FailedUpdate
  BY <1>2, FailReads DEF Works
<1> HIDE DEF u
<1>5. worker'[w] = [me EXCEPT !.open = TRUE, !.update = u]
      /\ \A v \in Workers \ {w} : worker'[v] = worker[v]
  BY <1>1 DEF TypeInv, TypeOK
<1>6. worker'[w].job = me.job /\ worker'[w].pc = me.pc /\ worker'[w].open = TRUE
          /\ worker'[w].hold = me.hold /\ worker'[w].update = u /\ worker'[w].done = me.done
      /\ worker'[w].found = me.found
  BY <1>2, <1>5 DEF WorkerState
<1>7. me.hold = "no"
  BY <1>1, <1>2 DEF ThreadOK, Sessions, Checkpoints, WorkerState
<1>8. Works(worker'[w], r)
  BY <1>1, <1>2, <1>3, <1>4, <1>6, <1>7 DEF Works, Writes
<1>9. call.op = "cancelIdle" /\ call.job = me.job => me.pc = "fail"
  BY <1>1 DEF SoloInv, RequestAgrees, Early, Sessions
<1>10. QED
  BY <1>1, <1>2, <1>5, <1>6, <1>8, <1>9, MoveSolo DEF Sessions

\* The commits of the sessions.
LEMMA CommitSolo ==
    ASSUME TypeInv, TypeInv', WholeInv, SoloInv, NEW w \in Workers,
           Discovering(w) \/ Previewing(w) \/ SavePhoto(w) \/ EndJob(w)
    PROVE  SoloInv'
<1> DEFINE me == worker[w]
           r == job[me.job]
           row == Apply(r, me.update)
<1>1. me.pc \in Sessions /\ me.open
  BY DEF Discovering, Previewing, SavePhoto, EndJob, Commits, Sessions
<1>2. /\ ~Pending(w) /\ me \in WorkerState /\ ThreadOK(me) /\ me.job \in Jobs
      /\ r \in Row /\ Consistent(r) /\ Works(me, r)
  BY <1>1, RunningWorks DEF Sessions
<1>3. /\ ~r.pause /\ me.hold = "no" /\ r.imported = me.done
      /\ threads[me.job] = w
  BY <1>1, <1>2 DEF Works, ThreadOK, Sessions, Checkpoints, WorkerState, SoloInv, ThreadsRegistered
<1>4. me.pc # "fail" => r.state \in Active /\
         \E c \in BOOLEAN : row = [Handled(me.pc, [r EXCEPT !.cancel = c]) EXCEPT !.cancel = r.cancel]
  BY <1>1, <1>2, SessionRow DEF Works, Busy, Sessions
<1>5. me.pc = "fail" => row = Apply(r, FailedUpdate)
  BY <1>1, <1>2 DEF Works
<1>6. ~(call.op = "cancelIdle" /\ call.job = me.job) \/ me.pc = "fail"
  BY <1>1 DEF SoloInv, RequestAgrees, Early, Sessions
<1> HIDE DEF row
<1>7. ASSUME NEW next \in WorkerState, Commits(w, next), next.job = me.job,
             next.pc \notin {"dead", "new"} \cup Sessions, next.hold = "no",
             Consistent(row), row.pause = r.pause, row.cancel = r.cancel, row.imported = next.done,
             next.pc \in Early \cup {"paired"} => Workable(row),
             next.pc \in Busy => row.state \in Active,
             next.pc = "exit" => row.state \in Terminal,
             next.pc \in {"end", "complete"} => next.done = next.found,
             next.pc = "exit" \/ me.pc # "fail"
      PROVE  SoloInv'
  <2> DEFINE t == [next EXCEPT !.open = FALSE, !.update = NoUpdate]
  <2>1. t.job = me.job /\ t.pc = next.pc /\ t.open = FALSE /\ t.hold = "no" /\ t.done = next.done
        /\ t.found = next.found
    BY <1>7 DEF WorkerState
  <2>2. worker' = [worker EXCEPT ![w] = t] /\ UNCHANGED <<threads, call, stopJobs>>
        /\ job' = [job EXCEPT ![me.job] = row]
    BY <1>7 DEF Commits, row
  <2> HIDE DEF t
  <2>3. worker'[w] = t /\ \A v \in Workers \ {w} : worker'[v] = worker[v]
    BY <2>2 DEF TypeInv, TypeOK
  <2>4. job'[me.job] = row /\ \A j \in Jobs \ {me.job} : job'[j] = job[j]
    BY <1>2, <2>2 DEF TypeInv, TypeOK
  <2>5. Works(t, row)
    BY <1>3, <1>7, <2>1 DEF Works, Sessions
  <2>6. call.op = "cancelIdle" /\ call.job = me.job => t.pc = "exit"
    BY <1>6, <1>7, <2>1
  <2>7. me.pc # "dead" /\ t.pc \notin {"dead", "new"}
    BY <1>1, <1>7, <2>1 DEF Sessions
  <2>8. QED
    BY <1>2, <1>3, <1>7, <2>1, <2>2, <2>3, <2>4, <2>5, <2>6, <2>7, OneThreadSolo
<1>8. CASE Discovering(w)
  <2> DEFINE next == [me EXCEPT !.pc = ScanPc(0)]
  <2>1. me.pc = "discovering" /\ Commits(w, next) /\ me.done = 0
    BY <1>2, <1>8 DEF Discovering, ThreadOK
  <2>2. next \in WorkerState /\ next.job = me.job /\ next.pc = ScanPc(0) /\ next.hold = "no"
        /\ next.done = me.done
    BY <1>2, <1>3 DEF WorkerState, ScanPc, Pc, Checkpoints
  <2>3. ScanPc(0) \in {"scan", "paired"}
    BY DEF ScanPc
  <2>4. /\ row.state = "discovering" /\ row.rev = "discovering" /\ row.resume = r.resume
        /\ row.pause = r.pause /\ row.cancel = r.cancel /\ row.imported = r.imported
    <3>1. PICK c \in BOOLEAN :
             row = [Handled("discovering", [r EXCEPT !.cancel = c]) EXCEPT !.cancel = r.cancel]
      BY <1>4, <2>1
    <3>2. r.state \in Active
      BY <1>4, <2>1
    <3> HIDE DEF r
    <3>3. QED
      BY <1>2, <1>3, <3>1, <3>2, DiscoveringRow
  <2>5. Consistent(row) /\ row.state \in Active
    BY <1>2, <1>3, <2>4 DEF Consistent, Active, Terminal
  <2> HIDE DEF next
  <2>6. QED
    BY <1>3, <1>7, <2>1, <2>2, <2>3, <2>4, <2>5 DEF Early, Busy, Sessions, Workable
<1>9. CASE Previewing(w)
  <2> DEFINE next == [me EXCEPT !.pc = ImportPc(0, me.found)]
  <2>1. me.pc = "previewing" /\ Commits(w, next)
    BY <1>9 DEF Previewing
  <2>2. next \in WorkerState /\ next.job = me.job /\ next.pc = ImportPc(0, me.found) /\ next.hold = "no"
        /\ next.done = me.done /\ next.found = me.found
    BY <1>2, <1>3 DEF WorkerState, ImportPc, Pc, Checkpoints
  <2>3. ImportPc(0, me.found) \in {"import", "end"} /\ (ImportPc(0, me.found) = "end" => me.done = me.found)
    BY <1>2, <2>1, NAssumption DEF ImportPc, ThreadOK, WorkerState
  <2>4. /\ row.state = "previewing" /\ row.rev = "previewing" /\ row.resume = r.resume
        /\ row.pause = r.pause /\ row.cancel = r.cancel /\ row.imported = r.imported
    <3>1. PICK c \in BOOLEAN :
             row = [Handled("previewing", [r EXCEPT !.cancel = c]) EXCEPT !.cancel = r.cancel]
      BY <1>4, <2>1
    <3>2. r.state \in Active
      BY <1>4, <2>1
    <3> HIDE DEF r
    <3>3. QED
      BY <1>2, <1>3, <3>1, <3>2, PreviewingRow
  <2>5. Consistent(row) /\ row.state \in Active
    BY <1>2, <1>3, <2>4 DEF Consistent, Active, Terminal
  <2> HIDE DEF next
  <2>6. QED
    BY <1>3, <1>7, <2>1, <2>2, <2>3, <2>4, <2>5 DEF Early, Busy, Sessions, Workable
<1>10. CASE SavePhoto(w)
  <2> DEFINE k == me.done + 1
             next == [me EXCEPT !.done = k, !.pc = ImportPc(k, me.found)]
  <2>1. me.pc = "save" /\ Commits(w, next)
    BY <1>10 DEF SavePhoto
  <2>2. me.done < me.found /\ me.found \in 0..N /\ me.done \in 0..N
    BY <1>2, <2>1 DEF ThreadOK, WorkerState
  <2>3. k \in 0..N /\ Bump(me.done) = k
    BY <2>2, NAssumption DEF Bump
  <2>4. next \in WorkerState /\ next.job = me.job /\ next.pc = ImportPc(k, me.found) /\ next.hold = "no"
        /\ next.done = k /\ next.found = me.found
    BY <1>2, <1>3, <2>3 DEF WorkerState, ImportPc, Pc, Checkpoints
  <2>5. ImportPc(k, me.found) \in {"import", "end"} /\ (ImportPc(k, me.found) = "end" => k = me.found)
    BY <2>2, NAssumption DEF ImportPc
  <2>6. /\ row.state = r.state /\ row.rev = r.rev /\ row.resume = r.resume
        /\ row.pause = r.pause /\ row.cancel = r.cancel /\ row.imported = Bump(r.imported)
    <3>1. PICK c \in BOOLEAN :
             row = [Handled("save", [r EXCEPT !.cancel = c]) EXCEPT !.cancel = r.cancel]
      BY <1>4, <2>1
    <3>2. r.state \in Active
      BY <1>4, <2>1
    <3> HIDE DEF r
    <3>3. QED
      BY <1>2, <1>3, <3>1, <3>2, SaveRow
  <2>7. row.imported = k /\ k <= N /\ r.state \in Active
    BY <1>3, <1>4, <2>1, <2>3, <2>6
  <2> HIDE DEF next, k
  <2>8. Consistent(row) /\ row.state \in Active
    BY <1>2, <1>3, <2>6, <2>7 DEF Consistent, Active, Terminal
  <2>9. QED
    BY <1>3, <1>7, <2>1, <2>4, <2>5, <2>6, <2>7, <2>8 DEF Early, Busy, Sessions, Workable
<1>11. CASE EndJob(w)
  <2> DEFINE next == [me EXCEPT !.pc = "exit"]
  <2>1. me.pc \in {"complete", "fail"} /\ Commits(w, next)
    BY <1>11 DEF EndJob
  <2>2. next \in WorkerState /\ next.job = me.job /\ next.pc = "exit" /\ next.hold = "no"
        /\ next.done = me.done
    BY <1>2, <1>3 DEF WorkerState, Pc
  <2>3. /\ row.state \in Terminal /\ row.rev = row.state /\ row.resume = r.resume
        /\ row.pause = r.pause /\ row.cancel = r.cancel /\ row.imported = r.imported
    <3>1. CASE me.pc = "complete"
      <4>1. PICK c \in BOOLEAN :
               row = [Handled("complete", [r EXCEPT !.cancel = c]) EXCEPT !.cancel = r.cancel]
        BY <1>4, <3>1
      <4> HIDE DEF r
      <4>2. QED
        BY <1>2, <4>1, CompleteRow DEF Terminal
    <3>2. CASE me.pc = "fail"
      BY <1>2, <1>5, <3>2, FailRow DEF Terminal
    <3>3. QED
      BY <2>1, <3>1, <3>2
  <2>4. row.state = "completed" => row.imported = N
    <3>1. CASE me.pc = "complete"
      BY <1>2, <1>3, <2>3, <3>1 DEF Works, WholeInv, ThreadWhole
    <3>2. CASE me.pc = "fail"
      BY <1>2, <1>5, <3>2, FailRow
    <3>3. QED
      BY <2>1, <3>1, <3>2
  <2>5. Consistent(row)
    BY <1>2, <1>3, <2>3, <2>4 DEF Consistent, Active, Terminal
  <2> HIDE DEF next
  <2>6. QED
    BY <1>3, <1>7, <2>1, <2>2, <2>3, <2>5 DEF Early, Busy, Sessions
<1>12. QED
  BY <1>8, <1>9, <1>10, <1>11

\* The end of a thread leaves a job that has ended.
LEMMA ExitSolo ==
    ASSUME TypeInv, TypeInv', SoloInv, NEW w \in Workers, Exit(w)
    PROVE  SoloInv'
<1> DEFINE me == worker[w]
           k == me.job
<1>1. /\ me.pc = "exit" /\ UNCHANGED <<job, call, stopJobs>> /\ worker'[w] = Dead
      /\ \A v \in Workers \ {w} : worker'[v] = worker[v]
      /\ threads' = [threads EXCEPT ![k] = None]
  BY DEF Exit, TypeInv, TypeOK
<1>2. ~Pending(w) /\ k \in Jobs /\ job[k].state \in Terminal
  BY <1>1, RunningWorks DEF Works
<1>3. Dead.job = None /\ Dead.pc = "dead"
  BY DEF Dead
<1>4. \A v \in Workers \ {w} : worker[v].job # k
  BY <1>2, JobsAssumption DEF SoloInv, OneWorker
<1>5. OneWorker'
  BY <1>1, <1>3 DEF SoloInv, OneWorker
<1>6. ThreadsWork'
  BY <1>1, <1>3 DEF SoloInv, ThreadsWork, Pending
<1>7. ThreadsRegistered'
  <2>1. \A v \in Workers \ {w} : worker[v].pc # "dead" => worker[v].job \in Jobs \ {k}
    BY <1>4 DEF TypeInv, ThreadOK
  <2>2. \A j \in Jobs \ {k} : threads'[j] = threads[j]
    BY <1>1 DEF TypeInv, TypeOK
  <2>3. QED
    BY <1>1, <1>3, <2>1, <2>2 DEF SoloInv, ThreadsRegistered
<1>8. RowsConsistent'
  <2> SUFFICES ASSUME NEW j \in Jobs
               PROVE  (Consistent(job[j]) /\ (job[j].state \in Active => \E v \in Workers : worker[v].job = j))'
    BY DEF RowsConsistent
  <2>1. Consistent(job[j])
    BY DEF SoloInv, RowsConsistent
  <2>2. ASSUME job[j].state \in Active
        PROVE  \E v \in Workers \ {w} : worker[v].job = j
    BY <1>2, <2>2 DEF SoloInv, RowsConsistent, Active, Terminal
  <2>3. QED
    BY <1>1, <2>1, <2>2
<1>9. RequestAgrees'
  <2>1. call.op = "resumeSpawn" => call.spawn # w
    BY <1>2 DEF Pending
  <2>2. ASSUME call.op = "cancelIdle", NEW v \in Workers, worker'[v].job = call.job
        PROVE  worker'[v].pc \in Early \cup {"fail", "exit"}
    <3>1. call.job \in Jobs
      BY <2>2 DEF TypeInv, CallOK
    <3>2. v # w
      BY <1>1, <1>3, <2>2, <3>1, JobsAssumption
    <3>3. QED
      BY <1>1, <2>2, <3>2 DEF SoloInv, RequestAgrees
  <2>3. QED
    BY <1>1, <2>1, <2>2 DEF SoloInv, RequestAgrees
<1>10. QED
  BY <1>1, <1>5, <1>6, <1>7, <1>8, <1>9 DEF SoloInv

-----------------------------------------------------------------------------
(* The creation of a job, the requests and the restart.                    *)

LEMMA CreateSolo ==
    ASSUME TypeInv, TypeInv', FreshInv, SoloInv, NEW w \in Workers, NEW k \in Jobs, StartImport(k, w)
    PROVE  SoloInv'
<1> DEFINE t == Thread(k, "new")
<1>1. /\ job[k].state = "none" /\ worker[w].pc = "dead" /\ UNCHANGED <<threads, call, stopJobs>>
      /\ worker'[w] = t /\ \A v \in Workers \ {w} : worker'[v] = worker[v]
      /\ job'[k] = QueuedRow /\ \A j \in Jobs \ {k} : job'[j] = job[j]
  BY DEF StartImport, TypeInv, TypeOK
<1>2. t.job = k /\ t.pc = "new" /\ ~t.open /\ t.hold = "no" /\ t.done = 0
  BY DEF Thread, Dead
<1>3. /\ QueuedRow.state = "queued" /\ QueuedRow.rev = "queued" /\ QueuedRow.resume = "none"
      /\ ~QueuedRow.pause /\ ~QueuedRow.cancel /\ QueuedRow.imported = 0
  BY DEF QueuedRow, NoRow
<1>4. Consistent(QueuedRow) /\ Works(t, QueuedRow)
  BY <1>2, <1>3, NAssumption DEF Consistent, Works, Workable, Active, Terminal, Early, Busy
<1>5. \A v \in Workers : worker[v].pc # "dead" => worker[v].job \in Jobs \ {k}
  BY <1>1, ThreadsHaveRows
<1>6. \A v \in Workers \ {w} : worker[v].job # k
  BY <1>5, JobsAssumption DEF SoloInv, ThreadsRegistered
<1> HIDE DEF t
<1>7. OneWorker'
  BY <1>1, <1>2, <1>6 DEF SoloInv, OneWorker
<1>8. ThreadsWork'
  <2> SUFFICES ASSUME NEW v \in Workers, worker'[v].pc # "dead", ~Pending(v)'
               PROVE  Works(worker'[v], job'[worker'[v].job])
    BY DEF ThreadsWork
  <2>1. CASE v = w
    BY <1>1, <1>2, <1>4, <2>1
  <2>2. CASE v # w
    BY <1>1, <1>5, <2>2 DEF SoloInv, ThreadsWork, Pending
  <2>3. QED
    BY <2>1, <2>2
<1>9. ThreadsRegistered'
  BY <1>1, <1>2 DEF SoloInv, ThreadsRegistered
<1>10. RowsConsistent'
  <2> SUFFICES ASSUME NEW j \in Jobs
               PROVE  (Consistent(job[j]) /\ (job[j].state \in Active => \E v \in Workers : worker[v].job = j))'
    BY DEF RowsConsistent
  <2>1. CASE j = k
    BY <1>1, <1>2, <1>4, <2>1
  <2>2. CASE j # k
    <3>1. Consistent(job[j]) /\ job'[j] = job[j]
      BY <1>1, <2>2 DEF SoloInv, RowsConsistent
    <3>2. ASSUME NEW v \in Workers, worker[v].job = j
          PROVE  v # w
      BY <1>1, <3>2, JobsAssumption DEF SoloInv, ThreadsRegistered
    <3>3. QED
      BY <1>1, <3>1, <3>2 DEF SoloInv, RowsConsistent
  <2>3. QED
    BY <2>1, <2>2
<1>11. RequestAgrees'
  <2>1. call.op # "none" => call.job \in Jobs \ {k}
    BY <1>1 DEF SoloInv, RequestAgrees, TypeInv, CallOK, FreshInv, CallFresh
  <2>2. call.op = "resumeSpawn" => call.spawn # w
    BY <1>1 DEF SoloInv, RequestAgrees, Thread, Dead
  <2>3. call.op = "cancelIdle" => \A v \in Workers : worker'[v].job = call.job => v # w
    BY <1>1, <1>2, <2>1
  <2>4. QED
    BY <1>1, <2>1, <2>2, <2>3 DEF SoloInv, RequestAgrees
<1>12. QED
  BY <1>1, <1>7, <1>8, <1>9, <1>10, <1>11 DEF SoloInv

\* The read and the decision of a request change no row and no thread, but for the
\* thread that a resume creates.
LEMMA RequestSolo ==
    ASSUME TypeInv, TypeInv', FreshInv, SoloInv, UNCHANGED <<job, worker, threads, stopJobs>>,
           ~\E w \in Workers : Pending(w), RequestAgrees'
    PROVE  SoloInv'
<1>1. (OneWorker /\ ThreadsRegistered /\ RowsConsistent)'
  BY DEF SoloInv, OneWorker, ThreadsRegistered, RowsConsistent
<1>2. ThreadsWork'
  BY DEF SoloInv, ThreadsWork
<1>3. QED
  BY <1>1, <1>2 DEF SoloInv

LEMMA CallSolo ==
    ASSUME Unpaused, TypeInv, TypeInv', FreshInv, RegistryLive, SoloInv,
           \/ \E j \in Jobs : Request(j)
           \/ CancelDecide \/ ResumeDecide \/ ShutdownCommit \/ ShutdownEnd \/ ShutdownBegin
           \/ \E j \in Jobs : ShutdownRead(j)
    PROVE  SoloInv'
<1> DEFINE k == call.job
<1>1. ASSUME call.op \notin {"none", "shutdown"}
      PROVE  k \in Jobs /\ call \in CallState /\ call.snap \in Row /\ job[k] \in Row
             /\ call.snap.state # "none"
  BY <1>1 DEF TypeInv, TypeOK, CallOK, CallState, FreshInv, CallFresh
<1>2. ASSUME call.op # "resumeSpawn"
      PROVE  ~\E w \in Workers : Pending(w)
  BY <1>2 DEF Pending
<1>3. ASSUME NEW j \in Jobs, CancelRead(j) \/ ResumeRead(j)
      PROVE  SoloInv'
  <2>1. PICK op \in {"cancel", "resume"} : Begin(op, j)
    BY <1>3 DEF CancelRead, ResumeRead
  <2>2. /\ call = NoCall /\ UNCHANGED <<job, worker, threads, stopJobs>>
        /\ call' = [NoCall EXCEPT !.op = op, !.job = j, !.snap = job[j]]
    BY <2>1 DEF Begin, LockFree
  <2>3. job[j].state \notin Terminal /\ (op = "resume" => job[j].pause)
    <3>1. CASE CancelRead(j)
      <4>1. Begin("cancel", j)
        BY <3>1 DEF CancelRead
      <4>2. op = "cancel"
        <5>1. call'.op = "cancel"
          BY <4>1 DEF Begin, NoCall
        <5>2. call'.op = op
          BY <2>2 DEF NoCall
        <5>3. QED
          BY <5>1, <5>2
      <4>3. QED
        BY <3>1, <4>2 DEF CancelRead
    <3>2. CASE ResumeRead(j)
      BY <3>2 DEF ResumeRead, Terminal
    <3>3. QED
      BY <1>3, <3>1, <3>2
  <2>4. call'.op = op /\ call'.job = j /\ call'.snap = job[j]
    BY <2>2 DEF NoCall
  <2>5. Consistent(job[j])
    BY DEF SoloInv, RowsConsistent
  <2>6. RequestAgrees'
    BY <2>2, <2>3, <2>4, <2>5 DEF RequestAgrees, Agrees
  <2>7. QED
    BY <1>2, <2>2, <2>6, RequestSolo DEF NoCall
<1>4. ASSUME NEW j \in Jobs, PauseRead(j)
      PROVE  FALSE
  BY <1>4 DEF PauseRead, Begin, Unpaused
<1>5. CASE CancelDecide
  <2>1. call.op = "cancel" /\ UNCHANGED <<job, worker, threads, stopJobs>>
    BY <1>5 DEF CancelDecide
  <2>2. Agrees(call, job[k]) /\ k \in Jobs /\ call \in CallState
    BY <1>1, <2>1 DEF SoloInv, RequestAgrees
  <2>3. ASSUME NEW op \in {"cancelLive", "cancelIdle"}, call' = [call EXCEPT !.op = op],
               op = "cancelLive" => ~job[k].pause,
               op = "cancelIdle" => \A w \in Workers : worker[w].job = k => worker[w].pc = "new"
        PROVE  SoloInv'
    <3>1. call'.op = op /\ call'.job = k /\ call'.snap = call.snap
      BY <2>2, <2>3 DEF CallState
    <3>2. RequestAgrees'
      BY <2>1, <2>2, <2>3, <3>1 DEF RequestAgrees, Agrees, Early
    <3>3. QED
      BY <1>2, <2>1, <3>2, RequestSolo
  <2>4. CASE threads[k] # None
    <3>1. threads[k] \in Workers /\ worker[threads[k]].job = k
          /\ worker[threads[k]].pc \notin {"dead", "new"}
      BY <2>2, <2>4 DEF RegistryLive, TypeInv, TypeOK
    <3>2. ~job[k].pause
      BY <2>1, <3>1 DEF SoloInv, ThreadsWork, Pending, Works
    <3>3. call' = [call EXCEPT !.op = "cancelLive"]
      BY <1>5, <2>4 DEF CancelDecide
    <3>4. QED
      BY <2>3, <3>2, <3>3
  <2>5. CASE threads[k] = None
    <3>1. ASSUME NEW w \in Workers, worker[w].job = k
          PROVE  worker[w].pc = "new"
      BY <2>2, <2>5, <3>1, JobsAssumption DEF SoloInv, ThreadsRegistered
    <3>2. call' = [call EXCEPT !.op = "cancelIdle"]
      BY <1>5, <2>5 DEF CancelDecide
    <3>3. QED
      BY <2>3, <3>1, <3>2
  <2>6. QED
    BY <2>4, <2>5
<1>6. CASE ResumeDecide
  <2>1. call.op = "resume" /\ UNCHANGED <<job, stopJobs>>
    BY <1>6 DEF ResumeDecide
  <2>2. Agrees(call, job[k]) /\ k \in Jobs /\ call \in CallState /\ job[k].pause /\ call.snap = job[k]
    BY <1>1, <2>1 DEF SoloInv, RequestAgrees, Agrees
  <2>3. ASSUME NEW w \in Workers, worker[w].pc # "dead"
        PROVE  worker[w].job # k
    BY <2>1, <2>2, <2>3 DEF SoloInv, ThreadsWork, Works, Pending
  <2>4. ~WorkerAlive(k)
    BY <2>2, <2>3 DEF WorkerAlive, RegistryLive, TypeInv, TypeOK
  <2> DEFINE t == Thread(k, "registered")
  <2>5. PICK w \in Workers : /\ worker[w].pc = "dead"
                             /\ call' = [call EXCEPT !.op = "resumeSpawn", !.spawn = w]
                             /\ worker' = [worker EXCEPT ![w] = t]
                             /\ threads' = [threads EXCEPT ![k] = w]
    BY <1>6, <2>4 DEF ResumeDecide
  <2>6. t.job = k /\ t.pc = "registered"
    BY DEF Thread, Dead
  <2>7. call'.op = "resumeSpawn" /\ call'.job = k /\ call'.snap = call.snap /\ call'.spawn = w
    BY <2>2, <2>5 DEF CallState
  <2> HIDE DEF t
  <2>8. /\ worker'[w] = t /\ (\A v \in Workers \ {w} : worker'[v] = worker[v])
        /\ threads'[k] = w /\ \A j \in Jobs \ {k} : threads'[j] = threads[j]
    BY <2>2, <2>5 DEF TypeInv, TypeOK
  <2>9. \A v \in Workers : worker[v].pc # "dead" => worker[v].job \in Jobs \ {k}
    BY <2>3 DEF TypeInv, ThreadOK
  <2>10. \A v \in Workers : worker[v].job # k
    BY <2>2, <2>3, JobsAssumption DEF SoloInv, ThreadsRegistered
  <2>11. OneWorker'
    BY <2>6, <2>8, <2>10 DEF SoloInv, OneWorker
  <2>12. ThreadsWork'
    BY <2>1, <2>7, <2>8, <2>9 DEF SoloInv, ThreadsWork, Pending
  <2>13. ThreadsRegistered'
    BY <2>6, <2>8, <2>9 DEF SoloInv, ThreadsRegistered
  <2>14. RowsConsistent'
    <3> SUFFICES ASSUME NEW j \in Jobs
                 PROVE  (Consistent(job[j]) /\ (job[j].state \in Active => \E v \in Workers : worker[v].job = j))'
      BY DEF RowsConsistent
    <3>1. Consistent(job[j])
      BY DEF SoloInv, RowsConsistent
    <3>2. ASSUME job[j].state \in Active
          PROVE  \E v \in Workers \ {w} : worker[v].job = j
      BY <2>5, <3>2, JobsAssumption DEF SoloInv, RowsConsistent, ThreadsRegistered
    <3>3. QED
      BY <2>1, <2>8, <3>1, <3>2
  <2>15. RequestAgrees'
    BY <2>1, <2>2, <2>7, <2>8 DEF RequestAgrees, Agrees, t
  <2>16. QED
    BY <2>1, <2>11, <2>12, <2>13, <2>14, <2>15 DEF SoloInv
<1>7. CASE ShutdownCommit \/ ShutdownEnd \/ ShutdownBegin \/ \E j \in Jobs : ShutdownRead(j)
  BY <1>7 DEF ShutdownCommit, ShutdownEnd, ShutdownBegin, ShutdownRead, Unpaused, SoloInv,
     RequestAgrees
<1>8. QED
  BY <1>3, <1>4, <1>5, <1>6, <1>7 DEF Request

\* The commit of a request that makes row of the row of its job.
LEMMA FinishSolo ==
    ASSUME TypeInv, TypeInv', SoloInv, call.op # "none", NEW row,
           UNCHANGED <<worker, threads, stopJobs>>, call' = NoCall,
           job' = [job EXCEPT ![call.job] = row], Consistent(row),
           row.state \in Active => \E w \in Workers : worker[w].job = call.job,
           \A w \in Workers : worker[w].pc # "dead" /\ worker[w].job = call.job => Works(worker[w], row)
    PROVE  SoloInv'
<1> DEFINE k == call.job
<1>1. k \in Jobs
  BY DEF SoloInv, RequestAgrees, TypeInv, CallOK
<1>2. job'[k] = row /\ \A j \in Jobs \ {k} : job'[j] = job[j]
  BY <1>1 DEF TypeInv, TypeOK
<1>3. ASSUME NEW w \in Workers, Pending(w)
      PROVE  worker[w].job = k
  BY <1>3 DEF SoloInv, RequestAgrees, Pending, Thread, Dead
<1>4. OneWorker' /\ ThreadsRegistered'
  BY DEF SoloInv, OneWorker, ThreadsRegistered
<1>5. ThreadsWork'
  <2> SUFFICES ASSUME NEW w \in Workers, worker[w].pc # "dead"
               PROVE  Works(worker[w], job'[worker[w].job])
    BY DEF ThreadsWork
  <2>1. worker[w].job \in Jobs
    BY DEF TypeInv, ThreadOK
  <2>2. CASE worker[w].job = k
    BY <1>2, <2>2
  <2>3. CASE worker[w].job # k
    <3>1. job'[worker[w].job] = job[worker[w].job] /\ ~Pending(w)
      BY <1>2, <1>3, <2>1, <2>3
    <3>2. QED
      BY <3>1 DEF SoloInv, ThreadsWork
  <2>4. QED
    BY <2>2, <2>3
<1>6. RowsConsistent'
  <2> SUFFICES ASSUME NEW j \in Jobs
               PROVE  (Consistent(job[j]) /\ (job[j].state \in Active => \E v \in Workers : worker[v].job = j))'
    BY DEF RowsConsistent
  <2>1. CASE j = k
    BY <1>2, <2>1
  <2>2. CASE j # k
    BY <1>2, <2>2 DEF SoloInv, RowsConsistent
  <2>3. QED
    BY <2>1, <2>2
<1>7. RequestAgrees'
  BY DEF RequestAgrees, NoCall
<1>8. QED
  BY <1>4, <1>5, <1>6, <1>7 DEF SoloInv

LEMMA FinishCallSolo ==
    ASSUME TypeInv, TypeInv', FreshInv, ControlInv, SoloInv,
           CancelCommit \/ PauseCommit \/ ResumeCommit
    PROVE  SoloInv'
<1> DEFINE k == call.job
           r == job[k]
<1>1. call.op \in {"cancelLive", "cancelIdle", "resumeSpawn"} /\ call # NoCall
  <2>1. call.op \in {"cancelLive", "cancelIdle", "resumeSpawn"}
    BY DEF CancelCommit, PauseCommit, ResumeCommit, SoloInv, RequestAgrees
  <2>2. NoCall.op = "none"
    BY DEF NoCall
  <2>3. QED
    BY <2>1, <2>2
<1>2. /\ k \in Jobs /\ call.snap \in Row /\ r \in Row /\ Consistent(r)
      /\ call.snap.state # "none" /\ Agrees(call, r)
  BY <1>1 DEF TypeInv, TypeOK, CallOK, CallState, SoloInv, RowsConsistent, RequestAgrees,
     FreshInv, CallFresh
<1>3. ASSUME NEW w \in Workers
      PROVE  worker[w].hold = "no"
  BY <1>1 DEF ControlInv, HoldsRightly
<1>4. CASE call.op = "cancelLive"
  <2> DEFINE row == [r EXCEPT !.cancel = TRUE]
  <2>1. Finish(CancelledRow(call.snap, TRUE))
    BY <1>4 DEF CancelCommit, PauseCommit, ResumeCommit
  <2>2. Apply(r, Diff(call.snap, CancelledRow(call.snap, TRUE))) = row
    BY <1>2, <1>4, LiveRow DEF Agrees
  <2>3. /\ row.state = r.state /\ row.rev = r.rev /\ row.resume = r.resume /\ row.pause = r.pause
        /\ row.imported = r.imported /\ row.cancel = TRUE
        /\ \A c : [row EXCEPT !.cancel = c] = [r EXCEPT !.cancel = c]
    BY <1>2 DEF Row
  <2>4. UNCHANGED <<worker, threads, stopJobs>> /\ call' = NoCall /\ job' = [job EXCEPT ![k] = row]
    BY <2>1, <2>2 DEF Finish
  <2> HIDE DEF row
  <2>5. Consistent(row)
    BY <1>2, <2>3 DEF Consistent
  <2>6. row.state \in Active => \E w \in Workers : worker[w].job = k
    BY <1>2, <2>3 DEF SoloInv, RowsConsistent
  <2>7. ASSUME NEW w \in Workers, worker[w].pc # "dead", worker[w].job = k
        PROVE  Works(worker[w], row)
    <3>1. Works(worker[w], r)
      BY <1>4, <2>7 DEF SoloInv, ThreadsWork, Pending
    <3>2. Writes(worker[w], r) => Writes(worker[w], row)
      BY <2>3 DEF Writes
    <3>3. QED
      BY <1>3, <2>3, <3>1, <3>2 DEF Works, Workable
  <2>8. QED
    BY <1>1, <2>4, <2>5, <2>6, <2>7, FinishSolo
<1>5. CASE call.op = "cancelIdle"
  <2> DEFINE row == Apply(r, Diff(call.snap, CancelledRow(call.snap, FALSE)))
  <2>1. Finish(CancelledRow(call.snap, FALSE))
    BY <1>5 DEF CancelCommit, PauseCommit, ResumeCommit
  <2>2. /\ row.state = "cancelled" /\ row.rev = "cancelled" /\ row.resume = r.resume
        /\ ~row.pause /\ row.cancel /\ row.imported = r.imported
    BY <1>2, IdleRow DEF Agrees
  <2>3. UNCHANGED <<worker, threads, stopJobs>> /\ call' = NoCall /\ job' = [job EXCEPT ![k] = row]
    BY <2>1 DEF Finish
  <2> HIDE DEF row
  <2>4. Consistent(row) /\ row.state \notin Active
    BY <1>2, <2>2 DEF Consistent, Active, Terminal
  <2>5. ASSUME NEW w \in Workers, worker[w].pc # "dead", worker[w].job = k
        PROVE  Works(worker[w], row)
    <3>1. Works(worker[w], r) /\ worker[w].pc \in Early \cup {"fail", "exit"}
      BY <1>5, <2>5 DEF SoloInv, ThreadsWork, Pending, RequestAgrees
    <3>2. worker[w].open => worker[w].pc = "fail"
      BY <3>1 DEF Works, Early, Sessions
    <3>3. QED
      BY <1>3, <2>2, <3>1, <3>2 DEF Works, Workable, Early, Busy, Terminal
  <2>6. QED
    BY <1>1, <2>3, <2>4, <2>5, FinishSolo
<1>6. CASE call.op = "resumeSpawn"
  <2> DEFINE row == Apply(r, Diff(r, ResumedRow(r, FALSE)))
             t == Thread(k, "registered")
  <2>1. Finish(ResumedRow(call.snap, FALSE)) /\ call.snap = r
    BY <1>2, <1>6 DEF CancelCommit, PauseCommit, ResumeCommit, Agrees
  <2>2. /\ row.state \in Active /\ row.rev = row.state /\ row.resume = "none"
        /\ ~row.pause /\ row.cancel = r.cancel /\ row.imported = 0
    BY <1>2, ResumeRow
  <2>3. UNCHANGED <<worker, threads, stopJobs>> /\ call' = NoCall /\ job' = [job EXCEPT ![k] = row]
    BY <2>1 DEF Finish
  <2>4. t.pc = "registered" /\ t.job = k /\ ~t.open /\ t.hold = "no" /\ t.done = 0
    BY DEF Thread, Dead
  <2>5. call.spawn \in Workers /\ worker[call.spawn] = t
    BY <1>6 DEF SoloInv, RequestAgrees
  <2> HIDE DEF row, t
  <2>6. Consistent(row)
    BY <2>2, NAssumption DEF Consistent, Active
  <2>7. ASSUME NEW w \in Workers, worker[w].pc # "dead", worker[w].job = k
        PROVE  Works(worker[w], row)
    <3>1. worker[w] = t
      BY <1>2, <2>4, <2>5, <2>7, JobsAssumption DEF SoloInv, OneWorker
    <3>2. QED
      BY <2>2, <2>4, <3>1 DEF Works, Workable, Early, Busy
  <2>8. QED
    BY <1>1, <2>3, <2>4, <2>5, <2>6, <2>7, FinishSolo
<1>7. QED
  BY <1>1, <1>4, <1>5, <1>6

\* A restart interrupts what was at work.
LEMMA RestartSolo ==
    ASSUME TypeInv, SoloInv, Restart
    PROVE  SoloInv'
<1>1. /\ call' = NoCall /\ stopJobs' = {} /\ \A w \in Workers : worker'[w] = Dead
      /\ \A j \in Jobs : job'[j] = RecoveredRow(job[j])
  BY DEF Restart
<1>2. Dead.job = None /\ Dead.pc = "dead" /\ NoCall.op = "none"
  BY DEF Dead, NoCall
<1>3. ASSUME NEW j \in Jobs
      PROVE  Consistent(job'[j]) /\ job'[j].state \notin Active
  <2>1. job[j] \in Row /\ Consistent(job[j])
    BY DEF TypeInv, TypeOK, SoloInv, RowsConsistent
  <2>2. CASE job[j].state \in Active
    <3> DEFINE s == RecoveredRow(job[j])
    <3>1. s.state = "paused" /\ s.rev = job[j].state /\ s.resume = job[j].state /\ s.pause = TRUE
          /\ s.imported = job[j].imported
      BY <2>1, <2>2 DEF RecoveredRow, Consistent, Row
    <3> HIDE DEF s
    <3>2. Consistent(s) /\ s.state \notin Active
      BY <2>1, <2>2, <3>1 DEF Consistent, Active, Terminal
    <3>3. QED
      BY <1>1, <3>2 DEF s
  <2>3. CASE job[j].state \notin Active
    BY <1>1, <2>1, <2>3 DEF RecoveredRow
  <2>4. QED
    BY <2>2, <2>3
<1>4. (OneWorker /\ ThreadsWork /\ ThreadsRegistered /\ RequestAgrees)'
  BY <1>1, <1>2 DEF OneWorker, ThreadsWork, ThreadsRegistered, RequestAgrees
<1>5. QED
  BY <1>1, <1>3, <1>4 DEF SoloInv, RowsConsistent

LEMMA SoloInit == Init => SoloInv
<1> SUFFICES ASSUME Init
             PROVE  SoloInv
  OBVIOUS
<1>1. Dead.job = None /\ Dead.pc = "dead" /\ NoCall.op = "none"
  BY DEF Dead, NoCall
<1>2. Consistent(NoRow) /\ NoRow.state \notin Active
  BY NAssumption DEF Consistent, NoRow, Active, Terminal
<1>3. QED
  BY <1>1, <1>2 DEF Init, SoloInv, OneWorker, ThreadsWork, ThreadsRegistered, RowsConsistent,
     RequestAgrees

\* What the theorems of ImportJobsProofs know, and the invariant of this module.
UnpausedInv == TypeInv /\ FreshInv /\ WholeInv /\ ControlInv /\ RegistryLive /\ SoloInv

LEMMA UnpausedInit == Init => UnpausedInv
<1>1. Init => ControlInv
  BY DEF Init, ControlInv, Modest, HoldsRightly, Dead, NoUpdate
<1>2. Init => RegistryLive
  BY DEF Init, RegistryLive
<1>3. QED
  BY <1>1, <1>2, TypeInit, FreshInit, WholeInit, SoloInit DEF UnpausedInv

LEMMA UnpausedNext ==
    ASSUME Unpaused, UnpausedInv, [Next]_vars
    PROVE  UnpausedInv'
<1>1. TypeInv' /\ FreshInv' /\ WholeInv' /\ ControlInv' /\ RegistryLive'
  BY TypeNext, FreshNext, WholeNext, ControlNext, RegistryNext DEF UnpausedInv
<1>2. SoloInv'
  <2>1. CASE UNCHANGED vars
    BY <2>1 DEF UnpausedInv, SoloInv, OneWorker, ThreadsWork, ThreadsRegistered, RowsConsistent,
       RequestAgrees, Pending, vars
  <2>2. ASSUME NEW w \in Workers, Checkpoint(w) \/ CheckCommit(w) \/ Session(w) \/ Exit(w)
                                  \/ RegisterThread(w) \/ StartThread(w) \/ Raise(w)
        PROVE  SoloInv'
    BY <1>1, <2>2, AwaySolo, HaltSolo, ReadSolo, CommitSolo, ExitSolo
       DEF UnpausedInv, Checkpoint, Session
  <2>3. ASSUME NEW j \in Jobs, NEW w \in Workers, StartImport(j, w)
        PROVE  SoloInv'
    BY <1>1, <2>3, CreateSolo DEF UnpausedInv
  <2>4. CASE (\E j \in Jobs : Request(j)) \/ ShutdownBegin \/ CallStep
    BY <1>1, <2>4, CallSolo, FinishCallSolo DEF UnpausedInv, CallStep
  <2>5. CASE Restart
    BY <2>5, RestartSolo DEF UnpausedInv
  <2>6. QED
    BY <2>1, <2>2, <2>3, <2>4, <2>5 DEF Next
<1>3. QED
  BY <1>1, <1>2 DEF UnpausedInv

-----------------------------------------------------------------------------
(* The theorems.                                                           *)

\* Without pauses a job has at most one thread at any time: a resume creates one only
\* when the last one is gone, and a new job's thread is its first.
THEOREM AtMostOneWorker == ASSUME Unpaused PROVE Spec => []OneWorker
<1>1. UnpausedInv /\ [Next]_vars => UnpausedInv'
  BY UnpausedNext
<1>2. UnpausedInv => OneWorker
  BY DEF UnpausedInv, SoloInv
<1>3. QED
  BY <1>1, <1>2, UnpausedInit, PTL DEF Spec

\* Without pauses the counter of imported photos describes the current attempt: as long
\* as a job has a thread at work it is what this thread has saved, neither more nor less,
\* it starts again when the job is resumed, and on a completed job it is every photo.
THEOREM CountersAreHonest == ASSUME Unpaused PROVE Spec => []CountersDescribeAttempt
<1>1. UnpausedInv /\ [Next]_vars => UnpausedInv'
  BY UnpausedNext
<1>2. ASSUME UnpausedInv
      PROVE  CountersDescribeAttempt
  <2>1. ASSUME NEW w \in Workers, worker[w].pc \notin {"dead", "registered"}
        PROVE  job[worker[w].job].imported = worker[w].done
    BY <1>2, <2>1, RunningWorks DEF UnpausedInv, Works
  <2>2. ASSUME NEW j \in Jobs
        PROVE  (job[j].state = "completed" => job[j].imported = N) /\ job[j].imported <= N
    BY <1>2 DEF UnpausedInv, SoloInv, RowsConsistent, Consistent
  <2>3. QED
    BY <2>1, <2>2 DEF CountersDescribeAttempt
<1>3. QED
  BY <1>1, <1>2, UnpausedInit, PTL DEF Spec

\* Without pauses a job that counts as active has a thread, or a request is about to
\* give it one: the analysis, which waits for the count, is not held up by a dead job.
THEOREM ActiveJobsAreWorked == ASSUME Unpaused PROVE Spec => []ActiveIsWorked
<1>1. UnpausedInv /\ [Next]_vars => UnpausedInv'
  BY UnpausedNext
<1>2. UnpausedInv => ActiveIsWorked
  BY DEF UnpausedInv, SoloInv, RowsConsistent, ActiveIsWorked, Idle
<1>3. QED
  BY <1>1, <1>2, UnpausedInit, PTL DEF Spec

\* Without pauses the scan revision of an ended job tells the outcome of the job,
\* whoever ended it: the thread, a cancellation, or both.
THEOREM RevisionsAgree == ASSUME Unpaused PROVE Spec => []RevisionAgrees
<1>1. UnpausedInv /\ [Next]_vars => UnpausedInv'
  BY UnpausedNext
<1>2. UnpausedInv => RevisionAgrees
  BY DEF UnpausedInv, SoloInv, RowsConsistent, Consistent, RevisionAgrees
<1>3. QED
  BY <1>1, <1>2, UnpausedInit, PTL DEF Spec

-----------------------------------------------------------------------------
(* The lifecycle. A step of ImportJobs is seen as a step of one job of     *)
(* ImportLifecycle, as the end of the process, or not at all.              *)

PhaseOf == [j \in Jobs |-> Phase(job[j].state)]

\* Two phases of a job, and the step that leads from the one to the other.
LEMMA PhaseMoves ==
    ASSUME TypeInv, NEW k \in Jobs, \A j \in Jobs \ {k} : job'[j] = job[j]
    PROVE  PhaseOf' = [PhaseOf EXCEPT ![k] = Phase(job'[k].state)]
BY DEF PhaseOf

LEMMA PhaseStays ==
    ASSUME \A j \in Jobs : Phase(job'[j].state) = Phase(job[j].state)
    PROVE  PhaseOf' = PhaseOf
BY DEF PhaseOf

LEMMA PhaseValues ==
    /\ \A s \in Active : Phase(s) = "working"
    /\ Phase("paused") = "interrupted"
    /\ \A s \in Terminal \cup {"none"} : Phase(s) = s
BY DEF Phase, Active, Terminal

\* A step that moves the phase of job k and saves no photo.
LEMMA LifecycleMove ==
    ASSUME TypeInv, NEW k \in Jobs, \A j \in Jobs \ {k} : job'[j] = job[j], UNCHANGED seen,
           \/ Phase(job'[k].state) = Phase(job[k].state)
           \/ Phase(job[k].state) = "none" /\ Phase(job'[k].state) = "working"
           \/ Phase(job[k].state) = "interrupted" /\ Phase(job'[k].state) = "working"
           \/ /\ Phase(job[k].state) = "working" /\ Phase(job'[k].state) = "completed"
              /\ seen[k] = Photos
           \/ /\ Phase(job[k].state) \in {"working", "completed", "failed", "cancelled"}
              /\ Phase(job'[k].state) = "failed"
           \/ /\ Phase(job[k].state) \in {"working", "interrupted", "completed", "failed", "cancelled"}
              /\ Phase(job'[k].state) = "cancelled"
    PROVE  [Lifecycle!Next]_(Lifecycle!vars)
<1> DEFINE to == Phase(job'[k].state)
<1>1. PhaseOf' = [PhaseOf EXCEPT ![k] = to] /\ PhaseOf[k] = Phase(job[k].state)
  BY PhaseMoves DEF PhaseOf
<1>2. CASE to = Phase(job[k].state)
  <2>1. PhaseOf' = PhaseOf
    BY <1>2, PhaseStays
  <2>2. QED
    BY <2>1 DEF PhaseOf, Lifecycle!vars
<1>3. ASSUME NEW from, PhaseOf[k] \in from
      PROVE  Lifecycle!Move(k, from, to)
  BY <1>1, <1>3 DEF Lifecycle!Move, PhaseOf
<1>4. CASE Phase(job[k].state) = "none" /\ to = "working"
  BY <1>1, <1>3, <1>4 DEF Lifecycle!Next, Lifecycle!Submit
<1>5. CASE Phase(job[k].state) = "interrupted" /\ to = "working"
  BY <1>1, <1>3, <1>5 DEF Lifecycle!Next, Lifecycle!Resume
<1>6. CASE Phase(job[k].state) = "working" /\ to = "completed" /\ seen[k] = Photos
  BY <1>1, <1>3, <1>6 DEF Lifecycle!Next, Lifecycle!Complete
<1>7. CASE Phase(job[k].state) \in {"working", "completed", "failed", "cancelled"} /\ to = "failed"
  BY <1>1, <1>3, <1>7 DEF Lifecycle!Next, Lifecycle!Fail, Lifecycle!Ended
<1>8. CASE Phase(job[k].state) \in {"working", "interrupted", "completed", "failed", "cancelled"} /\ to = "cancelled"
  BY <1>1, <1>3, <1>8 DEF Lifecycle!Next, Lifecycle!Cancel, Lifecycle!Ended
<1>9. QED
  BY <1>2, <1>4, <1>5, <1>6, <1>7, <1>8

\* The commits of a thread, as the phases see them.
LEMMA CommitLifecycle ==
    ASSUME TypeInv, TypeInv', WholeInv', SoloInv, NEW w \in Workers,
           Discovering(w) \/ Previewing(w) \/ SavePhoto(w) \/ EndJob(w)
    PROVE  [Lifecycle!Next]_(Lifecycle!vars)
<1> DEFINE me == worker[w]
           k == me.job
           r == job[k]
           row == Apply(r, me.update)
<1>1. me.pc \in Sessions /\ me.open /\ job' = [job EXCEPT ![k] = row]
  BY DEF Discovering, Previewing, SavePhoto, EndJob, Commits, Sessions
<1>2. /\ me \in WorkerState /\ ThreadOK(me) /\ k \in Jobs /\ r \in Row /\ Consistent(r) /\ Works(me, r)
  BY <1>1, RunningWorks DEF Sessions
<1>3. job'[k] = row /\ \A j \in Jobs \ {k} : job'[j] = job[j]
  BY <1>1, <1>2 DEF TypeInv, TypeOK
<1>4. ASSUME me.pc # "fail"
      PROVE  r.state \in Active /\ ~r.pause /\
         \E c \in BOOLEAN : row = [Handled(me.pc, [r EXCEPT !.cancel = c]) EXCEPT !.cancel = r.cancel]
  BY <1>1, <1>2, <1>4, SessionRow DEF Works, Busy, Sessions
<1> HIDE DEF row
<1>5. CASE Discovering(w) \/ Previewing(w)
  <2>1. me.pc \in {"discovering", "previewing"} /\ UNCHANGED seen
    BY <1>5 DEF Discovering, Previewing
  <2>2. row.state \in Active
    <3>1. PICK c \in BOOLEAN : row = [Handled(me.pc, [r EXCEPT !.cancel = c]) EXCEPT !.cancel = r.cancel]
      BY <1>4, <2>1
    <3>2. r.state \in Active /\ ~r.pause
      BY <1>4, <2>1
    <3> HIDE DEF r
    <3>3. CASE me.pc = "discovering"
      BY <1>2, <3>1, <3>2, <3>3, DiscoveringRow DEF Active
    <3>4. CASE me.pc = "previewing"
      BY <1>2, <3>1, <3>2, <3>4, PreviewingRow DEF Active
    <3>5. QED
      BY <2>1, <3>3, <3>4
  <2>3. Phase(job'[k].state) = Phase(job[k].state)
    BY <1>3, <1>4, <2>1, <2>2, PhaseValues
  <2>4. QED
    BY <1>2, <1>3, <2>1, <2>3, LifecycleMove
<1>6. CASE SavePhoto(w)
  <2> DEFINE p == me.done + 1
  <2>1. me.pc = "save" /\ seen' = [seen EXCEPT ![k] = @ \cup {p}]
    BY <1>6 DEF SavePhoto
  <2>2. p \in Photos
    BY <1>2, <2>1, NAssumption DEF ThreadOK, WorkerState, Photos
  <2>3. row.state = r.state
    <3>1. PICK c \in BOOLEAN : row = [Handled("save", [r EXCEPT !.cancel = c]) EXCEPT !.cancel = r.cancel]
      BY <1>4, <2>1
    <3> HIDE DEF r
    <3>2. QED
      BY <1>2, <3>1, SaveRow
  <2>4. PhaseOf' = PhaseOf
    BY <1>3, <2>3, PhaseStays
  <2>5. PhaseOf[k] = "working"
    BY <1>2, <1>4, <2>1, PhaseValues DEF PhaseOf
  <2>6. Lifecycle!Import(k)
    BY <2>1, <2>2, <2>4, <2>5 DEF Lifecycle!Import, PhaseOf
  <2>7. QED
    BY <1>2, <2>6 DEF Lifecycle!Next
<1>7. CASE EndJob(w)
  <2>1. me.pc \in {"complete", "fail"} /\ UNCHANGED seen
    BY <1>7 DEF EndJob
  <2>2. CASE me.pc = "complete"
    <3>1. row.state \in {"completed", "cancelled"}
      <4>1. PICK c \in BOOLEAN :
               row = [Handled("complete", [r EXCEPT !.cancel = c]) EXCEPT !.cancel = r.cancel]
        BY <1>4, <2>2
      <4> HIDE DEF r
      <4>2. QED
        BY <1>2, <4>1, CompleteRow
    <3>2. row.state = "completed" => seen[k] = Photos
      BY <1>2, <1>3, <2>1 DEF WholeInv, RowWhole, Whole
    <3>3. Phase(job[k].state) = "working" /\ Phase(job'[k].state) = row.state
      BY <1>3, <1>4, <2>2, <3>1, PhaseValues DEF Terminal
    <3>4. QED
      BY <1>2, <1>3, <2>1, <3>1, <3>2, <3>3, LifecycleMove
  <2>3. CASE me.pc = "fail"
    <3>1. row.state = "failed" /\ r.state \in Active \cup {"cancelled"}
      BY <1>1, <1>2, <2>3, FailRow DEF Works, row
    <3>2. Phase(job[k].state) \in {"working", "cancelled"} /\ Phase(job'[k].state) = "failed"
      BY <1>3, <3>1, PhaseValues DEF Terminal
    <3>3. QED
      BY <1>2, <1>3, <2>1, <3>2, LifecycleMove
  <2>4. QED
    BY <2>1, <2>2, <2>3
<1>8. QED
  BY <1>5, <1>6, <1>7

\* The commit of a checkpoint: it cancels, since nobody is paused.
LEMMA HaltLifecycle ==
    ASSUME TypeInv, ControlInv, SoloInv, NEW w \in Workers, CheckCommit(w)
    PROVE  [Lifecycle!Next]_(Lifecycle!vars)
<1> DEFINE me == worker[w]
           k == me.job
           r == job[k]
           row == Ended(r, "cancelled")
<1>1. me.pc \in Checkpoints /\ me.hold # "no"
  BY DEF CheckCommit, TypeInv, ThreadOK
<1>2. /\ me \in WorkerState /\ k \in Jobs /\ r \in Row /\ Works(me, r)
  BY <1>1, RunningWorks DEF Checkpoints
<1>3. job' = [job EXCEPT ![k] = Apply(r, me.update)] /\ me.update = Diff(r, row) /\ UNCHANGED seen
  BY <1>1, <1>2 DEF CheckCommit, Works
<1>4. row \in Row /\ row.state = "cancelled"
  BY <1>2 DEF Ended, Row, State, Terminal
<1> HIDE DEF row
<1>5. Apply(r, me.update) = row
  BY <1>2, <1>3, <1>4, ApplyDiff
<1>6. job'[k] = row /\ \A j \in Jobs \ {k} : job'[j] = job[j]
  BY <1>2, <1>3, <1>5 DEF TypeInv, TypeOK
<1>7. r.state \in Active \cup {"cancelled"}
  BY <1>1, <1>2 DEF Works, Workable, Early, Busy, Checkpoints
<1>8. Phase(job[k].state) \in {"working", "cancelled"} /\ Phase(job'[k].state) = "cancelled"
  BY <1>4, <1>6, <1>7, PhaseValues DEF Terminal
<1>9. QED
  BY <1>2, <1>3, <1>6, <1>8, LifecycleMove

\* The commit of a request: a cancellation that ends the job, or a resumption.
LEMMA FinishLifecycle ==
    ASSUME TypeInv, FreshInv, SoloInv, CancelCommit \/ PauseCommit \/ ResumeCommit
    PROVE  [Lifecycle!Next]_(Lifecycle!vars)
<1> DEFINE k == call.job
           r == job[k]
<1>1. call.op \in {"cancelLive", "cancelIdle", "resumeSpawn"}
  BY DEF CancelCommit, PauseCommit, ResumeCommit, SoloInv, RequestAgrees
<1>2. /\ k \in Jobs /\ call.snap \in Row /\ r \in Row /\ Consistent(r)
      /\ call.snap.state # "none" /\ r.state # "none" /\ Agrees(call, r)
  BY <1>1 DEF TypeInv, TypeOK, CallOK, CallState, SoloInv, RowsConsistent, RequestAgrees,
     FreshInv, CallFresh
<1>3. ASSUME NEW row, NEW new, Finish(new), Apply(r, Diff(call.snap, new)) = row
      PROVE  job'[k] = row /\ (\A j \in Jobs \ {k} : job'[j] = job[j]) /\ UNCHANGED seen
  BY <1>2, <1>3 DEF Finish, TypeInv, TypeOK
<1>4. CASE call.op = "cancelLive"
  <2> DEFINE row == [r EXCEPT !.cancel = TRUE]
  <2>1. Finish(CancelledRow(call.snap, TRUE))
    BY <1>4 DEF CancelCommit, PauseCommit, ResumeCommit
  <2>2. Apply(r, Diff(call.snap, CancelledRow(call.snap, TRUE))) = row
    BY <1>2, <1>4, LiveRow DEF Agrees
  <2>3. row.state = r.state
    BY <1>2 DEF Row
  <2> HIDE DEF row
  <2>4. job'[k] = row /\ (\A j \in Jobs \ {k} : job'[j] = job[j]) /\ UNCHANGED seen
    BY <1>3, <2>1, <2>2
  <2>5. QED
    BY <1>2, <2>3, <2>4, LifecycleMove
<1>5. CASE call.op = "cancelIdle"
  <2> DEFINE row == Apply(r, Diff(call.snap, CancelledRow(call.snap, FALSE)))
  <2>1. Finish(CancelledRow(call.snap, FALSE))
    BY <1>5 DEF CancelCommit, PauseCommit, ResumeCommit
  <2>2. row.state = "cancelled"
    BY <1>2, IdleRow DEF Agrees
  <2>3. job'[k] = row /\ (\A j \in Jobs \ {k} : job'[j] = job[j]) /\ UNCHANGED seen
    BY <1>3, <2>1
  <2> HIDE DEF row
  <2>4. Phase(job'[k].state) = "cancelled"
    BY <2>2, <2>3, PhaseValues DEF Terminal
  <2>5. Phase(job[k].state) \in {"working", "interrupted", "completed", "failed", "cancelled"}
    BY <1>2, PhaseValues DEF Row, State, Terminal
  <2>6. QED
    BY <1>2, <2>3, <2>4, <2>5, LifecycleMove
<1>6. CASE call.op = "resumeSpawn"
  <2> DEFINE row == Apply(r, Diff(r, ResumedRow(r, FALSE)))
  <2>1. Finish(ResumedRow(call.snap, FALSE)) /\ call.snap = r /\ r.state = "paused"
    BY <1>2, <1>6 DEF CancelCommit, PauseCommit, ResumeCommit, Agrees, Consistent
  <2>2. row.state \in Active
    BY <1>2, ResumeRow
  <2>3. job'[k] = row /\ (\A j \in Jobs \ {k} : job'[j] = job[j]) /\ UNCHANGED seen
    BY <1>3, <2>1
  <2> HIDE DEF row
  <2>4. Phase(job[k].state) = "interrupted" /\ Phase(job'[k].state) = "working"
    BY <2>1, <2>2, <2>3, PhaseValues
  <2>5. QED
    BY <1>2, <2>3, <2>4, LifecycleMove
<1>7. QED
  BY <1>1, <1>4, <1>5, <1>6

\* Every step, and the initial state.
LEMMA LifecycleNext ==
    ASSUME Unpaused, UnpausedInv, UnpausedInv', WholeInv', [Next]_vars
    PROVE  [Lifecycle!Next]_(Lifecycle!vars)
<1> USE DEF UnpausedInv
<1>1. ASSUME UNCHANGED <<job, seen>>
      PROVE  [Lifecycle!Next]_(Lifecycle!vars)
  <2>1. PhaseOf' = PhaseOf
    BY <1>1, PhaseStays
  <2>2. QED
    BY <1>1, <2>1 DEF PhaseOf, Lifecycle!vars
<1>2. ASSUME NEW w \in Workers, Checkpoint(w) \/ RegisterThread(w) \/ StartThread(w) \/ ReadSession(w)
                                \/ CountRecord(w) \/ Raise(w) \/ Exit(w)
      PROVE  UNCHANGED <<job, seen>>
  BY <1>2 DEF Checkpoint, CheckPass, CheckShutdown, CheckRead, CheckWait, RegisterThread, StartThread,
     ReadSession, CountRecord, Raise, Exit
<1>3. ASSUME NEW w \in Workers, Checkpoint(w) \/ CheckCommit(w) \/ Session(w) \/ Exit(w)
                                \/ RegisterThread(w) \/ StartThread(w) \/ Raise(w)
      PROVE  [Lifecycle!Next]_(Lifecycle!vars)
  BY <1>1, <1>2, <1>3, CommitLifecycle, HaltLifecycle DEF Session
<1>4. ASSUME NEW j \in Jobs, NEW w \in Workers, StartImport(j, w)
      PROVE  [Lifecycle!Next]_(Lifecycle!vars)
  <2>1. /\ job[j].state = "none" /\ job'[j] = QueuedRow /\ UNCHANGED seen
        /\ \A i \in Jobs \ {j} : job'[i] = job[i]
    BY <1>4 DEF StartImport, TypeInv, TypeOK
  <2>2. QueuedRow.state = "queued"
    BY DEF QueuedRow, NoRow
  <2>3. Phase(job[j].state) = "none" /\ Phase(job'[j].state) = "working"
    BY <2>1, <2>2, PhaseValues DEF Active
  <2>4. QED
    BY <2>1, <2>3, LifecycleMove
<1>5. CASE (\E j \in Jobs : Request(j)) \/ ShutdownBegin \/ CallStep
  <2>1. CASE CancelCommit \/ PauseCommit \/ ResumeCommit
    BY <2>1, FinishLifecycle
  <2>2. ASSUME ~ShutdownCommit, ~(CancelCommit \/ PauseCommit \/ ResumeCommit)
        PROVE  UNCHANGED <<job, seen>>
    BY <1>5, <2>2 DEF Request, CancelRead, PauseRead, ResumeRead, Begin, ShutdownBegin, CallStep,
       CancelDecide, ResumeDecide, ShutdownEnd, ShutdownRead
  <2>3. ~ShutdownCommit
    BY DEF ShutdownCommit, SoloInv, RequestAgrees
  <2>4. QED
    BY <1>1, <2>1, <2>2, <2>3
<1>6. CASE Restart
  <2>1. UNCHANGED seen /\ \A j \in Jobs : job'[j] = RecoveredRow(job[j])
    BY <1>6 DEF Restart
  <2>2. ASSUME NEW j \in Jobs
        PROVE  Phase(job'[j].state) = IF Phase(job[j].state) = "working" THEN "interrupted"
                                      ELSE Phase(job[j].state)
    <3>1. CASE job[j].state \in Active
      <4>1. RecoveredRow(job[j]).state = "paused"
        BY <3>1 DEF RecoveredRow, TypeInv, TypeOK, Row
      <4>2. QED
        BY <2>1, <3>1, <4>1, PhaseValues
    <3>2. CASE job[j].state \notin Active
      <4>1. job'[j] = job[j]
        BY <2>1, <3>2 DEF RecoveredRow
      <4>2. Phase(job[j].state) # "working"
        BY <3>2, PhaseValues DEF TypeInv, TypeOK, Row, State, Terminal
      <4>3. QED
        BY <4>1, <4>2
    <3>3. QED
      BY <3>1, <3>2
  <2>3. PhaseOf' = [j \in Jobs |-> IF PhaseOf[j] = "working" THEN "interrupted" ELSE PhaseOf[j]]
    BY <2>2 DEF PhaseOf
  <2>4. Lifecycle!Interrupt
    BY <2>1, <2>3 DEF Lifecycle!Interrupt, PhaseOf
  <2>5. QED
    BY <2>4 DEF Lifecycle!Next
<1>7. CASE UNCHANGED vars
  BY <1>1, <1>7 DEF vars
<1>8. QED
  BY <1>3, <1>4, <1>5, <1>6, <1>7 DEF Next

LEMMA LifecycleInit == Init => Lifecycle!Init
<1>1. NoRow.state = "none"
  BY DEF NoRow
<1>2. QED
  BY <1>1, PhaseValues DEF Init, Lifecycle!Init

\* Refinement: without pauses the rows of the jobs behave as ImportLifecycle promises.
\* A job works, may be interrupted and resumed, is completed only when every photo was
\* saved, and never works again once it has ended.
THEOREM JobsFollowLifecycle == ASSUME Unpaused PROVE Spec => ImplementsLifecycle
<1> DEFINE Inv == UnpausedInv /\ WholeInv
<1>1. Init => Inv
  BY UnpausedInit, WholeInit
<1>2. Inv /\ [Next]_vars => Inv'
  <2> SUFFICES ASSUME Inv, [Next]_vars
               PROVE  Inv'
    OBVIOUS
  <2>1. UnpausedInv'
    BY UnpausedNext
  <2>2. QED
    BY <2>1, WholeNext DEF UnpausedInv
<1>3. Inv /\ Inv' /\ [Next]_vars => [Lifecycle!Next]_(Lifecycle!vars)
  BY LifecycleNext
<1>4. QED
  BY <1>1, <1>2, <1>3, LifecycleInit, PTL DEF Spec, ImplementsLifecycle, Lifecycle!Spec

=============================================================================
