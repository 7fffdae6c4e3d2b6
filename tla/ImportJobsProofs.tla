--------------------------- MODULE ImportJobsProofs ---------------------------
(***************************************************************************)
(* Theorems about ImportJobs, for every set of jobs, every number of       *)
(* threads and photos, and every choice of what the environment may do.    *)
(***************************************************************************)
EXTENDS ImportJobs, TLAPS

-----------------------------------------------------------------------------
(* Types.                                                                  *)

\* A live thread has a job; it scans while there are files left, saves while
\* there are scanned photos left, and has saved none before.
ThreadOK(t) ==
    /\ t \in WorkerState
    /\ t.pc # "dead" => t.job \in Jobs
    /\ t.pc \in {"new", "registered", "begin", "discovering"} => t.found = 0
    /\ t.pc \in {"scan", "count"} => t.found < N /\ t.done = 0
    /\ t.pc \in {"new", "registered", "begin", "discovering", "paired", "previewing"} => t.done = 0
    /\ t.pc \in {"import", "save"} => t.done < t.found
    /\ t.hold # "no" => t.pc \in Checkpoints

\* A request concerns a job.
CallOK(c) == c \in CallState /\ (c.op \notin {"none", "shutdown"} => c.job \in Jobs)

TypeInv == TypeOK /\ (\A w \in Workers : ThreadOK(worker[w])) /\ CallOK(call)

\* The columns a session changed are an update, and an update of a row is a row.
LEMMA DiffType ==
    ASSUME NEW old \in Row, NEW new \in Row
    PROVE  Diff(old, new) \in Update
BY DEF Diff, Changed, Row, Update

LEMMA ApplyType ==
    ASSUME NEW r \in Row, NEW u \in Update
    PROVE  Apply(r, u) \in Row
BY DEF Apply, Written, Row, Update

\* Every handler makes a row of a row.
LEMMA HandlersType ==
    ASSUME NEW r \in Row
    PROVE  /\ \A s \in State : SetState(r, s) \in Row /\ Ended(r, s) \in Row
           /\ PausedRow(r) \in Row /\ ParkedRow(r) \in Row /\ RecoveredRow(r) \in Row
           /\ \A b \in BOOLEAN : CancelledRow(r, b) \in Row /\ ResumedRow(r, b) \in Row
           /\ \A pc \in Sessions : Handled(pc, r) \in Row
<1> USE NAssumption DEF Row, State, Active, Terminal
<1>1. \A s \in State : SetState(r, s) \in Row /\ Ended(r, s) \in Row
  BY DEF SetState, Ended
<1>2. PausedRow(r) \in Row /\ ParkedRow(r) \in Row /\ RecoveredRow(r) \in Row
  BY DEF PausedRow, ParkedRow, RecoveredRow
<1>3. \A b \in BOOLEAN : CancelledRow(r, b) \in Row
  BY DEF CancelledRow, Ended
<1>4. \A b \in BOOLEAN : ResumedRow(r, b) \in Row
  <2> SUFFICES ASSUME NEW b \in BOOLEAN
               PROVE  ResumedRow(r, b) \in Row
    OBVIOUS
  <2> DEFINE s == IF r.resume = "none" THEN "queued" ELSE r.resume
             back == [r EXCEPT !.state = s, !.rev = s, !.resume = "none", !.pause = FALSE]
  <2>1. back \in Row
    OBVIOUS
  <2>2. 0 \in Count
    BY DEF Count
  <2> HIDE DEF back
  <2>3. [back EXCEPT !.imported = 0] \in Row
    BY <2>1, <2>2
  <2>4. QED
    BY <2>1, <2>3 DEF ResumedRow, back
<1>5. [r EXCEPT !.imported = Bump(@)] \in Row
  BY DEF Bump, Count
<1>6. ASSUME NEW pc \in Sessions
      PROVE  Handled(pc, r) \in Row
  BY <1>1, <1>5 DEF Sessions, Handled, CompleteJob
<1>7. QED
  BY <1>1, <1>2, <1>3, <1>4, <1>6

LEMMA ConstantsType ==
    /\ NoRow \in Row /\ QueuedRow \in Row /\ NoUpdate \in Update
    /\ Dead \in WorkerState
    /\ \A j \in Jobs, pc \in Pc : Thread(j, pc) \in WorkerState
    /\ NoCall \in CallState
<1>1. NoRow \in Row /\ QueuedRow \in Row /\ NoUpdate \in Update
  <2>1. 0 \in Count
    BY NAssumption DEF Count
  <2>2. NoRow \in Row
    BY <2>1 DEF NoRow, Row, State
  <2>3. QueuedRow \in Row
    BY <2>2 DEF QueuedRow, Row, State, Active
  <2>4. NoUpdate \in Update
    BY DEF NoUpdate, Update
  <2>5. QED
    BY <2>2, <2>3, <2>4
<1>2. Dead \in WorkerState
  BY <1>1, NAssumption DEF Dead, WorkerState, Pc
<1>3. ASSUME NEW j \in Jobs, NEW pc \in Pc
      PROVE  Thread(j, pc) \in WorkerState
  BY <1>2, <1>3 DEF Thread, WorkerState, Dead
<1>4. NoCall \in CallState
  BY <1>1 DEF NoCall, CallState
<1>5. QED
  BY <1>1, <1>2, <1>3, <1>4

\* The type invariant holds at the start.
LEMMA TypeInit == Init => TypeInv
<1> SUFFICES ASSUME Init
             PROVE  TypeInv
  OBVIOUS
<1>1. ThreadOK(Dead)
  BY ConstantsType DEF ThreadOK, Dead
<1>2. CallOK(NoCall)
  BY ConstantsType DEF CallOK, NoCall
<1>3. TypeOK
  BY ConstantsType DEF Init, TypeOK
<1>4. QED
  BY <1>1, <1>2, <1>3 DEF Init, TypeInv

\* A step that only changes thread w keeps the types if it leaves w a thread.
LEMMA OneThreadType ==
    ASSUME TypeInv, NEW w \in Workers, NEW t, ThreadOK(t),
           worker' = [worker EXCEPT ![w] = t],
           UNCHANGED <<job, seen, threads, waiting, call, stopJobs, todo, serving>>
    PROVE  TypeInv'
<1>1. TypeOK'
  BY DEF TypeInv, TypeOK, ThreadOK
<1>2. (\A v \in Workers : ThreadOK(worker[v]))'
  BY DEF TypeInv, TypeOK
<1>3. QED
  BY <1>1, <1>2 DEF TypeInv

\* So does a session's commit that leaves thread w as next, once it is closed.
LEMMA CommitsType ==
    ASSUME TypeInv, NEW w \in Workers, NEW next, ThreadOK([next EXCEPT !.open = FALSE, !.update = NoUpdate]),
           worker[w].pc # "dead", Commits(w, next), seen' \in [Jobs -> SUBSET Photos]
    PROVE  TypeInv'
<1>1. worker[w].job \in Jobs /\ worker[w].update \in Update
  BY DEF TypeInv, ThreadOK, WorkerState
<1>2. job' \in [Jobs -> Row]
  BY <1>1, ApplyType DEF TypeInv, TypeOK, Commits
<1>3. worker' \in [Workers -> WorkerState]
  BY DEF TypeInv, TypeOK, Commits, ThreadOK
<1>4. (\A v \in Workers : ThreadOK(worker[v]))'
  BY DEF TypeInv, TypeOK, Commits
<1>5. QED
  BY <1>2, <1>3, <1>4 DEF TypeInv, TypeOK, Commits

\* The checkpoints.
LEMMA CheckpointType ==
    ASSUME TypeInv, NEW w \in Workers, Checkpoint(w) \/ CheckCommit(w)
    PROVE  TypeInv'
<1> DEFINE me == worker[w]
<1>1. me \in WorkerState /\ ThreadOK(me)
  BY DEF TypeInv, TypeOK
<1>2. CASE CheckPass(w)
  <2> DEFINE t == [me EXCEPT !.pc = PassPc(@)]
  <2>1. ThreadOK(t)
    BY <1>1, <1>2 DEF CheckPass, AtCheckpoint, LockFree, PassPc, ThreadOK, WorkerState, Pc,
       Checkpoints, Sessions
  <2>2. worker' = [worker EXCEPT ![w] = t]
    BY <1>2 DEF CheckPass
  <2>3. QED
    BY <1>2, <2>1, <2>2, OneThreadType DEF CheckPass
<1>3. CASE CheckShutdown(w)
  <2> DEFINE t == [me EXCEPT !.pc = StopPc(@)]
  <2>1. ThreadOK(t)
    BY <1>1, <1>3 DEF CheckShutdown, AtCheckpoint, LockFree, StopPc, ThreadOK, WorkerState, Pc,
       Checkpoints
  <2>2. worker' = [worker EXCEPT ![w] = t]
    BY <1>3 DEF CheckShutdown
  <2>3. QED
    BY <1>3, <2>1, <2>2, OneThreadType DEF CheckShutdown
<1>4. CASE CheckRead(w)
  <2> DEFINE r == job[me.job]
  <2>1. r \in Row /\ Ended(r, "cancelled") \in Row /\ ParkedRow(r) \in Row
    <3>1. me.job \in Jobs
      BY <1>1, <1>4 DEF CheckRead, AtCheckpoint, ThreadOK, Checkpoints
    <3>2. r \in Row /\ "cancelled" \in State
      BY <3>1 DEF TypeInv, TypeOK, State, Terminal
    <3>3. QED
      BY <3>2, HandlersType
  <2>2. \E h \in {"halt", "park"}, u \in Update :
           worker' = [worker EXCEPT ![w] = [me EXCEPT !.hold = h, !.update = u]]
    <3> DEFINE T(h, u) == [worker EXCEPT ![w].hold = h, ![w].update = u]
    <3>1. \/ worker' = T("halt", Diff(r, Ended(r, "cancelled")))
          \/ worker' = T("park", Diff(r, ParkedRow(r)))
      BY <1>4 DEF CheckRead
    <3>2. Diff(r, Ended(r, "cancelled")) \in Update /\ Diff(r, ParkedRow(r)) \in Update
      BY <2>1, DiffType
    <3>3. \A h, u : T(h, u) = [worker EXCEPT ![w] = [me EXCEPT !.hold = h, !.update = u]]
      BY DEF TypeInv, TypeOK
    <3> HIDE DEF T, r
    <3>4. QED
      BY <3>1, <3>2, <3>3
  <2>3. PICK h \in {"halt", "park"}, u \in Update :
           worker' = [worker EXCEPT ![w] = [me EXCEPT !.hold = h, !.update = u]]
    BY <2>2
  <2>4. ThreadOK([me EXCEPT !.hold = h, !.update = u])
    BY <1>1, <1>4 DEF CheckRead, AtCheckpoint, ThreadOK, WorkerState, Checkpoints
  <2>5. QED
    BY <1>4, <2>3, <2>4, OneThreadType DEF CheckRead
<1>5. CASE CheckCommit(w)
  <2> DEFINE t == [me EXCEPT !.hold = "no", !.update = NoUpdate,
                             !.pc = IF me.hold = "halt" THEN StopPc(@) ELSE @]
  <2>1. me.job \in Jobs /\ me.update \in Update
    BY <1>1, <1>5 DEF CheckCommit, ThreadOK, WorkerState, Checkpoints
  <2>2. job' \in [Jobs -> Row]
    BY <1>5, <2>1, ApplyType DEF CheckCommit, TypeInv, TypeOK
  <2>3. ThreadOK(t)
    BY <1>1, <1>5, ConstantsType DEF CheckCommit, StopPc, ThreadOK, WorkerState, Pc, Checkpoints
  <2>4. worker' = [worker EXCEPT ![w] = t]
    BY <1>5 DEF CheckCommit
  <2> HIDE DEF t
  <2>5. (\A v \in Workers : ThreadOK(worker[v]))' /\ worker' \in [Workers -> WorkerState]
    BY <2>3, <2>4 DEF TypeInv, TypeOK, ThreadOK
  <2>6. QED
    BY <1>5, <2>2, <2>5 DEF CheckCommit, TypeInv, TypeOK
<1>6. CASE CheckWait(w)
  BY <1>6 DEF CheckWait, TypeInv, TypeOK
<1>7. QED
  BY <1>2, <1>3, <1>4, <1>5, <1>6 DEF Checkpoint

\* The sessions that do not take _control, and the exceptions.
LEMMA SessionType ==
    ASSUME TypeInv, NEW w \in Workers, Session(w) \/ Raise(w) \/ Exit(w)
    PROVE  TypeInv'
<1> DEFINE me == worker[w]
<1>1. me \in WorkerState /\ ThreadOK(me)
  BY DEF TypeInv, TypeOK
<1>2. CASE ReadSession(w)
  <2> DEFINE r == job[me.job]
             u == Diff(r, Handled(me.pc, r))
             t == [me EXCEPT !.open = TRUE, !.update = u]
  <2>1. me.pc \in Sessions /\ me.job \in Jobs
    BY <1>1, <1>2 DEF ReadSession, ThreadOK, Sessions
  <2>2. r \in Row
    BY <2>1 DEF TypeInv, TypeOK
  <2>3. u \in Update
    BY <2>1, <2>2, HandlersType, DiffType
  <2>4. worker' = [worker EXCEPT ![w] = t]
    BY <1>2 DEF ReadSession, TypeInv, TypeOK
  <2> HIDE DEF u
  <2>5. ThreadOK(t)
    BY <1>1, <2>1, <2>3 DEF ThreadOK, WorkerState, Sessions, Checkpoints
  <2>6. QED
    BY <1>2, <2>4, <2>5, OneThreadType DEF ReadSession
<1>3. CASE CountRecord(w)
  <2> DEFINE t == [me EXCEPT !.found = @ + 1, !.pc = ScanPc(me.found + 1)]
  <2>1. ThreadOK(t)
    <3>1. /\ me.found + 1 \in 0..N /\ me.done = 0 /\ me.job \in Jobs /\ me.hold = "no"
          /\ ScanPc(me.found + 1) \in {"scan", "paired"}
          /\ ScanPc(me.found + 1) = "scan" => me.found + 1 < N
      BY <1>1, <1>3, NAssumption DEF CountRecord, ScanPc, ThreadOK, WorkerState, Checkpoints
    <3>2. QED
      BY <1>1, <3>1 DEF ThreadOK, WorkerState, Pc, Checkpoints
  <2>2. worker' = [worker EXCEPT ![w] = t]
    BY <1>3 DEF CountRecord, TypeInv, TypeOK
  <2>3. QED
    BY <1>3, <2>1, <2>2, OneThreadType DEF CountRecord
<1>4. CASE Discovering(w)
  <2> DEFINE next == [me EXCEPT !.pc = ScanPc(0)]
  <2>1. ThreadOK([next EXCEPT !.open = FALSE, !.update = NoUpdate])
    BY <1>1, <1>4, NAssumption, ConstantsType
       DEF Discovering, ScanPc, ThreadOK, WorkerState, Pc, Checkpoints
  <2>2. QED
    BY <1>4, <2>1, CommitsType DEF Discovering, TypeInv, TypeOK
<1>5. CASE Previewing(w)
  <2> DEFINE next == [me EXCEPT !.pc = ImportPc(0, me.found)]
  <2>1. ThreadOK([next EXCEPT !.open = FALSE, !.update = NoUpdate])
    <3>1. /\ me.done = 0 /\ me.job \in Jobs /\ me.hold = "no"
          /\ ImportPc(0, me.found) \in {"import", "end"}
          /\ ImportPc(0, me.found) = "import" => 0 < me.found
      BY <1>1, <1>5 DEF Previewing, ImportPc, ThreadOK, Checkpoints
    <3>2. QED
      BY <1>1, <3>1, ConstantsType DEF ThreadOK, WorkerState, Pc, Checkpoints
  <2>2. QED
    BY <1>5, <2>1, CommitsType DEF Previewing, TypeInv, TypeOK
<1>6. CASE SavePhoto(w)
  <2> DEFINE k == me.done + 1
             next == [me EXCEPT !.done = k, !.pc = ImportPc(k, me.found)]
  <2>1. k \in Photos /\ me.job \in Jobs
    BY <1>1, <1>6, NAssumption DEF SavePhoto, ThreadOK, WorkerState, Photos
  <2>2. ThreadOK([next EXCEPT !.open = FALSE, !.update = NoUpdate])
    <3>1. /\ k \in 0..N /\ me.hold = "no"
          /\ ImportPc(k, me.found) \in {"import", "end"}
          /\ ImportPc(k, me.found) = "import" => k < me.found
      BY <1>1, <1>6, NAssumption DEF SavePhoto, ImportPc, ThreadOK, WorkerState, Checkpoints
    <3>2. QED
      BY <1>1, <2>1, <3>1, ConstantsType DEF ThreadOK, WorkerState, Pc, Checkpoints
  <2>3. seen' \in [Jobs -> SUBSET Photos]
    BY <1>6, <2>1 DEF SavePhoto, TypeInv, TypeOK
  <2>4. QED
    BY <1>6, <2>2, <2>3, CommitsType DEF SavePhoto
<1>7. CASE EndJob(w)
  <2> DEFINE next == [me EXCEPT !.pc = "exit"]
  <2>1. ThreadOK([next EXCEPT !.open = FALSE, !.update = NoUpdate])
    BY <1>1, <1>7, ConstantsType DEF EndJob, ThreadOK, WorkerState, Pc, Checkpoints
  <2>2. QED
    BY <1>7, <2>1, CommitsType DEF EndJob, TypeInv, TypeOK
<1>8. CASE Raise(w)
  <2> DEFINE t == [me EXCEPT !.pc = "fail", !.open = FALSE, !.hold = "no", !.update = NoUpdate]
  <2>1. ThreadOK(t)
    BY <1>1, <1>8, ConstantsType DEF Raise, ThreadOK, WorkerState, Pc, Checkpoints, Sessions
  <2>2. worker' = [worker EXCEPT ![w] = t]
    BY <1>8 DEF Raise, TypeInv, TypeOK
  <2>3. QED
    BY <1>8, <2>1, <2>2, OneThreadType DEF Raise
<1>9. CASE Exit(w)
  <2>1. ThreadOK(Dead)
    BY ConstantsType DEF ThreadOK, Dead
  <2>2. QED
    BY <1>9, <2>1, ConstantsType DEF Exit, TypeInv, TypeOK
<1>10. QED
  BY <1>2, <1>3, <1>4, <1>5, <1>6, <1>7, <1>8, <1>9 DEF Session

\* The life of a thread before it runs.
LEMMA StartType ==
    ASSUME TypeInv, NEW w \in Workers,
           (\E j \in Jobs : StartImport(j, w)) \/ RegisterThread(w) \/ StartThread(w)
    PROVE  TypeInv'
<1> DEFINE me == worker[w]
<1>1. me \in WorkerState /\ ThreadOK(me)
  BY DEF TypeInv, TypeOK
<1>2. ASSUME NEW j \in Jobs, StartImport(j, w)
      PROVE  TypeInv'
  <2>1. ThreadOK(Thread(j, "new"))
    BY ConstantsType DEF ThreadOK, Thread, Dead, Pc
  <2>2. QED
    <3>1. worker' = [worker EXCEPT ![w] = Thread(j, "new")]
      BY <1>2 DEF StartImport
    <3>2. job' \in [Jobs -> Row]
      BY <1>2, ConstantsType DEF StartImport, TypeInv, TypeOK
    <3>3. (\A v \in Workers : ThreadOK(worker[v]))' /\ worker' \in [Workers -> WorkerState]
      BY <2>1, <3>1 DEF TypeInv, TypeOK, ThreadOK
    <3>4. QED
      BY <1>2, <3>2, <3>3 DEF StartImport, TypeInv, TypeOK
<1>3. CASE RegisterThread(w)
  <2> DEFINE t == [me EXCEPT !.pc = "registered"]
  <2>1. ThreadOK(t) /\ me.job \in Jobs
    BY <1>1, <1>3 DEF RegisterThread, ThreadOK, WorkerState, Pc, Checkpoints
  <2>2. worker' = [worker EXCEPT ![w] = t]
    BY <1>3 DEF RegisterThread, TypeInv, TypeOK
  <2> HIDE DEF t
  <2>3. QED
    BY <1>3, <2>1, <2>2 DEF RegisterThread, TypeInv, TypeOK, ThreadOK
<1>4. CASE StartThread(w)
  <2> DEFINE t == [me EXCEPT !.pc = "begin"]
  <2>1. ThreadOK(t)
    BY <1>1, <1>4 DEF StartThread, ThreadOK, WorkerState, Pc, Checkpoints
  <2>2. worker' = [worker EXCEPT ![w] = t]
    BY <1>4 DEF StartThread, TypeInv, TypeOK
  <2>3. QED
    BY <1>4, <2>1, <2>2, OneThreadType DEF StartThread
<1>5. QED
  BY <1>2, <1>3, <1>4

\* The requests, the shutdown and the restart.
LEMMA RequestType ==
    ASSUME TypeInv,
           (\E j \in Jobs : Request(j)) \/ CallStep \/ ShutdownBegin \/ Restart
    PROVE  TypeInv'
<1>1. call \in CallState /\ CallOK(call)
  BY DEF TypeInv, TypeOK
<1>2. CallOK(NoCall) /\ CallOK([NoCall EXCEPT !.op = "shutdown"])
  BY ConstantsType DEF CallOK, NoCall, CallState
<1>3. ASSUME NEW j \in Jobs, Request(j)
      PROVE  TypeInv'
  <2>1. PICK op \in {"cancel", "pause", "resume"} : Begin(op, j)
    BY <1>3 DEF Request, CancelRead, PauseRead, ResumeRead
  <2>2. CallOK([NoCall EXCEPT !.op = op, !.job = j, !.snap = job[j]])
    BY ConstantsType DEF CallOK, NoCall, CallState, TypeInv, TypeOK
  <2>3. QED
    BY <2>1, <2>2 DEF Begin, TypeInv, TypeOK, CallOK
<1>4. ASSUME NEW new \in Row, call.op \notin {"none", "shutdown"},
             job' = [job EXCEPT ![call.job] = Apply(@, Diff(call.snap, new))]
      PROVE  job' \in [Jobs -> Row]
  BY <1>1, <1>4, DiffType, ApplyType DEF CallOK, CallState, TypeInv, TypeOK
<1>5. ASSUME NEW new \in Row, call.op \notin {"none", "shutdown"}, Finish(new)
      PROVE  TypeInv'
  BY <1>2, <1>4, <1>5 DEF Finish, TypeInv, TypeOK, CallOK
<1>6. call.snap \in Row
  BY <1>1 DEF CallState
<1>7. CASE CancelDecide
  <2>1. CallOK(call')
    BY <1>1, <1>7 DEF CancelDecide, CallOK, CallState
  <2>2. QED
    BY <1>7, <2>1 DEF CancelDecide, TypeInv, TypeOK, CallOK
<1>8. CASE ResumeDecide
  <2>1. call.job \in Jobs
    BY <1>1, <1>8 DEF ResumeDecide, CallOK
  <2>2. CallOK([call EXCEPT !.op = "resumeLive"])
    BY <1>1, <2>1 DEF CallOK, CallState
  <2>3. ASSUME NEW w \in Workers
        PROVE  /\ CallOK([call EXCEPT !.op = "resumeSpawn", !.spawn = w])
               /\ ThreadOK(Thread(call.job, "registered"))
    <3>1. CallOK([call EXCEPT !.op = "resumeSpawn", !.spawn = w])
      BY <1>1, <2>1 DEF CallOK, CallState
    <3>2. ThreadOK(Thread(call.job, "registered"))
      BY <2>1, ConstantsType DEF ThreadOK, Thread, Dead, Pc
    <3>3. QED
      BY <3>1, <3>2
  <2>4. CASE call' = [call EXCEPT !.op = "resumeLive"] /\ UNCHANGED <<worker, threads>>
    BY <1>8, <2>2, <2>4 DEF ResumeDecide, TypeInv, TypeOK, CallOK
  <2>5. ASSUME NEW w \in Workers,
               call' = [call EXCEPT !.op = "resumeSpawn", !.spawn = w],
               worker' = [worker EXCEPT ![w] = Thread(call.job, "registered")],
               threads' = [threads EXCEPT ![call.job] = w]
        PROVE  TypeInv'
    <3>1. CallOK(call')
      BY <2>3, <2>5
    <3>2. (\A v \in Workers : ThreadOK(worker[v]))' /\ worker' \in [Workers -> WorkerState]
      BY <2>3, <2>5 DEF TypeInv, TypeOK, ThreadOK
    <3>3. QED
      BY <1>8, <2>5, <3>1, <3>2 DEF ResumeDecide, TypeInv, TypeOK, CallOK
  <2>6. QED
    BY <1>8, <2>4, <2>5 DEF ResumeDecide
<1>9. CASE CancelCommit
  BY <1>5, <1>6, <1>9, HandlersType DEF CancelCommit
<1>10. CASE PauseCommit
  BY <1>5, <1>6, <1>10, HandlersType DEF PauseCommit
<1>11. CASE ResumeCommit
  BY <1>5, <1>6, <1>11, HandlersType DEF ResumeCommit
<1>12. CASE ShutdownCommit
  <2>1. call.op \notin {"none", "shutdown"} /\ call.job \in Jobs
    BY <1>1, <1>12 DEF ShutdownCommit, CallOK
  <2>2. job' \in [Jobs -> Row]
    BY <1>4, <1>6, <1>12, <2>1, HandlersType DEF ShutdownCommit
  <2>3. QED
    BY <1>2, <1>12, <2>1, <2>2 DEF ShutdownCommit, TypeInv, TypeOK, CallOK
<1>13. CASE ShutdownEnd
  BY <1>2, <1>13 DEF ShutdownEnd, TypeInv, TypeOK, CallOK
<1>14. ASSUME NEW j \in Jobs, ShutdownRead(j)
       PROVE  TypeInv'
  <2>1. CallOK([call EXCEPT !.op = "shutdownPause", !.job = j, !.snap = job[j]])
    BY <1>1 DEF CallOK, CallState, TypeInv, TypeOK
  <2>2. QED
    BY <1>14, <2>1 DEF ShutdownRead, TypeInv, TypeOK, CallOK
<1>15. CASE ShutdownBegin
  BY <1>2, <1>15 DEF ShutdownBegin, TypeInv, TypeOK, CallOK
<1>16. CASE Restart
  <2>1. job' \in [Jobs -> Row]
    BY <1>16, HandlersType DEF Restart, TypeInv, TypeOK
  <2>2. ThreadOK(Dead)
    BY ConstantsType DEF ThreadOK, Dead
  <2>3. QED
    BY <1>2, <1>16, <2>1, <2>2 DEF Restart, TypeInv, TypeOK, CallOK, ThreadOK
<1>17. QED
  BY <1>3, <1>7, <1>8, <1>9, <1>10, <1>11, <1>12, <1>13, <1>14, <1>15, <1>16 DEF CallStep

\* Every step keeps the types.
LEMMA TypeNext == TypeInv /\ [Next]_vars => TypeInv'
<1>1. TypeInv /\ UNCHANGED vars => TypeInv'
  BY DEF TypeInv, TypeOK, vars
<1>2. QED
  BY <1>1, StartType, CheckpointType, SessionType, RequestType DEF Next

\* Type correctness: every reachable state has the types TypeOK gives, counters
\* and indices within their bounds included.
THEOREM TypeCorrect == Spec => []TypeOK
<1>1. TypeInv => TypeOK
  BY DEF TypeInv
<1>2. QED
  BY <1>1, TypeInit, TypeNext, PTL DEF Spec

-----------------------------------------------------------------------------
(* Completion. A stop that ends the scan early leaves a reason that lasts:  *)
(* the cancellation flag is never taken back, and _shutdown_jobs lives as   *)
(* long as the threads. So the checkpoint after the scan stops as well, and *)
(* whoever gets past it holds every record.                                 *)

Whole(j) == seen[j] = Photos

\* A row that is, or was when it was paused, completed (a pause can come after
\* the completion, and resume_state then says completed).
RowWhole(r, j) == r.state = "completed" \/ r.resume = "completed" => Whole(j)

ThreadWhole(t) == t.pc # "dead" =>
    /\ RowWhole(t.update, t.job)
    /\ t.update.cancel = None
    /\ t.hold = "halt" => job[t.job].cancel
    /\ t.pc = "paired" => t.found = N \/ job[t.job].cancel \/ t.job \in stopJobs
    /\ t.pc \in {"previewing", "import", "save", "end", "complete"} => t.found = N
    /\ t.pc \in {"import", "save"} => 1..t.done \subseteq seen[t.job]
    /\ t.pc \in {"end", "complete"} => Whole(t.job)

CallWhole == call.op \notin {"none", "shutdown"} => RowWhole(call.snap, call.job)

WholeInv ==
    /\ \A j \in Jobs : RowWhole(job[j], j)
    /\ \A w \in Workers : ThreadWhole(worker[w])
    /\ CallWhole

\* A step that takes nothing back.
Grows ==
    /\ \A j \in Jobs : seen[j] \subseteq seen'[j] /\ (job[j].cancel => job'[j].cancel)
    /\ stopJobs \subseteq stopJobs'

\* What was whole stays whole, for rows and for the threads a step leaves alone.
LEMMA GrowsWhole ==
    ASSUME TypeInv, TypeInv', WholeInv, Grows
    PROVE  /\ \A j \in Jobs : Whole(j) => Whole(j)'
           /\ \A v \in Workers : worker'[v] = worker[v] => ThreadWhole(worker[v])'
<1>1. \A j \in Jobs : Whole(j) => Whole(j)'
  BY DEF Whole, Grows, TypeInv, TypeOK
<1>2. ASSUME NEW v \in Workers, worker'[v] = worker[v], worker[v].pc # "dead"
      PROVE  ThreadWhole(worker[v])'
  <2>1. ThreadWhole(worker[v]) /\ worker[v].job \in Jobs
    BY <1>2 DEF TypeInv, ThreadOK, WholeInv
  <2>2. QED
    BY <1>1, <1>2, <2>1 DEF ThreadWhole, RowWhole, Grows
<1>3. QED
  BY <1>1, <1>2 DEF ThreadWhole

\* A commit writes completed only from an update that may.
LEMMA ApplyWhole ==
    ASSUME NEW r, NEW u, NEW j, RowWhole(r, j), RowWhole(u, j)
    PROVE  RowWhole(Apply(r, u), j)
BY DEF RowWhole, Apply, Written

\* An update of a row into one that may be completed may write it.
LEMMA DiffWhole ==
    ASSUME NEW old, NEW new, NEW j, RowWhole(new, j)
    PROVE  RowWhole(Diff(old, new), j)
BY NoneAssumption DEF RowWhole, Diff, Changed, State, Terminal

\* A step that only moves thread w on keeps the invariant if it does for w.
LEMMA OneThreadWhole ==
    ASSUME TypeInv, TypeInv', WholeInv, NEW w \in Workers, NEW t,
           worker' = [worker EXCEPT ![w] = t], ThreadWhole(t),
           UNCHANGED <<job, seen, threads, waiting, call, stopJobs, todo, serving>>
    PROVE  WholeInv'
<1>1. Grows
  BY DEF Grows
<1>2. \A v \in Workers : ThreadWhole(worker[v])'
  <2>1. worker'[w] = t
    BY DEF TypeInv, TypeOK
  <2>2. ThreadWhole(worker[w])'
    BY <2>1 DEF ThreadWhole, RowWhole, Whole
  <2>3. \A v \in Workers \ {w} : worker'[v] = worker[v]
    BY DEF TypeInv, TypeOK
  <2>4. QED
    BY <1>1, <2>2, <2>3, GrowsWhole
<1>3. QED
  BY <1>2 DEF WholeInv, CallWhole, RowWhole, Whole

\* So does a commit of thread w's update.
LEMMA CommitWhole ==
    ASSUME TypeInv, TypeInv', WholeInv, NEW w \in Workers, worker[w].pc # "dead",
           job' = [job EXCEPT ![worker[w].job] = Apply(@, worker[w].update)],
           \A v \in Workers \ {w} : worker'[v] = worker[v],
           \A j \in Jobs : seen[j] \subseteq seen'[j],
           UNCHANGED <<call, stopJobs>>,
           Grows => ThreadWhole(worker[w])'
    PROVE  WholeInv'
<1> DEFINE me == worker[w]
<1>1. /\ me.job \in Jobs /\ me.update.cancel = None /\ RowWhole(me.update, me.job)
      /\ RowWhole(job[me.job], me.job)
  BY DEF TypeInv, ThreadOK, WholeInv, ThreadWhole
<1>2. job'[me.job] = Apply(job[me.job], me.update)
  BY <1>1 DEF TypeInv, TypeOK
<1>3. \A j \in Jobs \ {me.job} : job'[j] = job[j]
  BY <1>1 DEF TypeInv, TypeOK
<1>4. Grows
  <2>1. job[me.job].cancel => Apply(job[me.job], me.update).cancel
    BY <1>1 DEF Apply, Written
  <2>2. \A j \in Jobs : job[j].cancel => job'[j].cancel
    BY <1>2, <1>3, <2>1
  <2>3. QED
    BY <2>2 DEF Grows
<1>5. \A j \in Jobs : Whole(j) => Whole(j)'
  BY <1>4, GrowsWhole
<1>6. RowWhole(job'[me.job], me.job)
  BY <1>1, <1>2, ApplyWhole
<1>7. \A j \in Jobs : RowWhole(job[j], j)'
  BY <1>3, <1>5, <1>6 DEF WholeInv, RowWhole
<1>8. \A v \in Workers : ThreadWhole(worker[v])'
  BY <1>4, GrowsWhole
<1>9. CallWhole'
  BY <1>5 DEF WholeInv, CallWhole, RowWhole, TypeInv, CallOK
<1>10. QED
  BY <1>7, <1>8, <1>9 DEF WholeInv

\* The checkpoints.
LEMMA CheckpointWhole ==
    ASSUME TypeInv, TypeInv', WholeInv, NEW w \in Workers, Checkpoint(w) \/ CheckCommit(w)
    PROVE  WholeInv'
<1> DEFINE me == worker[w]
           r == job[me.job]
<1>1. ThreadOK(me) /\ ThreadWhole(me) /\ me \in WorkerState
  BY DEF TypeInv, TypeOK, WholeInv
<1>2. CASE CheckPass(w)
  <2> DEFINE t == [me EXCEPT !.pc = PassPc(@)]
  <2>1. ThreadWhole(t)
    BY <1>1, <1>2 DEF CheckPass, AtCheckpoint, PassPc, ThreadWhole, WorkerState, Checkpoints
  <2>2. worker' = [worker EXCEPT ![w] = t]
    BY <1>2 DEF CheckPass
  <2>3. QED
    BY <1>2, <2>1, <2>2, OneThreadWhole DEF CheckPass
<1>3. CASE CheckShutdown(w)
  <2> DEFINE t == [me EXCEPT !.pc = StopPc(@)]
  <2>1. ThreadWhole(t)
    BY <1>1, <1>3 DEF CheckShutdown, AtCheckpoint, StopPc, ThreadWhole, WorkerState, Checkpoints
  <2>2. worker' = [worker EXCEPT ![w] = t]
    BY <1>3 DEF CheckShutdown
  <2>3. QED
    BY <1>3, <2>1, <2>2, OneThreadWhole DEF CheckShutdown
<1>4. CASE CheckRead(w)
  <2>1. me.job \in Jobs /\ me.pc \in Checkpoints
    BY <1>1, <1>4 DEF CheckRead, AtCheckpoint, ThreadOK, Checkpoints
  <2>2. RowWhole(r, me.job) /\ r \in Row
    BY <2>1 DEF WholeInv, TypeInv, TypeOK
  <2>3. CASE r.cancel /\ worker' = [worker EXCEPT ![w].hold = "halt",
                                                 ![w].update = Diff(r, Ended(r, "cancelled"))]
    <3> DEFINE u == Diff(r, Ended(r, "cancelled"))
    <3>1. RowWhole(u, me.job) /\ u.cancel = None
      <4>1. RowWhole(Ended(r, "cancelled"), me.job)
        BY <2>2 DEF RowWhole, Ended, Row
      <4>2. u.cancel = None
        BY <2>2 DEF Diff, Changed, Ended, Row
      <4>3. QED
        BY <4>1, <4>2, DiffWhole
    <3> HIDE DEF u
    <3>2. ThreadWhole([me EXCEPT !.hold = "halt", !.update = u])
      BY <1>1, <2>1, <2>3, <3>1 DEF ThreadWhole, WorkerState, Checkpoints
    <3>3. worker' = [worker EXCEPT ![w] = [me EXCEPT !.hold = "halt", !.update = u]]
      BY <2>3 DEF u, TypeInv, TypeOK
    <3>4. QED
      BY <1>4, <3>2, <3>3, OneThreadWhole DEF CheckRead
  <2>4. CASE worker' = [worker EXCEPT ![w].hold = "park", ![w].update = Diff(r, ParkedRow(r))]
    <3> DEFINE u == Diff(r, ParkedRow(r))
    <3>1. RowWhole(u, me.job) /\ u.cancel = None
      <4>1. RowWhole(ParkedRow(r), me.job)
        BY <2>2 DEF RowWhole, ParkedRow, Row
      <4>2. u.cancel = None
        BY <2>2 DEF Diff, Changed, ParkedRow, Row
      <4>3. QED
        BY <4>1, <4>2, DiffWhole
    <3> HIDE DEF u
    <3>2. ThreadWhole([me EXCEPT !.hold = "park", !.update = u])
      BY <1>1, <2>1, <3>1 DEF ThreadWhole, WorkerState, Checkpoints
    <3>3. worker' = [worker EXCEPT ![w] = [me EXCEPT !.hold = "park", !.update = u]]
      BY <2>4 DEF u, TypeInv, TypeOK
    <3>4. QED
      BY <1>4, <3>2, <3>3, OneThreadWhole DEF CheckRead
  <2>5. QED
    BY <1>4, <2>3, <2>4 DEF CheckRead
<1>5. CASE CheckCommit(w)
  <2> DEFINE t == [me EXCEPT !.hold = "no", !.update = NoUpdate,
                             !.pc = IF me.hold = "halt" THEN StopPc(@) ELSE @]
  <2>1. me.pc \in Checkpoints /\ me.job \in Jobs
    BY <1>1, <1>5 DEF CheckCommit, ThreadOK, Checkpoints
  <2>2. worker'[w] = t /\ \A v \in Workers \ {w} : worker'[v] = worker[v]
    BY <1>5 DEF CheckCommit, TypeInv, TypeOK
  <2>3. ASSUME Grows
        PROVE  ThreadWhole(worker[w])'
    <3>1. /\ me.hold = "halt" => job'[me.job].cancel
          /\ job[me.job].cancel => job'[me.job].cancel
          /\ me.job \in stopJobs => me.job \in stopJobs'
          /\ seen[me.job] \subseteq seen'[me.job]
          /\ Whole(me.job) => seen'[me.job] = Photos
      <4>1. Whole(me.job) => seen'[me.job] = Photos
        BY <2>1, <2>3, GrowsWhole DEF Whole
      <4>2. me.hold = "halt" => job[me.job].cancel
        BY <1>1, <2>1 DEF ThreadWhole, Checkpoints
      <4>3. QED
        BY <2>1, <2>3, <4>1, <4>2 DEF Grows
    <3>2. RowWhole(NoUpdate, me.job)' /\ NoUpdate.cancel = None
      BY NoneAssumption DEF RowWhole, NoUpdate, State, Terminal
    <3>3. /\ t.job = me.job /\ t.found = me.found /\ t.done = me.done /\ t.hold = "no"
          /\ t.update = NoUpdate
          /\ t.pc = IF me.hold = "halt" THEN StopPc(me.pc) ELSE me.pc
      BY <1>1 DEF WorkerState
    <3> HIDE DEF t
    <3>4. QED
      BY <1>1, <2>1, <2>2, <3>1, <3>2, <3>3 DEF ThreadWhole, RowWhole, Whole, StopPc, Checkpoints
  <2>4. QED
    BY <1>5, <2>1, <2>2, <2>3, CommitWhole DEF CheckCommit, Checkpoints
<1>6. CASE CheckWait(w)
  <2>1. Grows
    BY <1>6 DEF CheckWait, Grows
  <2>2. QED
    BY <1>6, <2>1, GrowsWhole DEF CheckWait, WholeInv, CallWhole, RowWhole, Whole
<1>7. QED
  BY <1>2, <1>3, <1>4, <1>5, <1>6 DEF Checkpoint

\* What a session other than a checkpoint's may write.
LEMMA HandledWhole ==
    ASSUME NEW r \in Row, NEW j, RowWhole(r, j), NEW pc \in Sessions,
           pc = "complete" => Whole(j)
    PROVE  /\ RowWhole(Diff(r, Handled(pc, r)), j)
           /\ Diff(r, Handled(pc, r)).cancel = None
<1>1. RowWhole(Handled(pc, r), j)
  BY DEF RowWhole, Sessions, Handled, SetState, CompleteJob, Ended, Row
<1>2. Handled(pc, r).cancel = r.cancel
  BY DEF Sessions, Handled, SetState, CompleteJob, Ended, Row
<1>3. QED
  BY <1>1, <1>2, DiffWhole DEF Diff, Changed

\* The sessions that do not take _control, and the exceptions.
LEMMA SessionWhole ==
    ASSUME TypeInv, TypeInv', WholeInv, NEW w \in Workers, Session(w) \/ Raise(w) \/ Exit(w)
    PROVE  WholeInv'
<1> DEFINE me == worker[w]
<1>1. ThreadOK(me) /\ ThreadWhole(me) /\ me \in WorkerState
  BY DEF TypeInv, TypeOK, WholeInv
<1>2. /\ NoUpdate.state # "completed" /\ NoUpdate.resume # "completed"
      /\ NoUpdate.cancel = None
  BY NoneAssumption DEF NoUpdate, State, Terminal
<1>3. CASE ReadSession(w)
  <2> DEFINE r == job[me.job]
             u == Diff(r, Handled(me.pc, r))
             t == [me EXCEPT !.open = TRUE, !.update = u]
  <2>1. me.pc \in Sessions /\ me.job \in Jobs
    BY <1>1, <1>3 DEF ReadSession, ThreadOK, Sessions
  <2>2. RowWhole(r, me.job) /\ r \in Row
    BY <2>1 DEF WholeInv, TypeInv, TypeOK
  <2>3. RowWhole(u, me.job) /\ u.cancel = None
    BY <1>1, <2>1, <2>2, HandledWhole DEF ThreadWhole, Sessions
  <2>4. worker' = [worker EXCEPT ![w] = t]
    BY <1>3 DEF ReadSession, TypeInv, TypeOK
  <2> HIDE DEF u
  <2>5. ThreadWhole(t)
    BY <1>1, <2>1, <2>3 DEF ThreadWhole, WorkerState, Sessions
  <2>6. QED
    BY <1>3, <2>4, <2>5, OneThreadWhole DEF ReadSession
<1>4. CASE CountRecord(w)
  <2> DEFINE t == [me EXCEPT !.found = @ + 1, !.pc = ScanPc(me.found + 1)]
  <2>1. ThreadWhole(t)
    BY <1>1, <1>4, NAssumption DEF CountRecord, ScanPc, ThreadOK, ThreadWhole, WorkerState
  <2>2. worker' = [worker EXCEPT ![w] = t]
    BY <1>4 DEF CountRecord, TypeInv, TypeOK
  <2>3. QED
    BY <1>4, <2>1, <2>2, OneThreadWhole DEF CountRecord
<1>5. ASSUME NEW next \in WorkerState, next.job = me.job, Commits(w, next),
             next.pc # "dead", next.hold = "no", me.pc # "dead", me.job \in Jobs,
             \A j \in Jobs : seen[j] \subseteq seen'[j],
             /\ next.pc = "paired" => next.found = N
             /\ next.pc \in {"previewing", "import", "save", "end", "complete"} => next.found = N
             /\ next.pc \in {"import", "save"} => 1..next.done \subseteq seen'[me.job]
             /\ next.pc \in {"end", "complete"} => seen'[me.job] = Photos
      PROVE  WholeInv'
  <2> DEFINE t == [next EXCEPT !.open = FALSE, !.update = NoUpdate]
  <2>1. worker'[w] = t /\ \A v \in Workers \ {w} : worker'[v] = worker[v]
    BY <1>5 DEF Commits, TypeInv, TypeOK
  <2>2. /\ t.job = me.job /\ t.found = next.found /\ t.done = next.done /\ t.hold = "no"
        /\ t.update = NoUpdate /\ t.pc = next.pc
    BY <1>5 DEF WorkerState
  <2> HIDE DEF t
  <2>3. ThreadWhole(worker[w])'
    BY <1>2, <1>5, <2>1, <2>2 DEF ThreadWhole, RowWhole, Whole
  <2>4. QED
    BY <1>5, <2>1, <2>3, CommitWhole DEF Commits
<1>6. CASE Discovering(w)
  <2> DEFINE next == [me EXCEPT !.pc = ScanPc(0)]
  <2>1. /\ me.found = 0 /\ me.job \in Jobs /\ me.hold = "no" /\ me.pc = "discovering"
        /\ ScanPc(0) \in {"scan", "paired"} /\ (ScanPc(0) = "paired" => 0 = N)
    BY <1>1, <1>6, NAssumption DEF Discovering, ScanPc, ThreadOK, Checkpoints
  <2>2. /\ next \in WorkerState /\ next.job = me.job /\ next.hold = "no"
        /\ next.pc = ScanPc(0) /\ next.found = me.found
    BY <1>1, <2>1 DEF WorkerState, Pc, Checkpoints
  <2> HIDE DEF next
  <2>3. Commits(w, next) /\ UNCHANGED seen
    BY <1>6 DEF Discovering, next
  <2>4. QED
    BY <1>5, <2>1, <2>2, <2>3
<1>7. CASE Previewing(w)
  <2> DEFINE next == [me EXCEPT !.pc = ImportPc(0, me.found)]
  <2>1. /\ me.done = 0 /\ me.job \in Jobs /\ me.hold = "no" /\ me.pc = "previewing"
        /\ me.found = N /\ me.found \in Nat
        /\ ImportPc(0, me.found) \in {"import", "end"}
        /\ ImportPc(0, me.found) = "end" => N = 0
    BY <1>1, <1>7, NAssumption
       DEF Previewing, ImportPc, ThreadOK, ThreadWhole, WorkerState, Checkpoints
  <2>2. /\ next \in WorkerState /\ next.job = me.job /\ next.hold = "no" /\ next.done = 0
        /\ next.pc = ImportPc(0, me.found) /\ next.found = N
    BY <1>1, <2>1 DEF WorkerState, Pc, Checkpoints
  <2> HIDE DEF next
  <2>3. Commits(w, next) /\ UNCHANGED seen
    BY <1>7 DEF Previewing, next
  <2>4. 1..0 \subseteq seen[me.job] /\ (N = 0 => seen[me.job] = Photos)
    <3>1. seen[me.job] \subseteq Photos
      BY <2>1 DEF TypeInv, TypeOK
    <3>2. 1..0 = {}
      OBVIOUS
    <3>3. QED
      BY <3>1, <3>2 DEF Photos
  <2>5. QED
    BY <1>5, <2>1, <2>2, <2>3, <2>4
<1>8. CASE SavePhoto(w)
  <2> DEFINE k == me.done + 1
             next == [me EXCEPT !.done = k, !.pc = ImportPc(k, me.found)]
  <2>1. /\ me.done \in Nat /\ me.found = N /\ k \in 1..N
        /\ me.job \in Jobs /\ me.hold = "no" /\ me.pc = "save"
        /\ 1..me.done \subseteq seen[me.job]
        /\ ImportPc(k, me.found) \in {"import", "end"}
        /\ ImportPc(k, me.found) = "end" => k = N
    BY <1>1, <1>8, NAssumption
       DEF SavePhoto, ImportPc, ThreadOK, ThreadWhole, WorkerState, Checkpoints
  <2>2. /\ next \in WorkerState /\ next.job = me.job /\ next.hold = "no" /\ next.done = k
        /\ next.pc = ImportPc(k, me.found) /\ next.found = N
    <3>1. k \in 0..N
      BY <2>1
    <3> HIDE DEF k
    <3>2. QED
      BY <1>1, <2>1, <3>1 DEF WorkerState, Pc, Checkpoints
  <2>3. seen' = [seen EXCEPT ![me.job] = @ \cup {k}]
    BY <1>8 DEF SavePhoto
  <2>4. Commits(w, next)
    BY <1>8 DEF SavePhoto
  <2> HIDE DEF next
  <2>5. seen'[me.job] = seen[me.job] \cup {k} /\ \A j \in Jobs : seen[j] \subseteq seen'[j]
    BY <2>1, <2>3 DEF TypeInv, TypeOK
  <2>6. 1..k \subseteq seen'[me.job] /\ seen'[me.job] \subseteq Photos
    BY <2>1, <2>5 DEF TypeInv, TypeOK
  <2>7. k = N => seen'[me.job] = Photos
    BY <2>6 DEF Photos
  <2>8. QED
    BY <1>5, <2>1, <2>2, <2>4, <2>5, <2>6, <2>7
<1>9. CASE EndJob(w)
  <2> DEFINE next == [me EXCEPT !.pc = "exit"]
  <2>1. me.job \in Jobs /\ me.hold = "no" /\ me.pc # "dead"
    BY <1>1, <1>9 DEF EndJob, ThreadOK, Checkpoints
  <2>2. next \in WorkerState /\ next.job = me.job /\ next.hold = "no" /\ next.pc = "exit"
    BY <1>1, <2>1 DEF WorkerState, Pc
  <2>3. Commits(w, next) /\ UNCHANGED seen
    BY <1>9 DEF EndJob
  <2> HIDE DEF next
  <2>4. QED
    BY <1>5, <2>1, <2>2, <2>3
<1>10. CASE Raise(w)
  <2> DEFINE t == [me EXCEPT !.pc = "fail", !.open = FALSE, !.hold = "no", !.update = NoUpdate]
  <2>1. ThreadWhole(t)
    BY <1>1, <1>2, <1>10 DEF Raise, ThreadWhole, RowWhole, WorkerState
  <2>2. worker' = [worker EXCEPT ![w] = t]
    BY <1>10 DEF Raise, TypeInv, TypeOK
  <2>3. QED
    BY <1>10, <2>1, <2>2, OneThreadWhole DEF Raise
<1>11. CASE Exit(w)
  <2>1. Grows
    BY <1>11 DEF Exit, Grows
  <2>2. ThreadWhole(Dead)'
    BY DEF ThreadWhole, Dead
  <2>3. worker'[w] = Dead /\ \A v \in Workers \ {w} : worker'[v] = worker[v]
    BY <1>11 DEF Exit, TypeInv, TypeOK
  <2>4. \A v \in Workers : ThreadWhole(worker[v])'
    BY <2>1, <2>2, <2>3, GrowsWhole DEF ThreadWhole, Dead
  <2>5. QED
    BY <1>11, <2>4 DEF Exit, WholeInv, CallWhole, RowWhole, Whole
<1>12. QED
  BY <1>3, <1>4, <1>6, <1>7, <1>8, <1>9, <1>10, <1>11 DEF Session


-----------------------------------------------------------------------------
(* Rows are never deleted, and a job that does not exist yet carries no     *)
(* cancellation. So creating a row takes no cancellation back.              *)

ThreadFresh(t) == t.pc # "dead" => job[t.job].state # "none" /\ t.update.state # "none"

CallFresh == call.op \notin {"none", "shutdown"} =>
                job[call.job].state # "none" /\ call.snap.state # "none"

FreshInv ==
    /\ \A j \in Jobs : job[j].state = "none" => ~job[j].cancel
    /\ \A w \in Workers : ThreadFresh(worker[w])
    /\ CallFresh

\* A step that deletes no row, and leaves the missing ones as they are.
Keeps ==
    \A j \in Jobs : /\ job[j].state # "none" => job'[j].state # "none"
                    /\ job'[j].state = "none" => job'[j] = job[j]

\* Every handler leaves the row of a job the row of a job.
LEMMA HandlersFresh ==
    ASSUME NEW r \in Row, r.state # "none"
    PROVE  /\ Ended(r, "cancelled").state # "none"
           /\ PausedRow(r).state # "none" /\ ParkedRow(r).state # "none"
           /\ \A b \in BOOLEAN : CancelledRow(r, b).state # "none" /\ ResumedRow(r, b).state # "none"
           /\ \A pc \in Sessions : Handled(pc, r).state # "none"
<1>1. PausedRow(r).state # "none" /\ ParkedRow(r).state # "none"
  BY DEF PausedRow, ParkedRow, Row
<1>2. \A b \in BOOLEAN : CancelledRow(r, b).state # "none"
  BY DEF CancelledRow, Ended, Row
<1>3. \A b \in BOOLEAN : ResumedRow(r, b).state # "none"
  <2> SUFFICES ASSUME NEW b \in BOOLEAN
               PROVE  ResumedRow(r, b).state # "none"
    OBVIOUS
  <2> DEFINE s == IF r.resume = "none" THEN "queued" ELSE r.resume
             back == [r EXCEPT !.state = s, !.rev = s, !.resume = "none", !.pause = FALSE]
  <2>1. back.state = s /\ [back EXCEPT !.imported = 0].state = s /\ s # "none"
    BY DEF Row
  <2>2. QED
    BY <2>1 DEF ResumedRow
<1>4. \A pc \in Sessions : Handled(pc, r).state # "none"
  BY DEF Sessions, Handled, SetState, CompleteJob, Ended, Row
<1>5. Ended(r, "cancelled").state # "none"
  BY DEF Ended, Row
<1>6. QED
  BY <1>1, <1>2, <1>3, <1>4, <1>5

\* An update of a row into that of a job never writes that there is none.
LEMMA DiffFresh ==
    ASSUME NEW old, NEW new, new.state # "none"
    PROVE  Diff(old, new).state # "none"
BY NoneAssumption DEF Diff, Changed, State

\* The commit of such an update on the row of a job deletes nothing.
LEMMA CommitKeeps ==
    ASSUME TypeInv, NEW k \in Jobs, NEW u, job[k].state # "none", u.state # "none",
           job' = [job EXCEPT ![k] = Apply(@, u)]
    PROVE  Keeps
<1>1. job'[k].state # "none"
  BY DEF TypeInv, TypeOK, Apply, Written
<1>2. \A j \in Jobs \ {k} : job'[j] = job[j]
  BY DEF TypeInv, TypeOK
<1>3. QED
  BY <1>1, <1>2 DEF Keeps

\* A step keeps the invariant if its threads and its request are about jobs.
LEMMA KeepsFresh ==
    ASSUME TypeInv, TypeInv', FreshInv, Keeps,
           \A v \in Workers : worker'[v].pc # "dead" =>
               /\ worker'[v].update.state # "none"
               /\ job[worker'[v].job].state # "none" \/ job'[worker'[v].job].state # "none",
           call'.op \notin {"none", "shutdown"} =>
               job[call'.job].state # "none" /\ call'.snap.state # "none"
    PROVE  FreshInv'
<1>1. \A j \in Jobs : job'[j].state = "none" => ~job'[j].cancel
  BY DEF Keeps, FreshInv
<1>2. \A v \in Workers : worker'[v].pc # "dead" => worker'[v].job \in Jobs
  BY DEF TypeInv, ThreadOK
<1>3. \A v \in Workers : ThreadFresh(worker[v])'
  BY <1>2 DEF Keeps, ThreadFresh
<1>4. CallFresh'
  BY DEF Keeps, CallFresh, TypeInv, CallOK
<1>5. QED
  BY <1>1, <1>3, <1>4 DEF FreshInv

\* A step of thread w alone.
LEMMA OneThreadFresh ==
    ASSUME TypeInv, TypeInv', FreshInv, Keeps, NEW w \in Workers, worker[w].pc # "dead",
           \A v \in Workers \ {w} : worker'[v] = worker[v],
           worker'[w].pc # "dead" =>
               worker'[w].job = worker[w].job /\ worker'[w].update.state # "none",
           UNCHANGED call
    PROVE  FreshInv'
BY KeepsFresh DEF FreshInv, ThreadFresh, CallFresh

\* The steps of a thread, its checkpoints and sessions included.
LEMMA ThreadStepFresh ==
    ASSUME TypeInv, TypeInv', FreshInv, NEW w \in Workers,
           \/ RegisterThread(w) \/ StartThread(w)
           \/ Checkpoint(w) \/ CheckCommit(w) \/ Session(w) \/ Raise(w) \/ Exit(w)
    PROVE  FreshInv'
<1> DEFINE me == worker[w]
           r == job[me.job]
<1>1. ThreadOK(me) /\ ThreadFresh(me) /\ me \in WorkerState /\ NoUpdate.state # "none"
  BY NoneAssumption DEF TypeInv, TypeOK, FreshInv, NoUpdate, State
<1>2. ASSUME UNCHANGED <<job, call>>, me.pc # "dead", NEW t,
             worker' = [worker EXCEPT ![w] = t],
             t.pc # "dead" => t.job = me.job /\ t.update.state # "none"
      PROVE  FreshInv'
  <2>1. Keeps
    BY <1>2 DEF Keeps
  <2>2. worker'[w] = t /\ \A v \in Workers \ {w} : worker'[v] = worker[v]
    BY <1>2 DEF TypeInv, TypeOK
  <2>3. QED
    BY <1>2, <2>1, <2>2, OneThreadFresh
<1>3. ASSUME me.pc # "dead", UNCHANGED call, NEW t,
             job' = [job EXCEPT ![me.job] = Apply(@, me.update)],
             worker' = [worker EXCEPT ![w] = t], t.job = me.job, t.update = NoUpdate
      PROVE  FreshInv'
  <2>1. me.job \in Jobs /\ me.update.state # "none" /\ job[me.job].state # "none"
    BY <1>1, <1>3 DEF ThreadOK, ThreadFresh
  <2>2. Keeps
    BY <1>3, <2>1, CommitKeeps
  <2>3. worker'[w] = t /\ \A v \in Workers \ {w} : worker'[v] = worker[v]
    BY <1>3 DEF TypeInv, TypeOK
  <2>4. QED
    BY <1>1, <1>3, <2>2, <2>3, OneThreadFresh
<1>4. ASSUME RegisterThread(w) \/ StartThread(w) \/ CheckPass(w) \/ CheckShutdown(w)
             \/ CountRecord(w) \/ Raise(w) \/ Exit(w)
      PROVE  FreshInv'
  <2>1. me.pc # "dead" /\ UNCHANGED <<job, call>>
    BY <1>4 DEF RegisterThread, StartThread, CheckPass, CheckShutdown, AtCheckpoint,
       CountRecord, Raise, Exit, Checkpoints, Sessions
  <2>2. \A v \in Workers \ {w} : worker'[v] = worker[v]
    BY <1>4 DEF RegisterThread, StartThread, CheckPass, CheckShutdown, CountRecord, Raise, Exit,
       TypeInv, TypeOK
  <2>3. worker'[w].pc # "dead" => worker'[w].job = me.job /\ worker'[w].update.state # "none"
    BY <1>1, <1>4, <2>1 DEF RegisterThread, StartThread, CheckPass, CheckShutdown, CountRecord,
       Raise, Exit, TypeInv, TypeOK, WorkerState, ThreadFresh, Dead
  <2>4. Keeps
    BY <2>1 DEF Keeps
  <2>5. QED
    BY <2>1, <2>2, <2>3, <2>4, OneThreadFresh
<1>5. CASE CheckRead(w)
  <2>1. me.pc # "dead" /\ me.job \in Jobs /\ r \in Row /\ r.state # "none"
    BY <1>1, <1>5 DEF CheckRead, AtCheckpoint, Checkpoints, ThreadOK, ThreadFresh, TypeInv, TypeOK
  <2>2. /\ Diff(r, Ended(r, "cancelled")).state # "none"
        /\ Diff(r, ParkedRow(r)).state # "none"
    BY <2>1, HandlersFresh, DiffFresh
  <2>3. \E h, u : /\ worker' = [worker EXCEPT ![w] = [me EXCEPT !.hold = h, !.update = u]]
                  /\ u.state # "none"
    <3> DEFINE T(h, u) == [worker EXCEPT ![w].hold = h, ![w].update = u]
    <3>1. \/ worker' = T("halt", Diff(r, Ended(r, "cancelled")))
          \/ worker' = T("park", Diff(r, ParkedRow(r)))
      BY <1>5 DEF CheckRead
    <3>2. \A h, u : T(h, u) = [worker EXCEPT ![w] = [me EXCEPT !.hold = h, !.update = u]]
      BY DEF TypeInv, TypeOK
    <3> HIDE DEF T, r
    <3>3. QED
      BY <2>2, <3>1, <3>2
  <2>4. PICK h, u : /\ worker' = [worker EXCEPT ![w] = [me EXCEPT !.hold = h, !.update = u]]
                    /\ u.state # "none"
    BY <2>3
  <2>5. LET t == [me EXCEPT !.hold = h, !.update = u]
        IN  t.job = me.job /\ t.update.state # "none"
    BY <1>1, <2>4 DEF WorkerState
  <2>6. UNCHANGED <<job, call>>
    BY <1>5 DEF CheckRead
  <2>7. QED
    BY <1>2, <2>1, <2>4, <2>5, <2>6
<1>6. CASE CheckCommit(w)
  <2> DEFINE t == [me EXCEPT !.hold = "no", !.update = NoUpdate,
                             !.pc = IF me.hold = "halt" THEN StopPc(@) ELSE @]
  <2>1. me.pc # "dead" /\ t.job = me.job /\ t.update = NoUpdate
    BY <1>1, <1>6 DEF CheckCommit, ThreadOK, WorkerState, Checkpoints
  <2>2. worker' = [worker EXCEPT ![w] = t] /\ UNCHANGED call
        /\ job' = [job EXCEPT ![me.job] = Apply(@, me.update)]
    BY <1>6 DEF CheckCommit
  <2> HIDE DEF t
  <2>3. QED
    BY <1>3, <2>1, <2>2
<1>7. CASE CheckWait(w)
  BY <1>7 DEF CheckWait, FreshInv, ThreadFresh, CallFresh
<1>8. CASE ReadSession(w)
  <2> DEFINE u == Diff(r, Handled(me.pc, r))
             t == [me EXCEPT !.open = TRUE, !.update = u]
  <2>1. me.pc \in Sessions /\ me.pc # "dead" /\ me.job \in Jobs /\ r \in Row /\ r.state # "none"
    BY <1>1, <1>8 DEF ReadSession, Sessions, ThreadOK, ThreadFresh, TypeInv, TypeOK
  <2>2. u.state # "none"
    BY <2>1, HandlersFresh, DiffFresh
  <2>3. worker' = [worker EXCEPT ![w] = t] /\ UNCHANGED <<job, call>>
    BY <1>8 DEF ReadSession, TypeInv, TypeOK
  <2> HIDE DEF u
  <2>4. t.job = me.job /\ t.update.state # "none"
    BY <1>1, <2>2 DEF WorkerState
  <2>5. QED
    BY <1>2, <2>1, <2>3, <2>4
<1> DEFINE Moved == [job : {me.job}, pc : Pc, found : {me.found}, done : {me.done, me.done + 1},
                     open : {me.open}, hold : {me.hold}, update : {me.update}]
<1>9. ASSUME NEW next \in Moved, Commits(w, next), me.pc # "dead"
      PROVE  FreshInv'
  <2> DEFINE t == [next EXCEPT !.open = FALSE, !.update = NoUpdate]
  <2>1. t.job = me.job /\ t.update = NoUpdate
    OBVIOUS
  <2>2. /\ worker' = [worker EXCEPT ![w] = t] /\ UNCHANGED call
        /\ job' = [job EXCEPT ![me.job] = Apply(@, me.update)]
    BY <1>9 DEF Commits
  <2> HIDE DEF t
  <2>3. QED
    BY <1>3, <1>9, <2>1, <2>2
<1>10. CASE Discovering(w) \/ Previewing(w) \/ SavePhoto(w) \/ EndJob(w)
  <2>1. PICK next \in Moved : Commits(w, next)
    BY <1>1, <1>10 DEF Discovering, Previewing, SavePhoto, EndJob, WorkerState, ImportPc, ScanPc,
       Pc, Checkpoints
  <2>2. me.pc # "dead"
    BY <1>10 DEF Discovering, Previewing, SavePhoto, EndJob
  <2>3. QED
    BY <1>9, <2>1, <2>2
<1>11. QED
  BY <1>4, <1>5, <1>6, <1>7, <1>8, <1>10 DEF Checkpoint, Session

\* The creation of a job.
LEMMA CreateFresh ==
    ASSUME TypeInv, TypeInv', FreshInv, NEW w \in Workers, NEW j \in Jobs, StartImport(j, w)
    PROVE  FreshInv'
<1>1. job' = [job EXCEPT ![j] = QueuedRow] /\ QueuedRow.state = "queued"
  BY DEF StartImport, QueuedRow, NoRow
<1>2. Keeps
  BY <1>1 DEF StartImport, Keeps, TypeInv, TypeOK
<1>3. Thread(j, "new").job = j /\ Thread(j, "new").update.state # "none"
  BY NoneAssumption DEF Thread, Dead, NoUpdate, State
<1>4. worker'[w] = Thread(j, "new") /\ \A v \in Workers \ {w} : worker'[v] = worker[v]
  BY DEF StartImport, TypeInv, TypeOK
<1>5. job'[j].state # "none"
  BY <1>1 DEF TypeInv, TypeOK
<1>6. \A v \in Workers : worker'[v].pc # "dead" =>
         /\ worker'[v].update.state # "none"
         /\ job[worker'[v].job].state # "none" \/ job'[worker'[v].job].state # "none"
  BY <1>3, <1>4, <1>5 DEF FreshInv, ThreadFresh
<1>7. UNCHANGED call
  BY DEF StartImport
<1>8. QED
  BY <1>2, <1>6, <1>7, KeepsFresh DEF FreshInv, CallFresh

\* The requests, the shutdown and the restart.
LEMMA RequestFresh ==
    ASSUME TypeInv, TypeInv', FreshInv,
           (\E j \in Jobs : Request(j)) \/ CallStep \/ ShutdownBegin \/ Restart
    PROVE  FreshInv'
<1>1. CallOK(call) /\ CallFresh /\ call \in CallState /\ call.snap \in Row
  BY DEF TypeInv, TypeOK, FreshInv, CallState
<1>2. \A op : [NoCall EXCEPT !.op = op].op = op
  BY DEF NoCall
<1>3. ASSUME UNCHANGED <<job, worker>>,
             call'.op \notin {"none", "shutdown"} =>
                 job[call'.job].state # "none" /\ call'.snap.state # "none"
      PROVE  FreshInv'
  <2>1. Keeps
    BY <1>3 DEF Keeps
  <2>2. QED
    BY <1>3, <2>1, KeepsFresh DEF FreshInv, ThreadFresh
<1>4. ASSUME NEW new, new.state # "none", call.op \notin {"none", "shutdown"},
             job' = [job EXCEPT ![call.job] = Apply(@, Diff(call.snap, new))],
             call'.op \in {"none", "shutdown"}, UNCHANGED worker
      PROVE  FreshInv'
  <2>1. Keeps
    <3> DEFINE u == Diff(call.snap, new)
    <3>1. u.state # "none" /\ call.job \in Jobs /\ job[call.job].state # "none"
      BY <1>1, <1>4, DiffFresh DEF CallOK, CallFresh
    <3>2. job' = [job EXCEPT ![call.job] = Apply(@, u)]
      BY <1>4
    <3> HIDE DEF u
    <3>3. QED
      BY <3>1, <3>2, CommitKeeps
  <2>2. QED
    BY <1>4, <2>1, KeepsFresh DEF FreshInv, ThreadFresh
<1>5. ASSUME NEW new, new.state # "none", call.op \notin {"none", "shutdown"}, Finish(new)
      PROVE  FreshInv'
  BY <1>4, <1>5 DEF Finish, NoCall
<1>6. ASSUME NEW j \in Jobs, Request(j)
      PROVE  FreshInv'
  <2>1. PICK op \in {"cancel", "pause", "resume"} : Begin(op, j)
    BY <1>6 DEF Request, CancelRead, PauseRead, ResumeRead
  <2>2. /\ job[j].state # "none" /\ UNCHANGED <<job, worker>>
        /\ call' = [NoCall EXCEPT !.op = op, !.job = j, !.snap = job[j]]
    BY <2>1 DEF Begin
  <2>3. call'.job = j /\ call'.snap = job[j]
    BY <2>2 DEF NoCall
  <2>4. QED
    BY <1>3, <2>2, <2>3
<1>7. CASE CancelDecide
  BY <1>1, <1>3, <1>7 DEF CancelDecide, CallFresh, CallState
<1>8. CASE ResumeDecide
  <2> DEFINE k == call.job
  <2>1. /\ k \in Jobs /\ job[k].state # "none" /\ call.snap.state # "none"
        /\ UNCHANGED job
    BY <1>1, <1>8 DEF ResumeDecide, CallOK, CallFresh
  <2>2. CASE call' = [call EXCEPT !.op = "resumeLive"] /\ UNCHANGED <<worker, threads>>
    BY <1>1, <1>3, <2>1, <2>2 DEF CallState
  <2>3. ASSUME NEW w \in Workers,
               call' = [call EXCEPT !.op = "resumeSpawn", !.spawn = w],
               worker' = [worker EXCEPT ![w] = Thread(k, "registered")]
        PROVE  FreshInv'
    <3>1. Keeps
      BY <2>1 DEF Keeps
    <3>2. Thread(k, "registered").job = k /\ Thread(k, "registered").update.state # "none"
      BY NoneAssumption DEF Thread, Dead, NoUpdate, State
    <3>3. worker'[w] = Thread(k, "registered") /\ \A v \in Workers \ {w} : worker'[v] = worker[v]
      BY <2>3 DEF TypeInv, TypeOK
    <3>4. call'.job = k /\ call'.snap = call.snap
      BY <1>1, <2>3 DEF CallState
    <3>5. \A v \in Workers : worker'[v].pc # "dead" =>
             worker'[v].update.state # "none" /\ job[worker'[v].job].state # "none"
      BY <2>1, <3>2, <3>3 DEF FreshInv, ThreadFresh
    <3>6. QED
      BY <2>1, <3>1, <3>4, <3>5, KeepsFresh
  <2>4. QED
    BY <1>8, <2>2, <2>3 DEF ResumeDecide
<1>9. CASE CancelCommit
  BY <1>1, <1>5, <1>9, HandlersFresh DEF CancelCommit, CallFresh
<1>10. CASE PauseCommit
  BY <1>1, <1>5, <1>10, HandlersFresh DEF PauseCommit, CallFresh
<1>11. CASE ResumeCommit
  BY <1>1, <1>5, <1>11, HandlersFresh DEF ResumeCommit, CallFresh
<1>12. CASE ShutdownCommit
  BY <1>1, <1>2, <1>4, <1>12, HandlersFresh DEF ShutdownCommit, CallFresh
<1>13. CASE ShutdownEnd
  BY <1>3, <1>13 DEF ShutdownEnd, NoCall
<1>14. ASSUME NEW j \in Jobs, ShutdownRead(j)
       PROVE  FreshInv'
  <2>1. CASE UNCHANGED call
    BY <1>1, <1>3, <1>14, <2>1 DEF ShutdownRead, CallFresh
  <2>2. CASE /\ job[j].state \in Active
             /\ call' = [call EXCEPT !.op = "shutdownPause", !.job = j, !.snap = job[j]]
    BY <1>1, <1>3, <1>14, <2>2 DEF ShutdownRead, CallState, Active
  <2>3. QED
    BY <1>14, <2>1, <2>2 DEF ShutdownRead
<1>15. CASE ShutdownBegin
  BY <1>2, <1>3, <1>15 DEF ShutdownBegin
<1>16. CASE Restart
  <2>1. \A j \in Jobs : job'[j] = RecoveredRow(job[j])
    BY <1>16 DEF Restart
  <2>2. Keeps
    BY <2>1 DEF Keeps, RecoveredRow, Active, TypeInv, TypeOK, Row
  <2>3. \A v \in Workers : worker'[v].pc = "dead"
    BY <1>16 DEF Restart, Dead
  <2>4. call'.op = "none"
    BY <1>16 DEF Restart, NoCall
  <2>5. QED
    BY <2>2, <2>3, <2>4, KeepsFresh
<1>17. QED
  BY <1>6, <1>7, <1>8, <1>9, <1>10, <1>11, <1>12, <1>13, <1>14, <1>15, <1>16 DEF CallStep

LEMMA FreshInit == Init => FreshInv
BY DEF Init, FreshInv, ThreadFresh, CallFresh, NoRow, Dead, NoCall

LEMMA FreshNext == TypeInv /\ TypeInv' /\ FreshInv /\ [Next]_vars => FreshInv'
<1>1. FreshInv /\ UNCHANGED vars => FreshInv'
  BY DEF FreshInv, ThreadFresh, CallFresh, vars
<1>2. QED
  BY <1>1, CreateFresh, ThreadStepFresh, RequestFresh DEF Next

\* The creation of a job, and the life of a thread before it runs.
LEMMA StartWhole ==
    ASSUME TypeInv, TypeInv', FreshInv, WholeInv, NEW w \in Workers,
           (\E j \in Jobs : StartImport(j, w)) \/ RegisterThread(w) \/ StartThread(w)
    PROVE  WholeInv'
<1> DEFINE me == worker[w]
<1>1. ThreadOK(me) /\ ThreadWhole(me) /\ me \in WorkerState
  BY DEF TypeInv, TypeOK, WholeInv
<1>2. ASSUME NEW j \in Jobs, StartImport(j, w)
      PROVE  WholeInv'
  <2>1. /\ job' = [job EXCEPT ![j] = QueuedRow] /\ job[j].state = "none"
        /\ UNCHANGED <<seen, call, stopJobs>>
    BY <1>2 DEF StartImport
  <2>2. job'[j] = QueuedRow /\ \A k \in Jobs \ {j} : job'[k] = job[k]
    BY <2>1 DEF TypeInv, TypeOK
  <2>3. Grows
    BY <2>1, <2>2 DEF Grows, FreshInv
  <2>4. worker'[w] = Thread(j, "new") /\ \A v \in Workers \ {w} : worker'[v] = worker[v]
    BY <1>2 DEF StartImport, TypeInv, TypeOK
  <2>5. ThreadWhole(Thread(j, "new"))'
    BY NoneAssumption DEF ThreadWhole, RowWhole, Thread, Dead, NoUpdate, State, Terminal
  <2>6. ThreadWhole(worker[w])'
    BY <2>4, <2>5 DEF ThreadWhole, RowWhole, Whole
  <2>7. \A v \in Workers : ThreadWhole(worker[v])'
    BY <2>3, <2>4, <2>6, GrowsWhole
  <2>8. \A k \in Jobs : RowWhole(job[k], k)'
    BY <2>1, <2>2 DEF WholeInv, RowWhole, Whole, QueuedRow, NoRow
  <2>9. CallWhole'
    BY <2>1 DEF WholeInv, CallWhole, RowWhole, Whole
  <2>10. QED
    BY <2>7, <2>8, <2>9 DEF WholeInv
<1>3. ASSUME NEW pc, pc \in {"registered", "begin"}, me.pc # "dead",
             worker' = [worker EXCEPT ![w].pc = pc], UNCHANGED <<job, seen, call, stopJobs>>
      PROVE  WholeInv'
  <2>1. Grows
    BY <1>3 DEF Grows
  <2> DEFINE t == [me EXCEPT !.pc = pc]
  <2>2. worker'[w] = t /\ \A v \in Workers \ {w} : worker'[v] = worker[v]
    BY <1>3 DEF TypeInv, TypeOK
  <2>3. ThreadWhole(t)
    BY <1>1, <1>3 DEF ThreadWhole, RowWhole, Whole, WorkerState
  <2> HIDE DEF t
  <2>4. ThreadWhole(worker[w])'
    BY <1>3, <2>2, <2>3 DEF ThreadWhole, RowWhole, Whole
  <2>5. \A v \in Workers : ThreadWhole(worker[v])'
    BY <2>1, <2>2, <2>4, GrowsWhole
  <2>6. QED
    BY <1>3, <2>5 DEF WholeInv, CallWhole, RowWhole, Whole
<1>4. CASE RegisterThread(w)
  BY <1>3, <1>4 DEF RegisterThread
<1>5. CASE StartThread(w)
  BY <1>3, <1>5 DEF StartThread
<1>6. QED
  BY <1>2, <1>4, <1>5

\* The commit of a request or of a shutdown's pause.
LEMMA RequestCommitWhole ==
    ASSUME TypeInv, TypeInv', WholeInv, call.op \notin {"none", "shutdown"}, NEW new,
           job' = [job EXCEPT ![call.job] = Apply(@, Diff(call.snap, new))],
           RowWhole(new, call.job), new.cancel = call.snap.cancel \/ new.cancel = TRUE,
           UNCHANGED <<seen, worker>>, stopJobs \subseteq stopJobs',
           call'.op \in {"none", "shutdown"}
    PROVE  WholeInv'
<1> DEFINE k == call.job
           u == Diff(call.snap, new)
<1>1. k \in Jobs /\ RowWhole(job[k], k)
  BY DEF TypeInv, CallOK, WholeInv
<1>2. RowWhole(u, k) /\ (u.cancel = None \/ u.cancel = TRUE)
  BY DiffWhole DEF Diff, Changed
<1> HIDE DEF u
<1>3. job'[k] = Apply(job[k], u) /\ \A j \in Jobs \ {k} : job'[j] = job[j]
  BY <1>1 DEF TypeInv, TypeOK, u
<1>4. RowWhole(job'[k], k)
  BY <1>1, <1>2, <1>3, ApplyWhole
<1>5. Grows
  <2>1. job[k].cancel => Apply(job[k], u).cancel
    BY <1>2 DEF Apply, Written
  <2>2. QED
    BY <1>3, <2>1 DEF Grows
<1>6. \A j \in Jobs : RowWhole(job[j], j)'
  BY <1>3, <1>4 DEF WholeInv, RowWhole, Whole
<1>7. \A v \in Workers : ThreadWhole(worker[v])'
  BY <1>5, GrowsWhole
<1>8. QED
  BY <1>6, <1>7 DEF WholeInv, CallWhole

\* The requests, the shutdown and the restart.
LEMMA RequestWhole ==
    ASSUME TypeInv, TypeInv', WholeInv,
           (\E j \in Jobs : Request(j)) \/ CallStep \/ ShutdownBegin \/ Restart
    PROVE  WholeInv'
<1> DEFINE k == call.job
           r == call.snap
<1>1. CallOK(call) /\ CallWhole /\ call \in CallState /\ r \in Row
  BY DEF TypeInv, TypeOK, WholeInv, CallState
<1>2. ASSUME UNCHANGED <<job, seen, worker, stopJobs>>,
             call'.op \notin {"none", "shutdown"} => RowWhole(call'.snap, call'.job)
      PROVE  WholeInv'
  BY <1>2 DEF WholeInv, ThreadWhole, CallWhole, RowWhole, Whole
<1>3. ASSUME NEW new, call.op \notin {"none", "shutdown"}, Finish(new),
             RowWhole(new, k), new.cancel = r.cancel \/ new.cancel = TRUE
      PROVE  WholeInv'
  BY <1>3, RequestCommitWhole DEF Finish, NoCall
<1>4. ASSUME call.op \notin {"none", "shutdown"}
      PROVE  /\ RowWhole(PausedRow(r), k) /\ PausedRow(r).cancel = r.cancel
             /\ \A b \in BOOLEAN : RowWhole(CancelledRow(r, b), k)
             /\ \A b \in BOOLEAN : CancelledRow(r, b).cancel = TRUE
             /\ \A b \in BOOLEAN : RowWhole(ResumedRow(r, b), k)
             /\ \A b \in BOOLEAN : ResumedRow(r, b).cancel = r.cancel
  <2>1. RowWhole(r, k)
    BY <1>1, <1>4 DEF CallWhole
  <2>2. RowWhole(PausedRow(r), k) /\ PausedRow(r).cancel = r.cancel
    BY <1>1, <2>1 DEF PausedRow, RowWhole, Row
  <2>3. \A b \in BOOLEAN : RowWhole(CancelledRow(r, b), k) /\ CancelledRow(r, b).cancel = TRUE
    BY <1>1, <2>1 DEF CancelledRow, Ended, RowWhole, Row
  <2>4. ASSUME NEW b \in BOOLEAN
        PROVE  RowWhole(ResumedRow(r, b), k) /\ ResumedRow(r, b).cancel = r.cancel
    <3> DEFINE s == IF r.resume = "none" THEN "queued" ELSE r.resume
               back == [r EXCEPT !.state = s, !.rev = s, !.resume = "none", !.pause = FALSE]
    <3>1. back.state = s /\ back.resume = "none" /\ back.cancel = r.cancel
      BY <1>1 DEF Row
    <3>2. LET z == [back EXCEPT !.imported = 0]
          IN  z.state = s /\ z.resume = "none" /\ z.cancel = r.cancel
      BY <1>1 DEF Row
    <3>3. ResumedRow(r, b).state = s /\ ResumedRow(r, b).resume = "none"
          /\ ResumedRow(r, b).cancel = r.cancel
      BY <3>1, <3>2 DEF ResumedRow
    <3>4. QED
      BY <2>1, <3>3 DEF RowWhole
  <2>5. QED
    BY <2>2, <2>3, <2>4
<1>5. ASSUME NEW j \in Jobs, Request(j)
      PROVE  WholeInv'
  <2>1. PICK op \in {"cancel", "pause", "resume"} : Begin(op, j)
    BY <1>5 DEF Request, CancelRead, PauseRead, ResumeRead
  <2>2. /\ UNCHANGED <<job, seen, worker, stopJobs>>
        /\ call' = [NoCall EXCEPT !.op = op, !.job = j, !.snap = job[j]]
    BY <2>1 DEF Begin
  <2>3. call'.job = j /\ call'.snap = job[j]
    BY <2>2 DEF NoCall
  <2>4. QED
    BY <1>2, <2>2, <2>3 DEF WholeInv
<1>6. CASE CancelDecide
  BY <1>1, <1>2, <1>6 DEF CancelDecide, CallWhole, CallState
<1>7. CASE ResumeDecide
  <2>1. UNCHANGED <<job, seen, stopJobs>> /\ call.op = "resume" /\ k \in Jobs /\ RowWhole(r, k)
    BY <1>1, <1>7 DEF ResumeDecide, CallOK, CallWhole
  <2>2. CASE call' = [call EXCEPT !.op = "resumeLive"] /\ UNCHANGED <<worker, threads>>
    BY <1>1, <1>2, <2>1, <2>2 DEF CallState
  <2>3. ASSUME NEW w \in Workers,
               call' = [call EXCEPT !.op = "resumeSpawn", !.spawn = w],
               worker' = [worker EXCEPT ![w] = Thread(k, "registered")]
        PROVE  WholeInv'
    <3>1. Grows
      BY <2>1 DEF Grows
    <3>2. ThreadWhole(Thread(k, "registered"))
      BY NoneAssumption DEF ThreadWhole, RowWhole, Thread, Dead, NoUpdate, State, Terminal
    <3>3. worker'[w] = Thread(k, "registered") /\ \A v \in Workers \ {w} : worker'[v] = worker[v]
      BY <2>3 DEF TypeInv, TypeOK
    <3> DEFINE new == Thread(k, "registered")
    <3> HIDE DEF new
    <3>4. ThreadWhole(worker[w])'
      <4>1. ThreadWhole(new) /\ worker'[w] = new
        BY <3>2, <3>3 DEF new
      <4>2. QED
        BY <2>1, <4>1 DEF ThreadWhole, RowWhole, Whole
    <3>5. \A v \in Workers : ThreadWhole(worker[v])'
      BY <3>1, <3>3, <3>4, GrowsWhole
    <3>6. call'.job = k /\ call'.snap = r
      BY <1>1, <2>3 DEF CallState
    <3>7. QED
      BY <2>1, <3>5, <3>6 DEF WholeInv, CallWhole, RowWhole, Whole
  <2>4. QED
    BY <1>7, <2>2, <2>3 DEF ResumeDecide
<1>8. CASE CancelCommit
  BY <1>3, <1>4, <1>8 DEF CancelCommit
<1>9. CASE PauseCommit
  BY <1>3, <1>4, <1>9 DEF PauseCommit
<1>10. CASE ResumeCommit
  BY <1>3, <1>4, <1>10 DEF ResumeCommit
<1>11. CASE ShutdownCommit
  BY <1>4, <1>11, RequestCommitWhole DEF ShutdownCommit, NoCall
<1>12. CASE ShutdownEnd
  BY <1>2, <1>12 DEF ShutdownEnd, NoCall
<1>13. ASSUME NEW j \in Jobs, ShutdownRead(j)
       PROVE  WholeInv'
  <2>1. CASE /\ call' = [call EXCEPT !.op = "shutdownPause", !.job = j, !.snap = job[j]]
             /\ UNCHANGED stopJobs
    <3>1. call'.job = j /\ call'.snap = job[j]
      BY <1>1, <2>1 DEF CallState
    <3>2. QED
      BY <1>2, <1>13, <2>1, <3>1 DEF ShutdownRead, WholeInv
  <2>2. CASE stopJobs' = stopJobs \cup {j} /\ UNCHANGED call
    <3>1. Grows /\ UNCHANGED <<job, seen, worker>>
      BY <1>13, <2>2 DEF ShutdownRead, Grows
    <3>2. \A v \in Workers : ThreadWhole(worker[v])'
      BY <3>1, GrowsWhole
    <3>3. QED
      BY <2>2, <3>1, <3>2 DEF WholeInv, CallWhole, RowWhole, Whole
  <2>3. QED
    BY <1>13, <2>1, <2>2 DEF ShutdownRead
<1>14. CASE ShutdownBegin
  BY <1>2, <1>14 DEF ShutdownBegin, NoCall
<1>15. CASE Restart
  <2>1. \A j \in Jobs : job'[j] = RecoveredRow(job[j]) /\ seen'[j] = seen[j]
    BY <1>15 DEF Restart
  <2>2. \A j \in Jobs : RowWhole(job[j], j)'
    BY <2>1 DEF WholeInv, RowWhole, Whole, RecoveredRow, Active, TypeInv, TypeOK, Row
  <2>3. \A v \in Workers : ThreadWhole(worker[v])'
    BY <1>15 DEF Restart, Dead, ThreadWhole
  <2>4. CallWhole'
    BY <1>15 DEF Restart, NoCall, CallWhole
  <2>5. QED
    BY <2>2, <2>3, <2>4 DEF WholeInv
<1>16. QED
  BY <1>5, <1>6, <1>7, <1>8, <1>9, <1>10, <1>11, <1>12, <1>13, <1>14, <1>15 DEF CallStep

LEMMA WholeInit == Init => WholeInv
BY DEF Init, WholeInv, RowWhole, ThreadWhole, CallWhole, NoRow, Dead, NoCall

LEMMA WholeNext == TypeInv /\ TypeInv' /\ FreshInv /\ WholeInv /\ [Next]_vars => WholeInv'
<1>1. WholeInv /\ UNCHANGED vars => WholeInv'
  BY DEF WholeInv, RowWhole, ThreadWhole, CallWhole, Whole, vars
<1>2. QED
  BY <1>1, StartWhole, CheckpointWhole, SessionWhole, RequestWhole DEF Next

\* A completed job has imported the whole directory, whatever interrupts,
\* cancels or resumes it: a scan cut short never closes as a complete one, and
\* _complete_job never takes the files it did not reach for missing.
THEOREM CompletedIsWhole == Spec => []CompletedMeansImported
<1> DEFINE Inv == TypeInv /\ FreshInv /\ WholeInv
<1>1. Init => Inv
  BY TypeInit, FreshInit, WholeInit
<1>2. Inv /\ [Next]_vars => Inv'
  BY TypeNext, FreshNext, WholeNext
<1>3. Inv => CompletedMeansImported
  BY DEF WholeInv, RowWhole, Whole, CompletedMeansImported
<1>4. QED
  BY <1>1, <1>2, <1>3, PTL DEF Spec

-----------------------------------------------------------------------------
(* The registry. A slot is registered when its thread is created or after   *)
(* its job is visible, and leaves the registry in the step that frees it.   *)

\* A step that registers nothing and lets every thread live and keep its job.
Stays ==
    /\ UNCHANGED threads
    /\ \A v \in Workers : worker[v].pc \notin {"dead", "new"} =>
          worker'[v].job = worker[v].job /\ worker'[v].pc \notin {"dead", "new"}

LEMMA StaysLive ==
    ASSUME TypeInv, RegistryLive, Stays
    PROVE  RegistryLive'
BY DEF RegistryLive, Stays, TypeInv, TypeOK

\* A thread that moves on and keeps its job.
LEMMA MovesStay ==
    ASSUME TypeInv, UNCHANGED threads, NEW w \in Workers,
           \A v \in Workers \ {w} : worker'[v] = worker[v],
           worker'[w].job = worker[w].job, worker'[w].pc \notin {"dead", "new"}
    PROVE  Stays
BY DEF Stays

\* The steps of a thread until it exits.
LEMMA ThreadStays ==
    ASSUME TypeInv, NEW w \in Workers,
           StartThread(w) \/ Checkpoint(w) \/ CheckCommit(w) \/ Session(w) \/ Raise(w)
    PROVE  Stays
<1> DEFINE me == worker[w]
<1>1. me \in WorkerState /\ ThreadOK(me) /\ me.pc \in Pc
  BY DEF TypeInv, TypeOK, WorkerState
<1>2. ASSUME UNCHANGED threads, NEW t, worker' = [worker EXCEPT ![w] = t],
             t.job = me.job, t.pc \notin {"dead", "new"}
      PROVE  Stays
  BY <1>2, MovesStay DEF TypeInv, TypeOK
<1>3. CASE StartThread(w) \/ CheckPass(w) \/ CheckShutdown(w) \/ CountRecord(w) \/ Raise(w)
  <2>1. UNCHANGED threads /\ \A v \in Workers \ {w} : worker'[v] = worker[v]
    BY <1>3 DEF StartThread, CheckPass, CheckShutdown, CountRecord, Raise, TypeInv, TypeOK
  <2>2. worker'[w].job = me.job
    BY <1>1, <1>3 DEF StartThread, CheckPass, CheckShutdown, CountRecord, Raise, WorkerState,
       TypeInv, TypeOK
  <2>3. worker'[w].pc \notin {"dead", "new"}
    BY <1>1, <1>3 DEF StartThread, CheckPass, CheckShutdown, CountRecord, Raise, WorkerState,
       TypeInv, TypeOK, AtCheckpoint, PassPc, StopPc, ScanPc, Checkpoints
  <2>4. QED
    BY <2>1, <2>2, <2>3, MovesStay
<1>4. CASE CheckRead(w) \/ ReadSession(w)
  <2>1. UNCHANGED threads /\ me.pc \notin {"dead", "new"}
    BY <1>4 DEF CheckRead, ReadSession, AtCheckpoint, Checkpoints, Sessions
  <2>2. worker'[w].job = me.job /\ worker'[w].pc = me.pc
        /\ \A v \in Workers \ {w} : worker'[v] = worker[v]
    BY <1>1, <1>4 DEF CheckRead, ReadSession, TypeInv, TypeOK, WorkerState
  <2>3. QED
    BY <2>1, <2>2, MovesStay
<1>5. CASE CheckWait(w)
  BY <1>5 DEF CheckWait, Stays
<1>6. CASE CheckCommit(w)
  <2>1. me.pc \in Checkpoints /\ UNCHANGED threads
    BY <1>1, <1>6 DEF CheckCommit, ThreadOK
  <2>2. worker'[w].job = me.job /\ worker'[w].pc \in {me.pc, StopPc(me.pc)}
        /\ \A v \in Workers \ {w} : worker'[v] = worker[v]
    BY <1>1, <1>6 DEF CheckCommit, TypeInv, TypeOK, WorkerState
  <2>3. QED
    BY <2>1, <2>2, MovesStay DEF StopPc, Checkpoints
<1> DEFINE Moved == [job : {me.job}, pc : Pc \ {"dead", "new"}, found : {me.found},
                     done : {me.done, me.done + 1},
                     open : {me.open}, hold : {me.hold}, update : {me.update}]
<1>7. CASE Discovering(w) \/ Previewing(w) \/ SavePhoto(w) \/ EndJob(w)
  <2>1. PICK next \in Moved : Commits(w, next)
    BY <1>1, <1>7 DEF Discovering, Previewing, SavePhoto, EndJob, WorkerState, ImportPc, ScanPc,
       Pc, Checkpoints
  <2> DEFINE t == [next EXCEPT !.open = FALSE, !.update = NoUpdate]
  <2>2. t.job = me.job /\ t.pc \notin {"dead", "new"}
    OBVIOUS
  <2>3. worker' = [worker EXCEPT ![w] = t] /\ UNCHANGED threads
    BY <2>1 DEF Commits
  <2> HIDE DEF t
  <2>4. QED
    BY <1>2, <2>2, <2>3
<1>8. QED
  BY <1>3, <1>4, <1>5, <1>6, <1>7 DEF Checkpoint, Session

\* The steps that change the registry, or free or take a slot.
LEMMA RegistryNext == TypeInv /\ RegistryLive /\ [Next]_vars => RegistryLive'
<1> SUFFICES ASSUME TypeInv, RegistryLive, [Next]_vars
             PROVE  RegistryLive'
  OBVIOUS
<1>1. /\ \A w \in Workers : worker[w].pc \in {"dead", "new"} => \A j \in Jobs : threads[j] # w
      /\ \A j \in Jobs : threads[j] # None => threads[j] \in Workers
      /\ worker \in [Workers -> WorkerState] /\ threads \in [Jobs -> Workers \cup {None}]
  BY JobsAssumption DEF RegistryLive, TypeInv, TypeOK
<1>2. ASSUME NEW j \in Jobs, NEW w \in Workers, StartImport(j, w)
      PROVE  RegistryLive'
  BY <1>1, <1>2, JobsAssumption DEF StartImport, RegistryLive
<1>3. ASSUME NEW w \in Workers, RegisterThread(w)
      PROVE  RegistryLive'
  <2>1. worker[w].pc = "new" /\ worker[w].job \in Jobs /\ worker[w] \in WorkerState
    BY <1>1, <1>3 DEF RegisterThread, TypeInv, ThreadOK
  <2>2. worker'[w] = [worker[w] EXCEPT !.pc = "registered"]
        /\ \A v \in Workers \ {w} : worker'[v] = worker[v]
    BY <1>1, <1>3 DEF RegisterThread
  <2>3. worker'[w].job = worker[w].job /\ worker'[w].pc = "registered"
    BY <2>1, <2>2 DEF WorkerState
  <2>4. threads' = [threads EXCEPT ![worker[w].job] = w]
    BY <1>3 DEF RegisterThread
  <2>5. ASSUME NEW j \in Jobs, j # worker[w].job, threads[j] # None
        PROVE  threads'[j] = threads[j] /\ threads[j] \in Workers \ {w}
    BY <1>1, <2>1, <2>4, <2>5
  <2>6. threads'[worker[w].job] = w
    BY <1>1, <2>1, <2>4
  <2>7. \A j \in Jobs : j # worker[w].job => threads'[j] = threads[j]
    BY <1>1, <2>1, <2>4
  <2>8. ASSUME NEW j \in Jobs, threads'[j] # None
        PROVE  worker'[threads'[j]].job = j /\ worker'[threads'[j]].pc \notin {"dead", "new"}
    <3>1. CASE j = worker[w].job
      BY <2>3, <2>6, <3>1
    <3>2. CASE j # worker[w].job
      <4>1. threads'[j] = threads[j] /\ threads[j] # None /\ threads[j] \in Workers \ {w}
        BY <2>5, <2>7, <2>8, <3>2
      <4>2. worker'[threads[j]] = worker[threads[j]]
        BY <2>2, <4>1
      <4>3. worker[threads[j]].job = j /\ worker[threads[j]].pc \notin {"dead", "new"}
        BY <4>1 DEF RegistryLive
      <4>4. QED
        BY <4>1, <4>2, <4>3
    <3>3. QED
      BY <3>1, <3>2
  <2>9. QED
    BY <2>8 DEF RegistryLive
<1>4. ASSUME NEW w \in Workers, Exit(w)
      PROVE  RegistryLive'
  <2>1. worker[w].job \in Jobs
    BY <1>4 DEF Exit, TypeInv, ThreadOK
  <2>2. threads' = [threads EXCEPT ![worker[w].job] = None]
        /\ \A v \in Workers \ {w} : worker'[v] = worker[v]
    BY <1>1, <1>4 DEF Exit
  <2>3. QED
    BY <1>1, <2>1, <2>2 DEF RegistryLive
<1>5. ASSUME NEW w \in Workers,
             StartThread(w) \/ Checkpoint(w) \/ CheckCommit(w) \/ Session(w) \/ Raise(w)
      PROVE  RegistryLive'
  BY <1>5, ThreadStays, StaysLive
<1>6. CASE UNCHANGED <<worker, threads>>
  BY <1>6 DEF RegistryLive
<1>7. CASE ResumeDecide
  <2>1. call.job \in Jobs
    BY <1>7 DEF ResumeDecide, TypeInv, CallOK
  <2>2. ASSUME NEW w \in Workers, worker[w].pc = "dead",
               worker' = [worker EXCEPT ![w] = Thread(call.job, "registered")],
               threads' = [threads EXCEPT ![call.job] = w]
        PROVE  RegistryLive'
    <3>1. Thread(call.job, "registered").job = call.job
          /\ Thread(call.job, "registered").pc = "registered"
      BY DEF Thread, Dead
    <3>2. worker'[w] = Thread(call.job, "registered")
          /\ \A v \in Workers \ {w} : worker'[v] = worker[v]
      BY <1>1, <2>2
    <3>3. QED
      BY <1>1, <2>1, <2>2, <3>1, <3>2, JobsAssumption DEF RegistryLive
  <2>3. QED
    BY <1>6, <1>7, <2>2 DEF ResumeDecide
<1>8. CASE Restart
  BY <1>8 DEF Restart, RegistryLive
<1>9. CASE (\E j \in Jobs : Request(j)) \/ ShutdownBegin \/ UNCHANGED vars
  BY <1>6, <1>9 DEF Request, CancelRead, PauseRead, ResumeRead, Begin, ShutdownBegin, vars
<1>10. CASE CallStep
  BY <1>6, <1>7, <1>10 DEF CallStep, CancelDecide, CancelCommit, PauseCommit, ResumeCommit, Finish,
     ShutdownCommit, ShutdownEnd, ShutdownRead
<1>11. QED
  BY <1>2, <1>3, <1>4, <1>5, <1>8, <1>9, <1>10 DEF Next

\* The registry names only threads that are not over, each under its own job:
\* what a cancellation, a resume or a shutdown finds there is real.
THEOREM RegistryIsLive == Spec => []RegistryLive
<1>1. Init => RegistryLive
  BY DEF Init, RegistryLive
<1>2. QED
  BY <1>1, TypeInit, TypeNext, RegistryNext, PTL DEF Spec

-----------------------------------------------------------------------------
(* The condition variable. Only requests write the pause and cancel columns, *)
(* under _control; a checkpoint that decides to sleep holds _control until   *)
(* it sleeps. So what it saw is still true then, and whoever makes it untrue *)
(* later wakes every sleeper in the same step.                               *)

\* A job whose worker has reason to sleep.
Paused(j) == job[j].pause /\ ~job[j].cancel

\* No session of a thread is going to write the columns of the requests.
Modest(t) == t.update.pause = None /\ t.update.cancel = None

\* A thread in a checkpoint's session is alone with its rows; one about to sleep may.
HoldsRightly(t) ==
    /\ t.hold # "no" => call = NoCall
    /\ t.hold = "park" => Paused(t.job) /\ t.job \notin stopJobs

SleepsRightly(t) ==
    /\ t.pc \in Checkpoints /\ t.hold = "no" /\ Paused(t.job)
    /\ t.job \in stopJobs => call.op \in {"shutdown", "shutdownPause"}

ControlInv ==
    /\ \A w \in Workers : Modest(worker[w]) /\ HoldsRightly(worker[w])
    /\ \A w \in waiting : SleepsRightly(worker[w])

\* A step that leaves those columns of every job that exists.
LeavesColumns ==
    \A j \in Jobs : job[j].state # "none" =>
        job'[j].pause = job[j].pause /\ job'[j].cancel = job[j].cancel

\* What a handler of a thread makes of a row differs in other columns only.
LEMMA ModestDiff ==
    ASSUME NEW old \in Row, NEW new \in Row, new.pause = old.pause, new.cancel = old.cancel
    PROVE  Diff(old, new).pause = None /\ Diff(old, new).cancel = None
BY DEF Diff, Changed

LEMMA ModestHandlers ==
    ASSUME NEW r \in Row
    PROVE  /\ \A pc \in Sessions : Handled(pc, r).pause = r.pause /\ Handled(pc, r).cancel = r.cancel
           /\ Ended(r, "cancelled").pause = r.pause /\ Ended(r, "cancelled").cancel = r.cancel
           /\ ParkedRow(r).pause = r.pause /\ ParkedRow(r).cancel = r.cancel
<1>1. ASSUME NEW pc \in Sessions
      PROVE  Handled(pc, r).pause = r.pause /\ Handled(pc, r).cancel = r.cancel
  BY DEF Sessions, Handled, SetState, CompleteJob, Ended, Row
<1>2. QED
  BY <1>1 DEF Ended, ParkedRow, Row

\* A session's commit leaves the columns of the requests.
LEMMA ModestCommit ==
    ASSUME TypeInv, NEW k \in Jobs, NEW u, u.pause = None, u.cancel = None,
           job' = [job EXCEPT ![k] = Apply(@, u)]
    PROVE  LeavesColumns
<1>1. Apply(job[k], u).pause = job[k].pause /\ Apply(job[k], u).cancel = job[k].cancel
  BY DEF Apply, Written
<1>2. \A j \in Jobs : job'[j] = IF j = k THEN Apply(job[k], u) ELSE job[j]
  BY DEF TypeInv, TypeOK
<1>3. QED
  BY <1>1, <1>2 DEF LeavesColumns

\* Threads have jobs that exist.
LEMMA ThreadsHaveRows ==
    ASSUME TypeInv, FreshInv, NEW w \in Workers, worker[w].pc # "dead"
    PROVE  worker[w].job \in Jobs /\ job[worker[w].job].state # "none"
BY DEF TypeInv, ThreadOK, FreshInv, ThreadFresh

\* A step of a thread that is awake and holds nothing afterwards.
LEMMA AwakeControl ==
    ASSUME TypeInv, FreshInv, ControlInv, LeavesColumns, NEW w \in Workers, w \notin waiting,
           \A v \in Workers \ {w} : worker'[v] = worker[v],
           worker'[w].hold = "no", Modest(worker[w])',
           UNCHANGED <<waiting, call, stopJobs>>
    PROVE  ControlInv'
<1>1. ASSUME NEW v \in Workers \ {w}
      PROVE  (Modest(worker[v]) /\ HoldsRightly(worker[v]))'
  <2>1. worker[v].hold # "no" => worker[v].pc # "dead"
    BY DEF TypeInv, ThreadOK, Checkpoints
  <2>2. QED
    BY <2>1, ThreadsHaveRows DEF ControlInv, Modest, HoldsRightly, Paused, LeavesColumns
<1>2. ASSUME NEW v \in waiting
      PROVE  SleepsRightly(worker[v])'
  <2>1. v \in Workers \ {w} /\ SleepsRightly(worker[v]) /\ worker[v].pc # "dead"
    BY DEF TypeInv, TypeOK, ControlInv, SleepsRightly, Checkpoints
  <2>2. QED
    BY <2>1, ThreadsHaveRows DEF SleepsRightly, Paused, LeavesColumns
<1>3. QED
  BY <1>1, <1>2 DEF ControlInv, HoldsRightly

\* The steps of a thread that leave the condition variable alone.
LEMMA ThreadControl ==
    ASSUME TypeInv, FreshInv, ControlInv, NEW w \in Workers,
           \/ RegisterThread(w) \/ StartThread(w) \/ CheckPass(w) \/ CheckShutdown(w)
           \/ Session(w) \/ Raise(w) \/ Exit(w)
    PROVE  ControlInv'
<1> DEFINE me == worker[w]
           r == job[me.job]
<1>1. me \in WorkerState /\ ThreadOK(me) /\ Modest(me) /\ Modest(Dead) /\ Dead.hold = "no"
      /\ NoUpdate.pause = None /\ NoUpdate.cancel = None
  BY DEF TypeInv, TypeOK, ControlInv, Modest, Dead, NoUpdate
<1>2. me.pc # "dead"
  BY DEF RegisterThread, StartThread, CheckPass, CheckShutdown, AtCheckpoint, Session, ReadSession,
     CountRecord, Discovering, Previewing, SavePhoto, EndJob, Raise, Exit, Checkpoints, Sessions
<1>3. w \notin waiting
  <2>1. ASSUME me.pc \notin Checkpoints
        PROVE  w \notin waiting
    BY <2>1 DEF ControlInv, SleepsRightly
  <2>2. QED
    BY <2>1 DEF RegisterThread, StartThread, CheckPass, CheckShutdown, AtCheckpoint, Session, ReadSession,
       CountRecord, Discovering, Previewing, SavePhoto, EndJob, Raise, Exit, Checkpoints, Sessions
<1>4. ASSUME UNCHANGED job
      PROVE  LeavesColumns
  BY <1>4 DEF LeavesColumns
<1>5. CASE RegisterThread(w) \/ StartThread(w) \/ CheckPass(w) \/ CheckShutdown(w)
           \/ CountRecord(w) \/ Raise(w) \/ Exit(w)
  <2>1. UNCHANGED <<job, waiting, call, stopJobs>>
    BY <1>5 DEF RegisterThread, StartThread, CheckPass, CheckShutdown, CountRecord, Raise, Exit
  <2>2. \A v \in Workers \ {w} : worker'[v] = worker[v]
    BY <1>5 DEF RegisterThread, StartThread, CheckPass, CheckShutdown, CountRecord, Raise, Exit,
       TypeInv, TypeOK
  <2>3. worker'[w].hold = "no"
    BY <1>1, <1>5 DEF RegisterThread, StartThread, CheckPass, CheckShutdown, AtCheckpoint, LockFree,
       CountRecord, Raise, Exit, TypeInv, TypeOK, WorkerState, ThreadOK, Checkpoints
  <2>4. worker'[w].update \in {me.update, NoUpdate}
    BY <1>1, <1>5 DEF RegisterThread, StartThread, CheckPass, CheckShutdown, CountRecord, Raise,
       Exit, TypeInv, TypeOK, WorkerState, Dead
  <2>5. Modest(worker[w])'
    BY <1>1, <2>4 DEF Modest
  <2>6. QED
    BY <1>3, <1>4, <2>1, <2>2, <2>3, <2>5, AwakeControl
<1>6. CASE ReadSession(w)
  <2> DEFINE u == Diff(r, Handled(me.pc, r))
             t == [me EXCEPT !.open = TRUE, !.update = u]
  <2>1. me.pc \in Sessions /\ me.job \in Jobs /\ me.hold = "no" /\ r \in Row
    BY <1>1, <1>6 DEF ReadSession, Sessions, Checkpoints, ThreadOK, WorkerState, TypeInv, TypeOK
  <2>2. u.pause = None /\ u.cancel = None
    <3>1. Handled(me.pc, r) \in Row /\ Handled(me.pc, r).pause = r.pause
          /\ Handled(me.pc, r).cancel = r.cancel
      BY <2>1, HandlersType, ModestHandlers
    <3>2. QED
      BY <2>1, <3>1, ModestDiff
  <2>3. worker'[w] = t /\ (\A v \in Workers \ {w} : worker'[v] = worker[v])
        /\ UNCHANGED <<job, waiting, call, stopJobs>>
    BY <1>6 DEF ReadSession, TypeInv, TypeOK
  <2> HIDE DEF u
  <2>4. t.hold = "no" /\ t.update = u
    BY <1>1, <2>1 DEF WorkerState
  <2>5. Modest(worker[w])' /\ worker'[w].hold = "no"
    BY <2>2, <2>3, <2>4 DEF Modest
  <2>6. QED
    BY <1>3, <1>4, <2>3, <2>5, AwakeControl
<1> DEFINE Moved == [job : {me.job}, pc : Pc, found : {me.found}, done : {me.done, me.done + 1},
                     open : {me.open}, hold : {me.hold}, update : {me.update}]
<1>7. CASE Discovering(w) \/ Previewing(w) \/ SavePhoto(w) \/ EndJob(w)
  <2>1. PICK next \in Moved : Commits(w, next)
    BY <1>1, <1>7 DEF Discovering, Previewing, SavePhoto, EndJob, WorkerState, ImportPc, ScanPc,
       Pc, Checkpoints
  <2>2. me.hold = "no" /\ me.job \in Jobs
    BY <1>1, <1>2, <1>7 DEF Discovering, Previewing, SavePhoto, EndJob, ThreadOK, WorkerState,
       Checkpoints
  <2> DEFINE t == [next EXCEPT !.open = FALSE, !.update = NoUpdate]
  <2>3. t.hold = "no" /\ t.update = NoUpdate
    BY <2>2
  <2>4. /\ worker' = [worker EXCEPT ![w] = t] /\ UNCHANGED <<waiting, call, stopJobs>>
        /\ job' = [job EXCEPT ![me.job] = Apply(@, me.update)]
    BY <2>1 DEF Commits
  <2> HIDE DEF t
  <2>5. worker'[w] = t /\ \A v \in Workers \ {w} : worker'[v] = worker[v]
    BY <2>4 DEF TypeInv, TypeOK
  <2>6. LeavesColumns
    BY <1>1, <2>2, <2>4, ModestCommit DEF Modest
  <2>7. Modest(worker[w])'
    BY <1>1, <2>3, <2>5 DEF Modest
  <2>8. QED
    BY <1>3, <2>3, <2>4, <2>5, <2>6, <2>7, AwakeControl
<1>8. QED
  BY <1>5, <1>6, <1>7 DEF Session

\* A checkpoint that takes _control, its commit, and one that goes to sleep.
LEMMA CheckControl ==
    ASSUME TypeInv, FreshInv, ControlInv, NEW w \in Workers,
           CheckRead(w) \/ CheckCommit(w) \/ CheckWait(w)
    PROVE  ControlInv'
<1> DEFINE me == worker[w]
           r == job[me.job]
<1>1. me \in WorkerState /\ ThreadOK(me) /\ Modest(me) /\ HoldsRightly(me)
      /\ NoUpdate.pause = None /\ NoUpdate.cancel = None
  BY DEF TypeInv, TypeOK, ControlInv, NoUpdate
<1>2. me.pc \in Checkpoints /\ me.pc # "dead" /\ me.job \in Jobs /\ r \in Row
  BY <1>1 DEF CheckRead, CheckCommit, CheckWait, AtCheckpoint, ThreadOK, Checkpoints, TypeInv, TypeOK
<1>3. CASE CheckRead(w)
  <2>1. Modest([me EXCEPT !.update = Diff(r, Ended(r, "cancelled"))])
        /\ Modest([me EXCEPT !.update = Diff(r, ParkedRow(r))])
    <3>1. Ended(r, "cancelled") \in Row /\ ParkedRow(r) \in Row
      BY <1>2, HandlersType DEF State, Terminal
    <3>2. QED
      BY <1>1, <1>2, <3>1, ModestHandlers, ModestDiff DEF Modest, WorkerState
  <2>2. PICK h \in {"halt", "park"}, u \in {Diff(r, Ended(r, "cancelled")), Diff(r, ParkedRow(r))} :
           /\ worker' = [worker EXCEPT ![w].hold = h, ![w].update = u]
           /\ h = "park" => Paused(me.job) /\ me.job \notin stopJobs
    BY <1>3 DEF CheckRead, Paused
  <2>3. worker'[w] = [me EXCEPT !.hold = h, !.update = u]
        /\ \A v \in Workers \ {w} : worker'[v] = worker[v]
    BY <2>2 DEF TypeInv, TypeOK
  <2>4. worker'[w].job = me.job /\ worker'[w].hold = h /\ worker'[w].update = u
    BY <1>1, <2>3 DEF WorkerState
  <2>5. call = NoCall /\ UNCHANGED <<job, waiting, call, stopJobs>> /\ w \notin waiting
    BY <1>3 DEF CheckRead, AtCheckpoint, LockFree
  <2>6. u.pause = None /\ u.cancel = None
    <3>1. \A x : [me EXCEPT !.update = x].update = x
      BY <1>1 DEF WorkerState
    <3>2. QED
      BY <2>1, <2>2, <3>1 DEF Modest
  <2>7. (Modest(worker[w]) /\ HoldsRightly(worker[w]))'
    BY <2>2, <2>4, <2>5, <2>6 DEF Modest, HoldsRightly, Paused
  <2>8. QED
    BY <2>3, <2>5, <2>7 DEF ControlInv, Modest, HoldsRightly, SleepsRightly, Paused, TypeInv, TypeOK
<1>4. CASE CheckCommit(w)
  <2> DEFINE t == [me EXCEPT !.hold = "no", !.update = NoUpdate,
                             !.pc = IF me.hold = "halt" THEN StopPc(@) ELSE @]
  <2>1. t.job = me.job /\ t.hold = "no" /\ t.update = NoUpdate
        /\ (me.hold = "park" => t.pc = me.pc)
    BY <1>1 DEF WorkerState
  <2>2. worker' = [worker EXCEPT ![w] = t] /\ UNCHANGED <<call, stopJobs>> /\ me.hold # "no"
        /\ job' = [job EXCEPT ![me.job] = Apply(@, me.update)]
        /\ waiting' = IF me.hold = "park" THEN waiting \cup {w} ELSE waiting
    BY <1>4 DEF CheckCommit
  <2> HIDE DEF t
  <2>3. worker'[w] = t /\ \A v \in Workers \ {w} : worker'[v] = worker[v]
    BY <2>2 DEF TypeInv, TypeOK
  <2>4. LeavesColumns
    BY <1>1, <1>2, <2>2, ModestCommit DEF Modest
  <2>5. w \notin waiting
    BY <2>2 DEF ControlInv, SleepsRightly
  <2>6. CASE me.hold # "park"
    <3>1. Modest(worker[w])' /\ UNCHANGED waiting
      BY <1>1, <2>1, <2>2, <2>3, <2>6 DEF Modest
    <3>2. QED
      BY <2>1, <2>2, <2>3, <2>4, <2>5, <3>1, AwakeControl
  <2>7. CASE me.hold = "park"
    <3>1. Paused(me.job)' /\ me.job \notin stopJobs
      BY <1>1, <1>2, <2>1, <2>3, <2>4, <2>7, ThreadsHaveRows DEF HoldsRightly, Paused, LeavesColumns
    <3>2. SleepsRightly(worker[w])'
      BY <1>2, <2>1, <2>2, <2>3, <2>7, <3>1 DEF SleepsRightly, Paused
    <3>3. ASSUME NEW v \in waiting
          PROVE  SleepsRightly(worker[v])'
      <4>1. v \in Workers \ {w} /\ SleepsRightly(worker[v]) /\ worker[v].pc # "dead"
        BY <2>5 DEF TypeInv, TypeOK, ControlInv, SleepsRightly, Checkpoints
      <4>2. QED
        BY <2>2, <2>3, <2>4, <4>1, ThreadsHaveRows DEF SleepsRightly, Paused, LeavesColumns
    <3>4. ASSUME NEW v \in Workers
          PROVE  (Modest(worker[v]) /\ HoldsRightly(worker[v]))'
      <4>1. CASE v = w
        BY <1>1, <2>1, <2>3, <4>1 DEF Modest, HoldsRightly
      <4>2. CASE v # w
        <5>1. worker[v].hold # "no" => worker[v].pc # "dead"
          BY DEF TypeInv, ThreadOK, Checkpoints
        <5>2. QED
          BY <2>2, <2>3, <2>4, <4>2, <5>1, ThreadsHaveRows
             DEF ControlInv, Modest, HoldsRightly, Paused, LeavesColumns
      <4>3. QED
        BY <4>1, <4>2
    <3>5. QED
      BY <2>2, <2>7, <3>2, <3>3, <3>4 DEF ControlInv
  <2>8. QED
    BY <2>6, <2>7
<1>5. CASE CheckWait(w)
  <2>1. /\ UNCHANGED <<job, worker, call, stopJobs>> /\ waiting' = waiting \cup {w}
        /\ me.hold = "no" /\ Paused(me.job) /\ me.job \notin stopJobs
    BY <1>5 DEF CheckWait, AtCheckpoint, LockFree, Paused
  <2>2. QED
    BY <1>2, <2>1 DEF ControlInv, Modest, HoldsRightly, SleepsRightly, Paused
<1>6. QED
  BY <1>3, <1>4, <1>5

\* A step that leaves the threads and the columns of the requests alone.
LEMMA RequestControl ==
    ASSUME TypeInv, FreshInv, ControlInv, UNCHANGED <<job, worker>>,
           \A w \in Workers : worker[w].hold # "no" => UNCHANGED <<call, stopJobs>>,
           waiting' \subseteq waiting,
           \A w \in waiting' : worker[w].job \in stopJobs' => call'.op \in {"shutdown", "shutdownPause"}
    PROVE  ControlInv'
BY DEF ControlInv, Modest, HoldsRightly, SleepsRightly, Paused

\* A request's commit wakes everybody, and no checkpoint holds _control.
LEMMA FinishControl ==
    ASSUME TypeInv, FreshInv, ControlInv, NEW new, Finish(new), call.op # "none"
    PROVE  ControlInv'
<1>1. call # NoCall
  BY DEF NoCall
<1>2. UNCHANGED worker /\ waiting' = {}
  BY DEF Finish
<1>3. QED
  BY <1>1, <1>2 DEF ControlInv, Modest, HoldsRightly

\* The requests, the shutdown and the restart.
LEMMA CallControl ==
    ASSUME TypeInv, FreshInv, ControlInv,
           (\E j \in Jobs : Request(j)) \/ CallStep \/ ShutdownBegin \/ Restart
    PROVE  ControlInv'
<1>1. \A w \in waiting : w \in Workers /\ SleepsRightly(worker[w])
  BY DEF TypeInv, TypeOK, ControlInv
<1>2. ASSUME call # NoCall
      PROVE  \A w \in Workers : worker[w].hold = "no"
  BY <1>2 DEF ControlInv, HoldsRightly
<1>3. \A op : [NoCall EXCEPT !.op = op].op = op
  BY DEF NoCall
<1>4. NoCall.op = "none"
  BY DEF NoCall
<1>5. ASSUME NEW j \in Jobs, Request(j)
      PROVE  ControlInv'
  <2>1. PICK op : Begin(op, j)
    BY <1>5 DEF Request, CancelRead, PauseRead, ResumeRead
  <2>2. UNCHANGED <<job, worker, waiting, stopJobs>> /\ LockFree
    BY <2>1 DEF Begin
  <2>3. \A w \in waiting : worker[w].job \notin stopJobs
    BY <1>1, <1>4, <2>2 DEF SleepsRightly, LockFree
  <2>4. QED
    BY <2>2, <2>3, RequestControl DEF LockFree
<1>6. CASE CancelDecide
  <2>1. call # NoCall /\ call.op = "cancel" /\ UNCHANGED <<job, worker, waiting, stopJobs>>
    BY <1>4, <1>6 DEF CancelDecide
  <2>2. \A w \in waiting : worker[w].job \notin stopJobs
    BY <1>1, <2>1 DEF SleepsRightly
  <2>3. QED
    BY <1>2, <2>1, <2>2, RequestControl
<1>7. CASE ResumeDecide
  <2>1. call # NoCall /\ call.op = "resume" /\ UNCHANGED <<job, waiting, stopJobs>>
    BY <1>4, <1>7 DEF ResumeDecide
  <2>2. \A w \in waiting : worker[w].job \notin stopJobs
    BY <1>1, <2>1 DEF SleepsRightly
  <2>3. CASE UNCHANGED worker
    BY <1>2, <2>1, <2>2, <2>3, RequestControl
  <2>4. ASSUME NEW w \in Workers, worker[w].pc = "dead",
               worker' = [worker EXCEPT ![w] = Thread(call.job, "registered")]
        PROVE  ControlInv'
    <3>1. Thread(call.job, "registered").hold = "no"
          /\ Thread(call.job, "registered").update = NoUpdate
          /\ NoUpdate.pause = None /\ NoUpdate.cancel = None
      BY DEF Thread, Dead, NoUpdate
    <3>2. worker'[w] = Thread(call.job, "registered")
          /\ \A v \in Workers \ {w} : worker'[v] = worker[v]
      BY <2>4 DEF TypeInv, TypeOK
    <3>3. LeavesColumns
      BY <2>1 DEF LeavesColumns
    <3>4. ASSUME NEW v \in Workers
          PROVE  (Modest(worker[v]) /\ HoldsRightly(worker[v]))'
      BY <1>2, <2>1, <3>1, <3>2 DEF ControlInv, Modest, HoldsRightly
    <3>5. ASSUME NEW v \in waiting
          PROVE  SleepsRightly(worker[v])'
      <4>1. worker'[v] = worker[v] /\ worker[v].job \notin stopJobs /\ SleepsRightly(worker[v])
        BY <1>1, <2>2, <2>4, <3>2 DEF SleepsRightly, Checkpoints
      <4>2. QED
        BY <2>1, <4>1 DEF SleepsRightly, Paused
    <3>6. QED
      BY <2>1, <3>4, <3>5 DEF ControlInv
  <2>5. QED
    BY <1>7, <2>3, <2>4 DEF ResumeDecide
<1>8. CASE CancelCommit \/ PauseCommit \/ ResumeCommit
  BY <1>8, FinishControl DEF CancelCommit, PauseCommit, ResumeCommit
<1>9. CASE ShutdownCommit
  <2> DEFINE u == Diff(call.snap, PausedRow(call.snap))
             k == call.job
  <2>1. call.op = "shutdownPause" /\ call # NoCall /\ k \in Jobs /\ call.snap \in Row
    BY <1>4, <1>9 DEF ShutdownCommit, TypeInv, TypeOK, CallOK, CallState
  <2>2. u.pause \in {TRUE, None} /\ u.cancel = None
    BY <2>1 DEF Diff, Changed, PausedRow, Row
  <2>3. /\ job' = [job EXCEPT ![k] = Apply(@, u)] /\ stopJobs' = stopJobs \cup {k}
        /\ call' = [NoCall EXCEPT !.op = "shutdown"] /\ UNCHANGED <<worker, waiting>>
    BY <1>9 DEF ShutdownCommit
  <2> HIDE DEF u
  <2>4. \A j \in Jobs : job'[j] = IF j = k THEN Apply(job[k], u) ELSE job[j]
    BY <2>1, <2>3 DEF TypeInv, TypeOK
  <2>5. Apply(job[k], u).pause = Written(job[k].pause, u.pause)
        /\ Apply(job[k], u).cancel = job[k].cancel
    BY <2>2 DEF Apply, Written
  <2>6. ASSUME NEW j \in Jobs, Paused(j)
        PROVE  Paused(j)'
    <3>1. CASE j = k
      <4>1. Written(job[k].pause, u.pause) = TRUE
        BY <2>2, <2>6, <3>1 DEF Written, Paused, TypeInv, TypeOK, Row
      <4>2. QED
        BY <2>4, <2>5, <2>6, <3>1, <4>1 DEF Paused
    <3>2. CASE j # k
      BY <2>4, <2>6, <3>2 DEF Paused
    <3>3. QED
      BY <3>1, <3>2
  <2>7. ASSUME NEW v \in waiting
        PROVE  SleepsRightly(worker[v])'
    <3>1. SleepsRightly(worker[v]) /\ worker[v].job \in Jobs
      BY <1>1, ThreadsHaveRows DEF SleepsRightly, Checkpoints
    <3>2. job'[worker[v].job].pause /\ ~job'[worker[v].job].cancel
      BY <2>6, <3>1 DEF SleepsRightly, Paused
    <3>3. QED
      BY <1>3, <2>3, <3>1, <3>2 DEF SleepsRightly, Paused
  <2>8. QED
    BY <1>2, <2>1, <2>3, <2>7 DEF ControlInv, Modest, HoldsRightly
<1>10. CASE ShutdownEnd
  <2>1. call # NoCall /\ UNCHANGED <<job, worker, stopJobs>> /\ waiting' = {}
    BY <1>4, <1>10 DEF ShutdownEnd
  <2>2. QED
    BY <1>2, <2>1, RequestControl
<1>11. ASSUME NEW j \in Jobs, ShutdownRead(j)
       PROVE  ControlInv'
  <2>1. call # NoCall /\ call'.op \in {"shutdown", "shutdownPause"} /\ UNCHANGED <<job, worker, waiting>>
    <3>1. [call EXCEPT !.op = "shutdownPause", !.job = j, !.snap = job[j]].op = "shutdownPause"
      BY DEF TypeInv, TypeOK, CallState
    <3>2. QED
      BY <1>4, <1>11, <3>1 DEF ShutdownRead
  <2>2. QED
    BY <1>2, <2>1, RequestControl
<1>12. CASE ShutdownBegin
  <2>1. LockFree /\ call'.op = "shutdown" /\ UNCHANGED <<job, worker, waiting, stopJobs>>
    BY <1>3, <1>12 DEF ShutdownBegin
  <2>2. QED
    BY <2>1, RequestControl DEF LockFree
<1>13. CASE Restart
  <2>1. waiting' = {} /\ \A w \in Workers : worker'[w] = Dead
    BY <1>13 DEF Restart
  <2>2. QED
    BY <2>1 DEF ControlInv, Modest, HoldsRightly, Dead, NoUpdate
<1>14. QED
  BY <1>5, <1>6, <1>7, <1>8, <1>9, <1>10, <1>11, <1>12, <1>13 DEF CallStep

\* The creation of a job: no thread sleeps for one that does not exist.
LEMMA CreateControl ==
    ASSUME TypeInv, FreshInv, ControlInv, NEW w \in Workers, NEW j \in Jobs, StartImport(j, w)
    PROVE  ControlInv'
<1>1. LeavesColumns /\ worker[w].pc = "dead"
  BY DEF StartImport, LeavesColumns, TypeInv, TypeOK
<1>2. w \notin waiting
  BY <1>1 DEF ControlInv, SleepsRightly, Checkpoints
<1>3. worker'[w] = Thread(j, "new") /\ (\A v \in Workers \ {w} : worker'[v] = worker[v])
      /\ UNCHANGED <<waiting, call, stopJobs>>
  BY DEF StartImport, TypeInv, TypeOK
<1>4. Thread(j, "new").hold = "no" /\ Modest(Thread(j, "new"))
  BY DEF Modest, Thread, Dead, NoUpdate
<1>5. Modest(worker[w])' /\ worker'[w].hold = "no"
  BY <1>3, <1>4 DEF Modest
<1>6. QED
  BY <1>1, <1>2, <1>3, <1>5, AwakeControl

LEMMA ControlNext == TypeInv /\ FreshInv /\ ControlInv /\ [Next]_vars => ControlInv'
<1>1. ControlInv /\ UNCHANGED vars => ControlInv'
  BY DEF ControlInv, Modest, HoldsRightly, SleepsRightly, Paused, vars
<1>2. QED
  BY <1>1, CreateControl, ThreadControl, CheckControl, CallControl DEF Next, Checkpoint

\* No wakeup is lost: whoever sleeps at a checkpoint has a reason to, or a shutdown
\* is about to wake it. Whatever ends a pause, a cancellation, a resumption or a
\* shutdown, notifies in the step that publishes it.
THEOREM WakeupsAreKept == Spec => []NoLostWakeup
<1> DEFINE Inv == TypeInv /\ FreshInv /\ ControlInv
<1>1. Init => Inv
  <2>1. Modest(Dead) /\ Dead.hold = "no"
    BY DEF Modest, Dead, NoUpdate
  <2>2. QED
    BY <2>1, TypeInit, FreshInit DEF Init, ControlInv, HoldsRightly
<1>2. Inv /\ [Next]_vars => Inv'
  BY TypeNext, FreshNext, ControlNext
<1>3. Inv => NoLostWakeup
  <2> SUFFICES ASSUME Inv, NEW w \in waiting
               PROVE  LET j == worker[w].job
                      IN  j # None /\ job[j].pause /\ ~job[j].cancel
                          /\ (j \in stopJobs => call.op \in {"shutdown", "shutdownPause"})
    BY DEF NoLostWakeup
  <2>1. SleepsRightly(worker[w]) /\ w \in Workers
    BY DEF ControlInv, TypeInv, TypeOK
  <2>2. worker[w].job \in Jobs
    BY <2>1, ThreadsHaveRows DEF SleepsRightly, Checkpoints
  <2>3. QED
    BY <2>1, <2>2, JobsAssumption DEF SleepsRightly, Paused
<1>4. QED
  BY <1>1, <1>2, <1>3, PTL DEF Spec

=============================================================================
