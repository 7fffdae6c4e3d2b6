-------------------------- MODULE AnalysisJobsProofs --------------------------
(***************************************************************************)
(* Theorems about AnalysisJobs, for every number of photos, threads and    *)
(* permits and every set of environment events.                            *)
(***************************************************************************)
EXTENDS AnalysisJobs, FiniteSetTheorems, TLAPS

\* TypeOK without the bound on active, which needs PermitInv.
TypeInv ==
    /\ is_running \in BOOLEAN /\ pauseReq \in BOOLEAN /\ cancelReq \in BOOLEAN
    /\ status \in {"idle", "running", "paused"} \cup Ended
    /\ scope \in {"all", "remaining"}
    /\ workers \in 1..MaxWorkers
    /\ active \in Int
    /\ asleep \subseteq Photos \cup {Main}
    /\ pc \in MainPc
    /\ task \in [Photos -> Task]
    /\ analyzed \subseteq Photos
    /\ importing \in BOOLEAN

\* Where the thread is while nothing is in the pool.
JoinInv ==
    /\ ~is_running <=> pc = "none"
    /\ pc \in {"none", "poll", "gate", "load", "final", "completed", "failed", "exit"} => PoolIdle

\* A job at work is shown as running unless a request says otherwise.
ShownInv ==
    /\ pc \in {"cancelled", "leave"} => cancelReq
    /\ pc \notin {"none", "exit"} => status = "running" \/ pauseReq \/ cancelReq

\* Permits are counted, and the pool has MaxWorkers threads.
PermitInv ==
    /\ PermitsAccounted
    /\ Cardinality(In(InPool)) <= MaxWorkers

\* A photo without a task needs none; no photo stays pending once the flight is
\* over, because the window is refilled as long as there is one.
CoverInv ==
    /\ pc \in {"fill", "collect", "advance", "final", "completed"} =>
           \A p \in Photos : task[p] = "none" => p \in analyzed
    /\ pc = "fill" => \A p \in Photos :
           /\ task[p] \notin {"collected", "skipped"}
           /\ p \in Selected => task[p] # "none"
    /\ pc = "collect" /\ In({"pending"}) # {} => InFlight # {}
    /\ pc \in {"final", "completed"} =>
           \A p \in Photos : task[p] \in {"none", "collected", "skipped"}
    /\ status = "completed" => pc \in {"none", "exit"} /\ CompletedCovers

IInv == TypeInv /\ JoinInv /\ ShownInv /\ NoLostWakeup /\ PermitInv /\ CoverInv

-----------------------------------------------------------------------------
(* Types.                                                                  *)

LEMMA ClampType ==
    ASSUME NEW n \in Int
    PROVE  Clamped(n) \in 1..MaxWorkers
BY WorkersAssumption DEF Clamped

\* The memory of a process that has just started.
LEMMA FreshTypes ==
    /\ 1 \in 1..MaxWorkers
    /\ 0 \in Int
    /\ [p \in Photos |-> "none"] \in [Photos -> Task]
    /\ "none" \in MainPc
BY WorkersAssumption DEF Task, MainPc

LEMMA TypeInit == Init => TypeInv
BY FreshTypes DEF Init, TypeInv

\* Submitting a photo gives it a task.
LEMMA SubmitType ==
    ASSUME TypeInv, SubmitNext
    PROVE  task' \in [Photos -> Task]
BY DEF TypeInv, SubmitNext, Task

LEMMA TypeStep == TypeInv /\ [Next]_vars => TypeInv'
<1> SUFFICES ASSUME TypeInv, [Next]_vars PROVE TypeInv'
  OBVIOUS
<1> USE DEF TypeInv, job, requests
<1>1. ASSUME NEW s \in {"all", "remaining"}, Start(s) PROVE TypeInv'
  BY <1>1, WorkersAssumption DEF Start, MainPc
<1>2. CASE Pause \/ Resume \/ Cancel
  BY <1>2 DEF Pause, Resume, Cancel
<1>3. ASSUME NEW n \in 0..(MaxWorkers + 1), SetWorkers(n) PROVE TypeInv'
  BY <1>3, ClampType DEF SetWorkers
<1>4. CASE Poll \/ Gate \/ AllCollected \/ Final \/ Raise \/ Join \/ Exit
  BY <1>4 DEF Poll, Gate, AllCollected, Final, Raise, Join, Exit, MainPc, Ended
<1>5. CASE Load
  BY <1>5 DEF Load, MainPc, Ended, Task
<1>6. CASE Fill \/ Advance
  BY <1>6, SubmitType DEF Fill, Advance, MainPc, Ended
<1>7. CASE Collect
  BY <1>7 DEF Collect, MainPc, Task, In
<1>8. ASSUME NEW s \in Ended, Finish(s) PROVE TypeInv'
  BY <1>8 DEF Finish, AfterFinish, MainPc, Ended
<1>9. ASSUME NEW p \in Photos, PoolStep(p) PROVE TypeInv'
  BY <1>9 DEF PoolStep, Take, Control, Slot, Work, Sleep, Move, Release, Task, InPool
<1>10. CASE ImportToggles
  BY <1>10 DEF ImportToggles
<1>11. CASE Restart
  BY <1>11, FreshTypes DEF Restart
<1>12. CASE UNCHANGED vars
  BY <1>12 DEF vars
<1>. QED
  BY <1>1, <1>2, <1>3, <1>4, <1>5, <1>6, <1>7, <1>8, <1>9, <1>10, <1>11, <1>12 DEF Next, Thread

-----------------------------------------------------------------------------
(* The pool is idle whenever the thread is outside of its block.           *)

LEMMA JoinInit == Init => JoinInv
BY DEF Init, JoinInv, PoolIdle, In, InPool

\* A photo that a pool step concerns is in the pool or queued for it.
LEMMA PoolStepInPool ==
    ASSUME NEW p \in Photos, PoolStep(p)
    PROVE  p \in In({"queued"} \cup InPool)
BY DEF PoolStep, Take, Oldest, Control, Slot, Work, In, InPool

LEMMA JoinStep == TypeInv /\ JoinInv /\ [Next]_vars => JoinInv'
<1> SUFFICES ASSUME TypeInv, JoinInv, [Next]_vars PROVE JoinInv'
  OBVIOUS
<1> USE DEF JoinInv, job, requests
<1>1. ASSUME NEW s \in {"all", "remaining"}, Start(s) PROVE JoinInv'
  BY <1>1 DEF Start, PoolIdle, In
<1>2. CASE Pause \/ Resume \/ Cancel \/ (\E n \in 0..(MaxWorkers + 1) : SetWorkers(n)) \/ ImportToggles
  BY <1>2 DEF Pause, Resume, Cancel, SetWorkers, ImportToggles, PoolIdle, In
<1>3. CASE Poll \/ Gate \/ AllCollected \/ Final \/ Raise \/ Join \/ Exit
  BY <1>3 DEF Poll, Gate, AllCollected, Final, Raise, Join, Exit, PoolIdle, In, InFlight
<1>4. CASE Load
  BY <1>4 DEF Load, PoolIdle, In, InPool
<1>5. CASE Fill \/ Advance \/ Collect
  BY <1>5 DEF Fill, Advance, Collect
<1>6. ASSUME NEW s \in Ended, Finish(s) PROVE JoinInv'
  BY <1>6 DEF Finish, AfterFinish, Ended, PoolIdle, In
<1>7. ASSUME NEW p \in Photos, PoolStep(p) PROVE JoinInv'
  <2>1. ~PoolIdle
    BY <1>7, PoolStepInPool DEF PoolIdle
  <2>2. UNCHANGED <<pc, is_running>>
    BY <1>7 DEF PoolStep, Take, Control, Slot, Work
  <2>. QED
    BY <2>1, <2>2
<1>8. CASE Restart
  BY <1>8 DEF Restart, PoolIdle, In, InPool
<1>9. CASE UNCHANGED vars
  BY <1>9 DEF vars, PoolIdle, In
<1>. QED
  BY <1>1, <1>2, <1>3, <1>4, <1>5, <1>6, <1>7, <1>8, <1>9 DEF Next, Thread

-----------------------------------------------------------------------------
(* What the status shows.                                                  *)

LEMMA ShownInit == Init => ShownInv
BY DEF Init, ShownInv

LEMMA ShownStep == TypeInv /\ JoinInv /\ ShownInv /\ [Next]_vars => ShownInv'
<1> SUFFICES ASSUME TypeInv, JoinInv, ShownInv, [Next]_vars PROVE ShownInv'
  OBVIOUS
<1> USE DEF ShownInv, job, requests
<1>1. ASSUME NEW s \in {"all", "remaining"}, Start(s) PROVE ShownInv'
  BY <1>1 DEF Start
<1>2. CASE Pause \/ Resume \/ Cancel \/ (\E n \in 0..(MaxWorkers + 1) : SetWorkers(n)) \/ ImportToggles
  BY <1>2 DEF Pause, Resume, Cancel, SetWorkers, ImportToggles
<1>3. CASE Poll \/ Gate \/ Load \/ Fill \/ Collect \/ Advance \/ AllCollected \/ Final
  BY <1>3 DEF Poll, Gate, Load, Fill, Collect, Advance, AllCollected, Final
<1>4. CASE Raise \/ Join \/ Exit
  BY <1>4 DEF Raise, Join, Exit
<1>5. ASSUME NEW s \in Ended, Finish(s) PROVE ShownInv'
  BY <1>5 DEF Finish, AfterFinish, Ended
<1>6. ASSUME NEW p \in Photos, PoolStep(p) PROVE ShownInv'
  BY <1>6 DEF PoolStep, Take, Control, Slot, Work
<1>7. CASE Restart
  BY <1>7 DEF Restart
<1>8. CASE UNCHANGED vars
  BY <1>8 DEF vars
<1>. QED
  BY <1>1, <1>2, <1>3, <1>4, <1>5, <1>6, <1>7, <1>8 DEF Next, Thread

-----------------------------------------------------------------------------
(* Nobody sleeps without a reason.                                         *)

LEMMA WakeInit == Init => NoLostWakeup
BY DEF Init, NoLostWakeup

\* Whoever sleeps goes on sleeping for the same reason, when neither the reason
\* nor where the sleepers are changes.
LEMMA StillAsleep ==
    ASSUME NoLostWakeup, asleep' \subseteq asleep, Held => Held', NoPermit => NoPermit',
           Main \in asleep => pc' = pc,
           \A p \in asleep \cap In({"control", "slot"}) : task'[p] = task[p]
    PROVE  NoLostWakeup'
BY DEF NoLostWakeup, In

LEMMA WakeStep == TypeInv /\ JoinInv /\ NoLostWakeup /\ [Next]_vars => NoLostWakeup'
<1> SUFFICES ASSUME TypeInv, JoinInv, NoLostWakeup, [Next]_vars PROVE NoLostWakeup'
  OBVIOUS
<1> USE DEF job, requests
<1>1. ASSUME NEW s \in {"all", "remaining"}, Start(s) PROVE NoLostWakeup'
  <2>1. asleep = {}
    <3> SUFFICES ASSUME NEW x \in asleep PROVE FALSE
      OBVIOUS
    <3>1. pc = "none" /\ PoolIdle
      BY <1>1 DEF Start, JoinInv
    <3>. QED
      BY <3>1 DEF NoLostWakeup, PoolIdle, In, InPool
  <2>. QED
    BY <1>1, <2>1 DEF Start, NoLostWakeup
<1>2. CASE Pause \/ Resume \/ Cancel \/ (\E n \in 0..(MaxWorkers + 1) : SetWorkers(n)) \/ Restart
  BY <1>2 DEF Pause, Resume, Cancel, SetWorkers, Restart, NoLostWakeup
<1>3. CASE Gate
  <2>1. CASE Held /\ asleep' = asleep \cup {Main} /\ UNCHANGED pc
    BY <1>3, <2>1 DEF Gate, NoLostWakeup, Held, NoPermit, In
  <2>2. CASE ~Held /\ UNCHANGED asleep
    BY <1>3, <2>2, StillAsleep DEF Gate, Held, NoPermit
  <2>. QED
    BY <1>3, <2>1, <2>2 DEF Gate
<1>4. CASE Load
  <2>1. asleep = {}
    BY <1>4 DEF Load, JoinInv, NoLostWakeup, PoolIdle, In, InPool
  <2>. QED
    BY <1>4, <2>1 DEF Load, NoLostWakeup
<1>5. CASE Fill \/ Collect \/ Advance
  <2>1. pc # "gate" /\ UNCHANGED <<asleep, pauseReq, cancelReq, workers, active>>
    BY <1>5 DEF Fill, Collect, Advance
  <2>2. Main \notin asleep
    BY <2>1 DEF NoLostWakeup, In, Main, Photos
  <2>3. \A p \in In({"control", "slot"}) : task'[p] = task[p]
    BY <1>5 DEF Fill, Collect, Advance, SubmitNext, Oldest, In, TypeInv
  <2>. QED
    BY <2>1, <2>2, <2>3, StillAsleep DEF Held, NoPermit
<1>6. CASE Poll \/ AllCollected \/ Final \/ Raise \/ Join \/ Exit \/ (\E s \in Ended : Finish(s))
  <2>1. pc # "gate" /\ UNCHANGED <<asleep, pauseReq, cancelReq, workers, active, task>>
    BY <1>6 DEF Poll, AllCollected, Final, Raise, Join, Exit, Finish, Ended
  <2>2. Main \notin asleep
    BY <2>1 DEF NoLostWakeup, In, Main, Photos
  <2>. QED
    BY <2>1, <2>2, StillAsleep DEF Held, NoPermit
<1>7. ASSUME NEW p \in Photos, PoolStep(p) PROVE NoLostWakeup'
  <2>1. CASE Take(p)
    BY <2>1, StillAsleep DEF Take, Oldest, In, Held, NoPermit, TypeInv
  <2>2. CASE Work(p)
    BY <2>2 DEF Work, Release, NoLostWakeup
  <2>3. CASE Control(p)
    <3>1. CASE Held /\ Sleep(p)
      BY <2>3, <3>1 DEF Control, Sleep, NoLostWakeup, Held, NoPermit, In
    <3>2. CASE ~Held /\ Move(p, IF cancelReq THEN "empty" ELSE "slot")
      BY <2>3, <3>2, StillAsleep DEF Control, Move, Held, NoPermit, TypeInv
    <3>. QED
      BY <2>3, <3>1, <3>2 DEF Control
  <2>4. CASE Slot(p)
    <3>1. CASE NoPermit /\ Sleep(p)
      BY <2>4, <3>1 DEF Slot, Sleep, NoLostWakeup, Held, NoPermit, In
    <3>2. CASE cancelReq /\ Move(p, "empty")
      BY <2>4, <3>2, StillAsleep DEF Slot, Move, Held, NoPermit, TypeInv
    <3>3. CASE ~NoPermit /\ task' = [task EXCEPT ![p] = "work"] /\ active' = active + 1 /\ UNCHANGED asleep
      BY <2>4, <3>3, StillAsleep DEF Slot, Held, NoPermit, TypeInv
    <3>. QED
      BY <2>4, <3>1, <3>2, <3>3 DEF Slot
  <2>. QED
    BY <1>7, <2>1, <2>2, <2>3, <2>4 DEF PoolStep
<1>8. CASE ImportToggles \/ UNCHANGED vars
  BY <1>8, StillAsleep DEF ImportToggles, vars, Held, NoPermit
<1>. QED
  BY <1>1, <1>2, <1>3, <1>4, <1>5, <1>6, <1>7, <1>8 DEF Next, Thread

-----------------------------------------------------------------------------
(* Permits.                                                                *)

\* The photos in some states are finitely many.
LEMMA InFinite ==
    ASSUME NEW states
    PROVE  IsFiniteSet(In(states)) /\ Cardinality(In(states)) \in Nat
<1>1. IsFiniteSet(Photos)
  BY FS_Interval, NAssumption DEF Photos
<1>2. In(states) \in SUBSET Photos
  BY DEF In
<1>3. IsFiniteSet(In(states))
  BY <1>1, <1>2, FS_Subset
<1>. QED
  BY <1>3, FS_CardinalityType

LEMMA NoneInPool ==
    ASSUME In(InPool) = {}, active = 0
    PROVE  PermitInv
<1>1. In({"work"}) = {}
  BY DEF In, InPool
<1>2. Cardinality({}) = 0
  BY FS_EmptySet
<1>. QED
  BY <1>1, <1>2, WorkersAssumption DEF PermitInv, PermitsAccounted

\* A step keeps the count when nobody starts or ends work and nobody joins the
\* pool.
LEMMA SamePermits ==
    ASSUME PermitInv, active' = active, In({"work"})' = In({"work"}),
           In(InPool)' \subseteq In(InPool)
    PROVE  PermitInv'
<1>1. In(InPool)' \in SUBSET In(InPool) /\ IsFiniteSet(In(InPool))
  BY InFinite
<1>2. Cardinality(In(InPool)') <= Cardinality(In(InPool))
  BY <1>1, FS_Subset
<1>3. Cardinality(In(InPool)') \in Nat /\ Cardinality(In(InPool)) \in Nat
  <2>1. IsFiniteSet(In(InPool)')
    BY <1>1, FS_Subset
  <2>. QED
    BY <2>1, <1>1, FS_CardinalityType
<1>. QED
  BY <1>2, <1>3, WorkersAssumption DEF PermitInv, PermitsAccounted

LEMMA PermitInit == Init => PermitInv
BY NoneInPool DEF Init, In, InPool

LEMMA TakePermit ==
    ASSUME TypeInv, PermitInv, NEW p \in Photos, Take(p)
    PROVE  PermitInv'
<1>1. In({"work"})' = In({"work"}) /\ active' = active
  BY DEF Take, Oldest, In, TypeInv
<1>2. In(InPool)' = In(InPool) \cup {p}
  BY DEF Take, Oldest, In, InPool, TypeInv
<1>3. Cardinality(In(InPool) \cup {p}) <= Cardinality(In(InPool)) + 1
  <2>1. Cardinality(In(InPool) \cup {p}) =
            IF p \in In(InPool) THEN Cardinality(In(InPool)) ELSE Cardinality(In(InPool)) + 1
    BY InFinite, FS_AddElement
  <2>. QED
    BY <2>1, InFinite
<1>4. Cardinality(In(InPool)) < MaxWorkers /\ Cardinality(In(InPool)) \in Nat
  BY InFinite DEF Take
<1>5. Cardinality(In(InPool) \cup {p}) \in Nat
  BY InFinite, FS_AddElement, FS_CardinalityType
<1>. QED
  BY <1>1, <1>2, <1>3, <1>4, <1>5, WorkersAssumption DEF PermitInv, PermitsAccounted

LEMMA SlotPermit ==
    ASSUME TypeInv, PermitInv, NEW p \in Photos, Slot(p)
    PROVE  PermitInv'
<1>1. CASE NoPermit /\ Sleep(p)
  BY <1>1, SamePermits DEF Slot, Sleep, In
<1>2. CASE cancelReq /\ Move(p, "empty")
  BY <1>2, SamePermits DEF Slot, Move, In, InPool, TypeInv
<1>3. CASE task' = [task EXCEPT ![p] = "work"] /\ active' = active + 1
  <2>1. In({"work"})' = In({"work"}) \cup {p} /\ p \notin In({"work"})
    BY <1>3 DEF Slot, In, TypeInv
  <2>2. In(InPool)' = In(InPool)
    BY <1>3 DEF Slot, In, InPool, TypeInv
  <2>3. Cardinality(In({"work"}) \cup {p}) = Cardinality(In({"work"})) + 1
    BY <2>1, InFinite, FS_AddElement
  <2>. QED
    BY <1>3, <2>1, <2>2, <2>3 DEF PermitInv, PermitsAccounted
<1>. QED
  BY <1>1, <1>2, <1>3 DEF Slot

LEMMA WorkPermit ==
    ASSUME TypeInv, PermitInv, NEW p \in Photos, Work(p)
    PROVE  PermitInv'
<1>1. In({"work"})' = In({"work"}) \ {p} /\ p \in In({"work"})
  BY DEF Work, In, TypeInv
<1>2. In(InPool)' = In(InPool) \ {p} /\ p \in In(InPool)
  BY DEF Work, In, InPool, TypeInv
<1>3. Cardinality(In({"work"}) \ {p}) = Cardinality(In({"work"})) - 1
  BY <1>1, InFinite, FS_RemoveElement
<1>4. Cardinality(In(InPool) \ {p}) = Cardinality(In(InPool)) - 1
  BY <1>2, InFinite, FS_RemoveElement
<1>5. Cardinality(In(InPool)) \in Nat /\ active' = active - 1
  BY InFinite DEF Work, Release
<1>6. active' = Cardinality(In({"work"})')
  BY <1>1, <1>3, <1>5 DEF PermitInv, PermitsAccounted
<1>7. Cardinality(In(InPool)') <= MaxWorkers
  <2>1. Cardinality(In(InPool)') = Cardinality(In(InPool)) - 1
    BY <1>2, <1>4
  <2>2. Cardinality(In(InPool)) <= MaxWorkers
    BY DEF PermitInv
  <2>. QED
    BY <1>5, <2>1, <2>2, WorkersAssumption
<1>. QED
  BY <1>6, <1>7 DEF PermitInv, PermitsAccounted

LEMMA PermitStep == TypeInv /\ JoinInv /\ PermitInv /\ [Next]_vars => PermitInv'
<1> SUFFICES ASSUME TypeInv, JoinInv, PermitInv, [Next]_vars PROVE PermitInv'
  OBVIOUS
<1> USE DEF job, requests
<1>1. CASE UNCHANGED <<task, active>>
  BY <1>1, SamePermits DEF In
<1>2. CASE Load
  <2>1. In(InPool) = {}
    BY <1>2 DEF Load, JoinInv, PoolIdle, In
  <2>2. In(InPool)' = {}
    BY <1>2 DEF Load, In, InPool
  <2>. QED
    BY <1>2, <2>1, <2>2, SamePermits DEF Load, In, InPool
<1>3. CASE Fill \/ Advance \/ Collect
  BY <1>3, SamePermits DEF Fill, Advance, Collect, SubmitNext, Oldest, In, InPool, TypeInv
<1>4. ASSUME NEW p \in Photos, PoolStep(p) PROVE PermitInv'
  <2>1. CASE Control(p)
    BY <2>1, SamePermits DEF Control, Sleep, Move, In, InPool, TypeInv
  <2>. QED
    BY <1>4, <2>1, TakePermit, SlotPermit, WorkPermit DEF PoolStep
<1>5. CASE Restart
  <2>1. In(InPool)' = {} /\ In({"work"})' = {} /\ active' = 0
    BY <1>5 DEF Restart, In, InPool
  <2>. QED
    BY <2>1, FS_EmptySet, WorkersAssumption DEF PermitInv, PermitsAccounted
<1>6. (\E s \in {"all", "remaining"} : Start(s)) \/ Pause \/ Resume \/ Cancel
      \/ (\E n \in 0..(MaxWorkers + 1) : SetWorkers(n)) \/ ImportToggles \/ UNCHANGED vars
      => UNCHANGED <<task, active>>
  BY DEF Start, Pause, Resume, Cancel, SetWorkers, ImportToggles, vars
<1>7. Poll \/ Gate \/ AllCollected \/ Final \/ Raise \/ Join \/ Exit \/ (\E s \in Ended : Finish(s))
      => UNCHANGED <<task, active>>
  BY DEF Poll, Gate, AllCollected, Final, Raise, Join, Exit, Finish
<1>. QED
  BY <1>1, <1>2, <1>3, <1>4, <1>5, <1>6, <1>7 DEF Next, Thread

-----------------------------------------------------------------------------
(* The window loses no photo.                                              *)

LEMMA CoverInit == Init => CoverInv
BY DEF Init, CoverInv

\* Nothing here depends on the requests or on a status other than completed.
LEMMA CoverSame ==
    ASSUME CoverInv, UNCHANGED <<task, pc, analyzed>>,
           pc = "fill" => UNCHANGED scope,
           status' # status => status' # "completed"
    PROVE  CoverInv'
BY DEF CoverInv, CompletedCovers, In, InFlight, InPool, Selected

LEMMA CoverFill ==
    ASSUME TypeInv, CoverInv, Fill
    PROVE  CoverInv'
<1> USE DEF job, requests
<1>1. CASE SubmitNext /\ UNCHANGED pc
  BY <1>1 DEF Fill, SubmitNext, Oldest, CoverInv, In, Selected, TypeInv
<1>2. CASE pc' = "collect" /\ UNCHANGED task /\ In({"pending"}) = {}
  BY <1>2 DEF Fill, CoverInv, In
<1>3. CASE /\ pc' = "collect" /\ UNCHANGED task
           /\ ~(Cardinality(Selected \ In({"pending"})) < Window)
  <2>1. Selected \ In({"pending"}) # {}
    BY <1>3, FS_EmptySet, WorkersAssumption DEF Window
  <2>2. PICK p \in Selected : p \notin In({"pending"})
    BY <2>1
  <2>3. p \in Photos /\ task[p] \in Task
    BY <2>2 DEF Selected, TypeInv
  <2>4. task[p] \notin {"pending", "none", "collected", "skipped"}
    BY <2>2, <2>3 DEF Fill, CoverInv, In
  <2>5. p \in InFlight
    BY <2>3, <2>4 DEF InFlight, In, Task
  <2>6. InFlight' # {}
    BY <1>3, <2>5 DEF InFlight, In
  <2>. QED
    BY <1>3, <2>6 DEF Fill, CoverInv
<1>. QED
  BY <1>1, <1>2, <1>3 DEF Fill

\* The flight does not become empty by a step of the pool.
LEMMA CoverPool ==
    ASSUME TypeInv, JoinInv, CoverInv, NEW p \in Photos, PoolStep(p)
    PROVE  CoverInv'
<1> USE DEF job, requests
<1>1. /\ task' \in [Photos -> Task]
      /\ \A q \in Photos : task'[q] = task[q] \/ (q = p /\ task[p] \in {"queued"} \cup InPool
                                                   /\ task'[p] \in {"ok", "empty"} \cup InPool)
  BY DEF PoolStep, Take, Oldest, Control, Slot, Work, Sleep, Move, TypeInv, Task, InPool, In
<1>2. UNCHANGED <<pc, status, scope, analyzed>>
  BY DEF PoolStep, Take, Control, Slot, Work
<1>3. pc \notin {"none", "poll", "gate", "load", "final", "completed", "failed", "exit"}
  BY PoolStepInPool DEF JoinInv, PoolIdle
<1>4. In({"pending"})' = In({"pending"})
  BY <1>1 DEF In, InPool
<1>5. InFlight \subseteq InFlight'
  BY <1>1 DEF InFlight, In, InPool
<1>6. \A q \in Photos : /\ task'[q] = "none" => task[q] = "none"
                        /\ task'[q] \in {"collected", "skipped"} => task'[q] = task[q]
                        /\ task[q] # "none" => task'[q] # "none"
  BY <1>1 DEF InPool
<1>7. Selected' = Selected
  BY <1>2 DEF Selected
<1>. QED
  BY <1>2, <1>3, <1>4, <1>5, <1>6, <1>7 DEF CoverInv

LEMMA CoverStep == TypeInv /\ JoinInv /\ CoverInv /\ [Next]_vars => CoverInv'
<1> SUFFICES ASSUME TypeInv, JoinInv, CoverInv, [Next]_vars PROVE CoverInv'
  OBVIOUS
<1> USE DEF job, requests
<1>1. ASSUME NEW s \in {"all", "remaining"}, Start(s) PROVE CoverInv'
  BY <1>1 DEF Start, CoverInv
<1>2. CASE Pause \/ Resume \/ Cancel \/ (\E n \in 0..(MaxWorkers + 1) : SetWorkers(n))
           \/ ImportToggles \/ UNCHANGED vars
  BY <1>2, CoverSame DEF Pause, Resume, Cancel, SetWorkers, ImportToggles, vars
<1>3. CASE Poll \/ Gate \/ Raise \/ Join \/ Exit
  BY <1>3 DEF Poll, Gate, Raise, Join, Exit, CoverInv, CompletedCovers
<1>4. CASE Load
  <2>1. \A p \in Photos : IF p \in Selected THEN task'[p] = "pending" ELSE task'[p] = "none" /\ p \in analyzed
    BY <1>4 DEF Load, Selected
  <2>2. Selected' = Selected /\ analyzed' = analyzed
    BY <1>4 DEF Load, Selected
  <2>3. status' # "completed" /\ pc' = IF Selected = {} THEN "completed" ELSE "fill"
    BY <1>4 DEF Load, CoverInv
  <2>. QED
    BY <2>1, <2>2, <2>3 DEF CoverInv
<1>5. CASE Fill
  BY <1>5, CoverFill
<1>6. CASE Collect
  BY <1>6 DEF Collect, CoverInv, In, TypeInv
<1>7. CASE Advance
  <2>1. CASE cancelReq
    BY <1>7, <2>1 DEF Advance, CoverInv
  <2>2. CASE ~cancelReq /\ In({"pending"}) = {}
    BY <1>7, <2>2 DEF Advance, SubmitNext, CoverInv, In
  <2>3. ASSUME ~cancelReq, NEW p \in Oldest("pending"), task' = [task EXCEPT ![p] = "queued"]
        PROVE  CoverInv'
    <3>1. p \in InFlight'
      BY <2>3 DEF Oldest, In, InFlight, TypeInv
    <3>. QED
      BY <1>7, <2>3, <3>1 DEF Advance, CoverInv, Oldest, In, TypeInv
  <2>. QED
    BY <1>7, <2>1, <2>2, <2>3 DEF Advance, SubmitNext
<1>8. CASE AllCollected
  <2>1. In({"pending"}) = {} /\ InFlight = {}
    BY <1>8 DEF AllCollected, CoverInv
  <2>2. \A p \in Photos : task[p] \in {"none", "collected", "skipped"}
    BY <2>1 DEF In, InFlight, TypeInv, Task
  <2>. QED
    BY <1>8, <2>2 DEF AllCollected, CoverInv
<1>9. CASE Final
  BY <1>9 DEF Final, CoverInv
<1>10. ASSUME NEW s \in Ended, Finish(s) PROVE CoverInv'
  <2>1. CASE s = "completed"
    BY <1>10, <2>1 DEF Finish, AfterFinish, CoverInv, CompletedCovers
  <2>2. CASE s # "completed"
    BY <1>10, <2>2 DEF Finish, AfterFinish, CoverInv, Ended
  <2>. QED
    BY <2>1, <2>2
<1>11. ASSUME NEW p \in Photos, PoolStep(p) PROVE CoverInv'
  BY <1>11, CoverPool
<1>12. CASE Restart
  BY <1>12 DEF Restart, CoverInv
<1>. QED
  BY <1>1, <1>2, <1>3, <1>4, <1>5, <1>6, <1>7, <1>8, <1>9, <1>10, <1>11, <1>12 DEF Next, Thread

-----------------------------------------------------------------------------
(* The theorems.                                                           *)

LEMMA Inductive == Spec => []IInv
<1>1. Init => IInv
  BY TypeInit, JoinInit, ShownInit, WakeInit, PermitInit, CoverInit DEF IInv
<1>2. IInv /\ [Next]_vars => IInv'
  BY TypeStep, JoinStep, ShownStep, WakeStep, PermitStep, CoverStep DEF IInv
<1>. QED
  BY <1>1, <1>2, PTL DEF Spec

\* Every reachable state is well typed: in particular the permits taken are never
\* fewer than none nor more than max_workers (analysis.py:364-377).
THEOREM TypeCorrect == Spec => []TypeOK
<1>1. IInv => TypeOK
  <2> SUFFICES ASSUME IInv PROVE TypeOK
    OBVIOUS
  <2>1. In({"work"}) \in SUBSET In(InPool)
    BY DEF In, InPool
  <2>2. Cardinality(In({"work"})) <= Cardinality(In(InPool))
    BY <2>1, InFinite, FS_Subset
  <2>3. Cardinality(In({"work"})) \in Nat /\ Cardinality(In(InPool)) \in Nat
    BY InFinite
  <2>4. active \in 0..MaxWorkers
    BY <2>2, <2>3, WorkersAssumption DEF IInv, PermitInv, PermitsAccounted
  <2>. QED
    BY <2>4 DEF IInv, TypeInv, TypeOK
<1>. QED
  BY <1>1, Inductive, PTL

\* No permit is ever lost or counted twice, whatever a photo's analysis comes to
\* and from one job to the next (analysis.py:283-286, 371-377).
THEOREM NoPermitLost == Spec => []PermitsAccounted
<1>1. IInv => PermitsAccounted
  BY DEF IInv, PermitInv
<1>. QED
  BY <1>1, Inductive, PTL

\* A thread sleeps on _control only while the condition it waits for still makes
\* it wait (analysis.py:357-377).
THEOREM SleepersHaveReason == Spec => []NoLostWakeup
<1>1. IInv => NoLostWakeup
  BY DEF IInv
<1>. QED
  BY <1>1, Inductive, PTL

\* No job is accepted while a photo of the former one is queued or in the pool
\* (analysis.py:288, 330, 355).
THEOREM PoolJoined == Spec => []JoinedBeforeExit
<1>1. IInv => JoinedBeforeExit
  BY DEF IInv, JoinInv, JoinedBeforeExit
<1>. QED
  BY <1>1, Inductive, PTL

\* A job that published "completed" collected every photo it had to analyze, for
\* every size of the catalog and of the window (analysis.py:289-332).
THEOREM CompletedIsWhole == Spec => []CompletedCovers
<1>1. IInv => CompletedCovers
  BY DEF IInv, CoverInv, CompletedCovers
<1>. QED
  BY <1>1, Inductive, PTL

\* A photo begins to be analyzed only while the job is shown as running
\* (analysis.py:249-253, 364-372).
THEOREM PausedStartsNothing == Spec => WorkBeginsWhileRunning
<1>1. ASSUME IInv, [Next]_vars, NEW p \in Photos, task[p] # "work", task'[p] = "work"
      PROVE  status = "running"
  <2>1. Slot(p)
    <3>1. task[p] # task'[p] /\ task \in [Photos -> Task]
      BY <1>1 DEF IInv, TypeInv
    <3>2. \E q \in Photos : PoolStep(q)
      <4>1. ~UNCHANGED task
        BY <3>1
      <4>2. ~(Load \/ Restart)
        BY <1>1 DEF Load, Restart
      <4>3. ~(Fill \/ Advance \/ Collect)
        BY <1>1, <3>1 DEF Fill, Advance, Collect, SubmitNext, Oldest, In
      <4>. QED
        BY <1>1, <4>1, <4>2, <4>3
        DEF Next, Thread, vars, Start, Pause, Resume, Cancel, SetWorkers, Poll, Gate,
            AllCollected, Final, Finish, Raise, Join, Exit, ImportToggles
    <3>3. PICK q \in Photos : PoolStep(q)
      BY <3>2
    <3>4. ~Take(q) /\ ~Control(q) /\ ~Work(q)
      BY <1>1, <3>1 DEF Take, Control, Work, Sleep, Move
    <3>5. q = p
      BY <1>1, <3>1, <3>3, <3>4 DEF PoolStep, Slot, Sleep, Move
    <3>. QED
      BY <3>3, <3>4, <3>5 DEF PoolStep
  <2>2. ~pauseReq /\ ~cancelReq
    BY <1>1, <2>1 DEF Slot, Sleep, Move, NoPermit, IInv, TypeInv
  <2>3. ~PoolIdle
    BY <2>1 DEF Slot, PoolIdle, In, InPool
  <2>. QED
    BY <1>1, <2>2, <2>3 DEF IInv, JoinInv, ShownInv
<1>2. IInv /\ [Next]_vars =>
          [\A p \in Photos : task[p] # "work" /\ task'[p] = "work" => status = "running"]_vars
  BY <1>1
<1>. QED
  BY <1>2, Inductive, PTL DEF Spec, WorkBeginsWhileRunning
===============================================================================
