--------------------------- MODULE ImportLifecycle ---------------------------
(***************************************************************************)
(* What an import job promises to whoever only watches its row: it works,  *)
(* may be interrupted by the end of the process and resumed, and ends. A   *)
(* job is completed only when every photo was imported under its revision, *)
(* an ended job never works again, and no job becomes completed after it   *)
(* ended otherwise. (A cancellation or a failure that was on its way when  *)
(* the job ended may still replace the outcome.)                           *)
(***************************************************************************)
CONSTANTS Jobs, Photos

VARIABLES phase, seen

vars == <<phase, seen>>

Ended == {"completed", "failed", "cancelled"}

Init ==
    /\ phase = [j \in Jobs |-> "none"]
    /\ seen = [j \in Jobs |-> {}]

Move(j, from, to) ==
    /\ phase[j] \in from
    /\ phase' = [phase EXCEPT ![j] = to]
    /\ UNCHANGED seen

Submit(j) == Move(j, {"none"}, "working")

Import(j) ==
    /\ phase[j] = "working"
    /\ \E p \in Photos : seen' = [seen EXCEPT ![j] = @ \cup {p}]
    /\ UNCHANGED phase

Complete(j) == seen[j] = Photos /\ Move(j, {"working"}, "completed")
Fail(j) == Move(j, {"working"} \cup Ended, "failed")
Cancel(j) == Move(j, {"working", "interrupted"} \cup Ended, "cancelled")
Resume(j) == Move(j, {"interrupted"}, "working")

\* The process ends: every job at work is interrupted at once.
Interrupt ==
    /\ phase' = [j \in Jobs |-> IF phase[j] = "working" THEN "interrupted" ELSE phase[j]]
    /\ UNCHANGED seen

Next ==
    \/ \E j \in Jobs : \/ Submit(j) \/ Import(j) \/ Resume(j)
                       \/ Complete(j) \/ Fail(j) \/ Cancel(j)
    \/ Interrupt

Spec == Init /\ [][Next]_vars

=============================================================================
