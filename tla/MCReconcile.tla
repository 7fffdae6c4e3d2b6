----------------------------- MODULE MCReconcile -----------------------------
(* Reconcile for TLC: a RAW and JPEG pair, and a file of another photo.      *)
EXTENDS Reconcile, TLC

CONSTANTS a1, a2, b1, a, b
MCStemOf == a1 :> a @@ a2 :> a @@ b1 :> b

\* The revisions of the jobs are only compared with each other.
Symmetry == Permutations(Jobs)
==============================================================================
