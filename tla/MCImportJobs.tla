---------------------------- MODULE MCImportJobs ----------------------------
(* Instances of ImportJobs for TLC. Worker slots are interchangeable, which  *)
(* the run that checks no liveness uses.                                     *)
EXTENDS ImportJobs, TLC

WorkerSymmetry == Permutations(Workers)
=============================================================================
