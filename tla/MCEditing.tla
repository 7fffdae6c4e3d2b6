------------------------------ MODULE MCEditing ------------------------------
(* Editing for TLC: requests are interchangeable.                           *)
EXTENDS Editing, TLC

ClientSymmetry == Permutations(Clients)
==============================================================================
