------------------------------ MODULE MCCatalog ------------------------------
(* Catalog for TLC. Nothing tells one photo from another.                    *)
EXTENDS Catalog, TLC

Symmetry == Permutations(Photos)
==============================================================================
