----------------------------- MODULE EditHistory -----------------------------
(***************************************************************************)
(* What the edit document of one photo promises: a linear history of       *)
(* recipes and a position in it. An edit forgets what was undone; undo and *)
(* redo only move. The oldest recipes beyond Limit are forgotten.          *)
(***************************************************************************)
EXTENDS Integers, Sequences

CONSTANTS Recipes, DefaultRecipe, Limit

VARIABLES hist, \* the recipes, oldest first; empty until the document is created
          pos   \* the current one

Init == hist = <<>> /\ pos = 0

Create ==
    /\ hist = <<>>
    /\ hist' = <<DefaultRecipe>> /\ pos' = 1

\* The last n members of s, or all of them.
Newest(s, n) == IF Len(s) <= n THEN s ELSE SubSeq(s, Len(s) - n + 1, Len(s))

Edit(r) ==
    /\ hist # <<>> /\ r # hist[pos]
    /\ hist' = Append(Newest(SubSeq(hist, 1, pos), Limit), r)
    /\ pos' = Len(hist')

\* The first edit of a photo creates its document as well.
CreateAndEdit(r) ==
    /\ hist = <<>> /\ r # DefaultRecipe
    /\ hist' = <<DefaultRecipe, r>> /\ pos' = 2

Undo == pos > 1 /\ pos' = pos - 1 /\ UNCHANGED hist
Redo == pos < Len(hist) /\ pos' = pos + 1 /\ UNCHANGED hist

Next == Create \/ Undo \/ Redo \/ \E r \in Recipes : Edit(r) \/ CreateAndEdit(r)
Stutter == UNCHANGED <<hist, pos>>
==============================================================================
