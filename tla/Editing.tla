------------------------------- MODULE Editing -------------------------------
(***************************************************************************)
(* Edit documents and previews: EditService of photo_culler/editing and    *)
(* the requests of web/routes/editing.py, which run in a pool of threads.  *)
(*                                                                         *)
(* A request reads the row of its photo's document in one step and commits *)
(* in a later one: SQLite opens the transaction at the first write, so the *)
(* read does not lock. The commit writes the columns that differ from what *)
(* was read. The preview cache is a critical section of its own, before    *)
(* and after the rendering and after the commit of an edit.                *)
(*                                                                         *)
(* A recipe is opaque: a change of some of its parameters asks for any     *)
(* recipe. The size of a preview, one more part of its key, and the pixels *)
(* are left out. A request for an unknown photo or with a value out of     *)
(* range changes nothing.                                                  *)
(***************************************************************************)
EXTENDS Integers, Sequences, FiniteSets

CONSTANTS
    Photos,
    Clients,       \* requests that can be under way at a time
    Recipes, DefaultRecipe,
    HistoryLimit,  \* recipes kept in each stack: 50
    CacheEntries,  \* previews kept: 64
    Edited,        \* bound: the photos that requests edit
    MaxRev         \* bound: edits begin only below this revision

ASSUME RecipeAssumption == DefaultRecipe \in Recipes
ASSUME LimitAssumption ==
    HistoryLimit \in Nat \ {0} /\ CacheEntries \in Nat \ {0} /\ MaxRev \in Nat \ {0}
ASSUME EditedAssumption == Edited \subseteq Photos

VARIABLES
    doc,    \* the committed rows of edit_documents
    cache,  \* _cache: previews from the least to the most recently used
    req,    \* what each client's request is doing, and the row it has read
    raced   \* history: photos of which a commit wrote over a row it had not read

vars == <<doc, cache, req, raced>>

Stack == Seq(Recipes)
Row == [rev : -1..MaxRev, recipe : Recipes, undo : Stack, redo : Stack]
NoRow == [rev |-> -1, recipe |-> DefaultRecipe, undo |-> <<>>, redo |-> <<>>]
NewRow == [NoRow EXCEPT !.rev = 0]
Exists(row) == row.rev >= 0

Edits == {"update", "undo", "redo"}
Ops == Edits \cup {"get", "preview"}

\* A request has read (row), has committed an edit (drop), looks into the cache
\* (lookup) or renders (render).
Idle == [pc |-> "idle"]
Request == [pc : {"row", "drop", "lookup", "render"}, op : Ops, photo : Photos, row : Row]

\* A preview: its key, and the recipe it shows.
Entry == [photo : Photos, rev : 0..MaxRev, recipe : Recipes]
SameKey(e, f) == e.photo = f.photo /\ e.rev = f.rev

Init ==
    /\ doc = [p \in Photos |-> NoRow]
    /\ cache = <<>>
    /\ req = [c \in Clients |-> Idle]
    /\ raced = {}

-----------------------------------------------------------------------------
(* What an edit makes of the row it has read.                              *)

\* value[-HistoryLimit:]
Newest(s) ==
    IF Len(s) <= HistoryLimit THEN s ELSE SubSeq(s, Len(s) - HistoryLimit + 1, Len(s))
Push(s, r) == Newest(Append(s, r))
Top(s) == s[Len(s)]
Pop(s) == SubSeq(s, 1, Len(s) - 1)

\* A request that finds no row adds one first, in the same transaction.
Base(row) == IF Exists(row) THEN row ELSE NewRow

\* Mutants: an edit keeps what was undone; an undo keeps the revision.
UpdatedKeepsRedo(b, r) ==
    IF r = b.recipe THEN b
    ELSE [b EXCEPT !.rev = @ + 1, !.recipe = r, !.undo = Push(@, b.recipe)]
Updated(b, r) ==
    IF r = b.recipe THEN b
    ELSE [rev |-> b.rev + 1, recipe |-> r, undo |-> Push(b.undo, b.recipe), redo |-> <<>>]

UndoneSameRev(b) ==
    [rev |-> b.rev, recipe |-> Top(b.undo), undo |-> Pop(b.undo), redo |-> Push(b.redo, b.recipe)]
Undone(b) ==
    [rev |-> b.rev + 1, recipe |-> Top(b.undo), undo |-> Pop(b.undo),
     redo |-> Push(b.redo, b.recipe)]
Redone(b) ==
    [rev |-> b.rev + 1, recipe |-> Top(b.redo), undo |-> Push(b.undo, b.recipe),
     redo |-> Pop(b.redo)]

\* The rows a request may ask the database to hold; none when there is nothing to
\* undo or redo.
Results(op, b) ==
    CASE op = "update" -> {Updated(b, r) : r \in Recipes}
      [] op = "undo"   -> IF b.undo = <<>> THEN {} ELSE {Undone(b)}
      [] op = "redo"   -> IF b.redo = <<>> THEN {} ELSE {Redone(b)}
      [] OTHER         -> {b}

\* UPDATE sets the columns that differ from what the session read.
Merged(stored, read, new) ==
    [col \in DOMAIN stored |-> IF new[col] = read[col] THEN stored[col] ELSE new[col]]

-----------------------------------------------------------------------------
(* Requests.                                                               *)

\* The first SELECT of get_document, update_document, undo, redo, render_preview.
Begin(c, op, p) ==
    /\ req[c] = Idle
    /\ op \in Edits => p \in Edited /\ doc[p].rev < MaxRev
    /\ req' = [req EXCEPT ![c] = [pc |-> "row", op |-> op, photo |-> p, row |-> doc[p]]]
    /\ UNCHANGED <<doc, cache, raced>>

\* The request ends with an answer or an error.
Leave(c) == req' = [req EXCEPT ![c] = Idle]

\* After the commit: an edit still has to drop previews, a preview to look one up.
Proceed(c, row) ==
    IF req[c].op = "get" THEN Leave(c)
    ELSE req' = [req EXCEPT ![c].pc = IF req[c].op = "preview" THEN "lookup" ELSE "drop",
                            ![c].row = row]

\* Mutant: the document of a photo is not unique.
InsertAnyway(c, new) ==
    LET p == req[c].photo
    IN  /\ ~Exists(req[c].row)
        /\ doc' = [doc EXCEPT ![p] = new]
        /\ raced' = IF Exists(doc[p]) THEN raced \cup {p} ELSE raced
        /\ Proceed(c, new)
\* One document per photo: a second insertion fails (see Fail).
Insert(c, new) ==
    LET p == req[c].photo
    IN  /\ ~Exists(req[c].row) /\ ~Exists(doc[p])
        /\ doc' = [doc EXCEPT ![p] = new]
        /\ Proceed(c, new)
        /\ UNCHANGED raced

Update(c, new) ==
    LET p == req[c].photo  read == req[c].row
    IN  /\ Exists(read)
        /\ doc' = [doc EXCEPT ![p] = Merged(@, read, new)]
        /\ raced' = IF new # read /\ doc[p] # read THEN raced \cup {p} ELSE raced
        /\ Proceed(c, new)

\* The flush and the commit of the session.
Commit(c) ==
    /\ req[c].pc = "row"
    /\ \E new \in Results(req[c].op, Base(req[c].row)) : Insert(c, new) \/ Update(c, new)
    /\ UNCHANGED cache

\* Nothing to undo or redo, a second insertion, a busy database, no readable source:
\* the session is rolled back.
Fail(c) ==
    /\ req[c].pc \in {"row", "render"}
    /\ Leave(c)
    /\ UNCHANGED <<doc, cache, raced>>

\* The previews at the positions in I, in their order: the one member of this set.
Kept(I) ==
    LET order == {f \in [1..Cardinality(I) -> I] : \A i, j \in DOMAIN f : i < j => f[i] < f[j]}
    IN  {[i \in 1..Cardinality(I) |-> cache[f[i]]] : f \in order}

\* _invalidate drops every preview of the photo.
Drop(c) ==
    /\ req[c].pc = "drop"
    /\ cache' \in Kept({i \in DOMAIN cache : cache[i].photo # req[c].photo})
    /\ Leave(c)
    /\ UNCHANGED <<doc, raced>>

-----------------------------------------------------------------------------
(* Previews. A render shows the recipe of the row that was read.           *)

Rendered(c) ==
    [photo |-> req[c].photo, rev |-> req[c].row.rev, recipe |-> req[c].row.recipe]

\* A found preview moves to the end; otherwise it is rendered, outside the lock.
Lookup(c) ==
    LET found == {i \in DOMAIN cache : SameKey(cache[i], Rendered(c))}
    IN  /\ req[c].pc = "lookup"
        /\ \/ /\ found = {}
              /\ req' = [req EXCEPT ![c].pc = "render"]
              /\ UNCHANGED cache
           \/ \E i \in found : \E rest \in Kept(DOMAIN cache \ {i}) :
              /\ cache' = Append(rest, cache[i])
              /\ Leave(c)
        /\ UNCHANGED <<doc, raced>>

\* Mutant: nothing is evicted.
Unevicted(s) == s
Evicted(s) ==
    IF Len(s) <= CacheEntries THEN s ELSE SubSeq(s, Len(s) - CacheEntries + 1, Len(s))

\* The render replaces a preview of the same key, or the oldest ones make room.
Put(c) ==
    /\ req[c].pc = "render"
    /\ \E rest \in Kept({i \in DOMAIN cache : ~SameKey(cache[i], Rendered(c))}) :
          cache' = Evicted(Append(rest, Rendered(c)))
    /\ Leave(c)
    /\ UNCHANGED <<doc, raced>>

\* The process ends and starts again: requests and cache are gone, rows stay.
Restart ==
    /\ cache' = <<>>
    /\ req' = [c \in Clients |-> Idle]
    /\ UNCHANGED <<doc, raced>>

Client(c) ==
    \/ \E op \in Ops, p \in Photos : Begin(c, op, p)
    \/ Commit(c) \/ Fail(c) \/ Drop(c) \/ Lookup(c) \/ Put(c)

Next == Restart \/ \E c \in Clients : Client(c)

Spec == Init /\ [][Next]_vars
-----------------------------------------------------------------------------
(* Properties.                                                             *)

\* Types, and the stacks never exceed HistoryLimit nor the cache CacheEntries,
\* whatever requests interleave.
TypeOK ==
    /\ doc \in [Photos -> Row]
    /\ \A p \in Photos : Len(doc[p].undo) <= HistoryLimit /\ Len(doc[p].redo) <= HistoryLimit
    /\ cache \in Seq(Entry) /\ Len(cache) <= CacheEntries
    /\ \A c \in Clients : req[c] \in Request \cup {Idle}
    /\ raced \subseteq Photos

\* get_document and _get_rows create a document when they find none, in any number of
\* threads: a document that exists is never put back to its first revision.
CreatedOnce ==
    [][\A p \in Photos : Exists(doc[p]) /\ doc'[p] # doc[p] => doc'[p].rev > 0]_vars

\* The history of the recipes of one photo, and the current position.
History(row) ==
    IF ~Exists(row) THEN <<>>
    ELSE row.undo \o <<row.recipe>> \o [i \in DOMAIN row.redo |-> row.redo[Len(row.redo) + 1 - i]]
Position(row) == IF Exists(row) THEN Len(row.undo) + 1 ELSE 0

H(p) == INSTANCE EditHistory
            WITH Limit <- HistoryLimit, hist <- History(doc[p]), pos <- Position(doc[p])

\* The two stacks, the recipe and the truncation implement the linear history of
\* EditHistory, as long as no commit wrote over a row it had not read.
LinearHistory ==
    [][\A p \in Photos : p \in raced' \/ H(p)!Next \/ H(p)!Stutter]_vars

\* render_preview caches under the revision it read, and may do so after the edit that
\* drops the photo's previews: still, a preview of the current revision shows the current
\* recipe, cached or under way, and no preview is ahead of the document.
Previews ==
    {cache[i] : i \in DOMAIN cache}
        \cup {Rendered(c) : c \in {d \in Clients : req[d].pc \in {"lookup", "render"}}}
PreviewMatchesRevision ==
    \A e \in Previews : e.photo \notin raced =>
        /\ e.rev <= doc[e.photo].rev
        /\ e.rev = doc[e.photo].rev => e.recipe = doc[e.photo].recipe
=============================================================================
