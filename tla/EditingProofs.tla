---------------------------- MODULE EditingProofs ----------------------------
(***************************************************************************)
(* Theorems about Editing, for every set of photos, clients and recipes    *)
(* and every limit of the history and of the cache.                        *)
(***************************************************************************)
EXTENDS Editing, SequenceTheorems, FiniteSetTheorems, TLAPS

-----------------------------------------------------------------------------
(* Types.                                                                  *)

\* A row whose stacks are within the limit.
Bounded == {r \in Row : Len(r.undo) <= HistoryLimit /\ Len(r.redo) <= HistoryLimit}

\* The row a request holds is bounded, an edit has begun below MaxRev, and a request
\* for a preview that has committed holds an existing row.
RequestOK(q) ==
    /\ q \in Request
    /\ q.row \in Bounded
    /\ q.pc = "row" /\ q.op \in Edits => q.row.rev < MaxRev
    /\ q.pc \in {"lookup", "render"} => Exists(q.row)

TypeInv ==
    /\ doc \in [Photos -> Bounded]
    /\ cache \in Seq(Entry) /\ Len(cache) <= CacheEntries
    /\ req \in [Clients -> Request \cup {Idle}]
    /\ \A c \in Clients : req[c] # Idle => RequestOK(req[c])
    /\ raced \subseteq Photos

LEMMA TypeInvImplies == TypeInv => TypeOK
BY DEF TypeInv, TypeOK, Bounded

\* The newest members of a stack are a stack within the limit.
LEMMA NewestType ==
    ASSUME NEW s \in Stack
    PROVE  /\ Newest(s) \in Stack
           /\ Len(Newest(s)) <= HistoryLimit
           /\ Len(Newest(s)) <= Len(s)
<1> USE LimitAssumption DEF Stack
<1>1. CASE Len(s) <= HistoryLimit
  BY <1>1 DEF Newest
<1>2. CASE Len(s) > HistoryLimit
  <2> DEFINE m == Len(s) - HistoryLimit + 1
  <2>1. m \in 1..Len(s) + 1 /\ Len(s) \in 1..Len(s)
    BY <1>2
  <2>2. SubSeq(s, m, Len(s)) \in Seq(Recipes) /\ Len(SubSeq(s, m, Len(s))) = HistoryLimit
    BY <1>2, SubSeqProperties
  <2>3. QED
    BY <1>2, <2>2 DEF Newest
<1>3. QED
  BY <1>1, <1>2

LEMMA PushType ==
    ASSUME NEW s \in Stack, NEW r \in Recipes
    PROVE  Push(s, r) \in Stack /\ Len(Push(s, r)) <= HistoryLimit
<1>1. Append(s, r) \in Stack
  BY DEF Stack
<1>2. QED
  BY <1>1, NewestType DEF Push

\* The first n members of a sequence, and the others.
LEMMA Prefix ==
    ASSUME NEW R, NEW s \in Seq(R), NEW n \in Nat, n <= Len(s)
    PROVE  /\ SubSeq(s, 1, n) \in Seq(R) /\ Len(SubSeq(s, 1, n)) = n
           /\ \A i \in 1..n : SubSeq(s, 1, n)[i] = s[i]
OBVIOUS

LEMMA Suffix ==
    ASSUME NEW R, NEW s \in Seq(R), NEW n \in Nat, n <= Len(s)
    PROVE  /\ SubSeq(s, n + 1, Len(s)) \in Seq(R)
           /\ Len(SubSeq(s, n + 1, Len(s))) = Len(s) - n
           /\ \A i \in 1..(Len(s) - n) : SubSeq(s, n + 1, Len(s))[i] = s[n + i]
OBVIOUS

LEMMA PopType ==
    ASSUME NEW s \in Stack, s # <<>>
    PROVE  /\ Top(s) \in Recipes /\ Pop(s) \in Stack /\ Len(Pop(s)) = Len(s) - 1
           /\ \A i \in 1..(Len(s) - 1) : Pop(s)[i] = s[i]
<1>1. Len(s) \in Nat /\ Len(s) >= 1
  BY EmptySeq DEF Stack
<1> DEFINE n == Len(s) - 1
<1>2. n \in Nat /\ n <= Len(s)
  BY <1>1
<1>3. /\ SubSeq(s, 1, n) \in Seq(Recipes) /\ Len(SubSeq(s, 1, n)) = n
      /\ \A i \in 1..n : SubSeq(s, 1, n)[i] = s[i]
  <2> HIDE DEF n
  <2>1. QED
    BY <1>2, Prefix DEF Stack
<1>4. s[Len(s)] \in Recipes
  BY <1>1 DEF Stack
<1>5. QED
  BY <1>3, <1>4, Zenon DEF Top, Pop, Stack

LEMMA BaseType ==
    ASSUME NEW row \in Bounded
    PROVE  Base(row) \in Bounded /\ Exists(Base(row)) /\ Base(row).rev \in 0..MaxRev
<1>1. <<>> \in Stack /\ Len(<<>>) = 0
  BY EmptySeq DEF Stack
<1>2. NoRow \in Bounded /\ NewRow \in Bounded /\ NewRow.rev = 0
  BY <1>1, RecipeAssumption, LimitAssumption DEF Bounded, Row, NewRow, NoRow
<1>3. row.rev \in -1..MaxRev
  BY DEF Bounded, Row
<1>4. QED
  BY <1>2, <1>3, LimitAssumption DEF Base, Exists

\* What an edit makes of a bounded row below MaxRev is a bounded row.
LEMMA ResultsType ==
    ASSUME NEW b \in Bounded, Exists(b), NEW op \in Ops,
           op \in Edits => b.rev < MaxRev,
           NEW new \in Results(op, b)
    PROVE  new \in Bounded /\ (new = b \/ new.rev = b.rev + 1)
<1> USE LimitAssumption
<1>0. b \in Row /\ b.undo \in Stack /\ b.redo \in Stack /\ b.recipe \in Recipes /\ b.rev \in 0..MaxRev
  BY DEF Bounded, Row, Exists
<1>1. CASE op = "update"
  <2>1. PICK r \in Recipes : new = Updated(b, r)
    BY <1>1 DEF Results
  <2>2. CASE r = b.recipe
    BY <2>1, <2>2 DEF Updated
  <2>3. CASE r # b.recipe
    <3>1. Push(b.undo, b.recipe) \in Stack /\ Len(Push(b.undo, b.recipe)) <= HistoryLimit
      BY <1>0, PushType
    <3>2. new = [rev |-> b.rev + 1, recipe |-> r, undo |-> Push(b.undo, b.recipe), redo |-> <<>>]
      BY <2>1, <2>3 DEF Updated
    <3>3. b.rev + 1 \in -1..MaxRev
      BY <1>0, <1>1 DEF Edits
    <3>4. QED
      BY <3>1, <3>2, <3>3 DEF Bounded, Row, Stack
  <2>4. QED
    BY <2>2, <2>3
<1>2. CASE op = "undo"
  <2>1. b.undo # <<>> /\ new = Undone(b)
    BY <1>2 DEF Results
  <2>2. Top(b.undo) \in Recipes /\ Pop(b.undo) \in Stack /\ Len(Pop(b.undo)) = Len(b.undo) - 1
    BY <1>0, <2>1, PopType
  <2>3. Push(b.redo, b.recipe) \in Stack /\ Len(Push(b.redo, b.recipe)) <= HistoryLimit
    BY <1>0, PushType
  <2>4. b.rev + 1 \in -1..MaxRev
    BY <1>0, <1>2 DEF Edits
  <2>5. Len(Pop(b.undo)) <= HistoryLimit
    BY <1>0, <2>2 DEF Bounded, Stack
  <2>6. QED
    BY <2>1, <2>2, <2>3, <2>4, <2>5 DEF Bounded, Row, Undone
<1>3. CASE op = "redo"
  <2>1. b.redo # <<>> /\ new = Redone(b)
    BY <1>3 DEF Results
  <2>2. Top(b.redo) \in Recipes /\ Pop(b.redo) \in Stack /\ Len(Pop(b.redo)) = Len(b.redo) - 1
    BY <1>0, <2>1, PopType
  <2>3. Push(b.undo, b.recipe) \in Stack /\ Len(Push(b.undo, b.recipe)) <= HistoryLimit
    BY <1>0, PushType
  <2>4. b.rev + 1 \in -1..MaxRev
    BY <1>0, <1>3 DEF Edits
  <2>5. Len(Pop(b.redo)) <= HistoryLimit
    BY <1>0, <2>2 DEF Bounded, Stack
  <2>6. QED
    BY <2>1, <2>2, <2>3, <2>4, <2>5 DEF Bounded, Row, Redone
<1>4. CASE op \notin Edits
  <2>1. new = b
    BY <1>4 DEF Results, Edits
  <2>2. QED
    BY <2>1
<1>5. QED
  BY <1>1, <1>2, <1>3, <1>4 DEF Edits

LEMMA MergedType ==
    ASSUME NEW stored \in Bounded, NEW read \in Bounded, NEW new \in Bounded
    PROVE  Merged(stored, read, new) \in Bounded
<1>1. DOMAIN stored = {"rev", "recipe", "undo", "redo"}
  BY DEF Bounded, Row
<1>2. Merged(stored, read, new) \in Row
  BY <1>1 DEF Merged, Bounded, Row
<1>3. QED
  BY <1>1, <1>2 DEF Merged, Bounded

LEMMA Interval ==
    ASSUME NEW n \in Nat
    PROVE  IsFiniteSet(1..n) /\ Cardinality(1..n) = n
<1>1. 1 \in Int /\ n \in Int /\ (IF 1 > n THEN 0 ELSE n - 1 + 1) = n
  OBVIOUS
<1>2. QED
  BY <1>1, FS_Interval, Zenon

\* What is kept of the cache are previews of the cache, one for each position.
LEMMA KeptType ==
    ASSUME cache \in Seq(Entry), NEW I \in SUBSET DOMAIN cache, NEW k \in Kept(I)
    PROVE  /\ k \in Seq(Entry)
           /\ Len(k) = Cardinality(I) /\ Cardinality(I) <= Len(cache)
           /\ \A i \in DOMAIN k : \E j \in I : k[i] = cache[j]
<1>1. DOMAIN cache = 1..Len(cache) /\ Len(cache) \in Nat
  OBVIOUS
<1>2. IsFiniteSet(1..Len(cache)) /\ Cardinality(1..Len(cache)) = Len(cache)
  BY <1>1, Interval
<1>3. /\ IsFiniteSet(I) /\ Cardinality(I) <= Len(cache) /\ Cardinality(I) \in Nat
  BY <1>1, <1>2, FS_Subset, FS_CardinalityType
<1>4. PICK f \in [1..Cardinality(I) -> I] : k = [i \in 1..Cardinality(I) |-> cache[f[i]]]
  BY DEF Kept
<1>5. \A i \in 1..Cardinality(I) : f[i] \in I /\ cache[f[i]] \in Entry
  BY <1>1
<1>6. k \in [1..Cardinality(I) -> Entry] /\ \A i \in DOMAIN k : k[i] = cache[f[i]]
  BY <1>4, <1>5
<1>7. k \in Seq(Entry) /\ Len(k) = Cardinality(I)
  BY <1>3, <1>6, IsASeq, LenProperties
<1>8. QED
  BY <1>3, <1>5, <1>6, <1>7

\* To move a preview to the end leaves as many as there were.
LEMMA OthersCount ==
    ASSUME cache \in Seq(Entry), NEW i \in DOMAIN cache
    PROVE  Cardinality(DOMAIN cache \ {i}) = Len(cache) - 1
<1>1. DOMAIN cache = 1..Len(cache) /\ Len(cache) \in Nat
  OBVIOUS
<1>2. IsFiniteSet(1..Len(cache)) /\ Cardinality(1..Len(cache)) = Len(cache)
  BY <1>1, Interval
<1>3. Cardinality(1..Len(cache) \ {i})
          = IF i \in 1..Len(cache) THEN Cardinality(1..Len(cache)) - 1 ELSE Cardinality(1..Len(cache))
  BY <1>2, FS_RemoveElement, Zenon
<1>4. QED
  BY <1>1, <1>2, <1>3

\* What is not evicted are previews of the cache, within its limit.
LEMMA EvictedType ==
    ASSUME NEW s \in Seq(Entry)
    PROVE  /\ Evicted(s) \in Seq(Entry) /\ Len(Evicted(s)) <= CacheEntries
           /\ \A i \in DOMAIN Evicted(s) : \E j \in DOMAIN s : Evicted(s)[i] = s[j]
<1>1. Len(s) \in Nat /\ CacheEntries \in Nat \ {0}
  BY LimitAssumption
<1>2. CASE Len(s) <= CacheEntries
  BY <1>2 DEF Evicted
<1>3. CASE Len(s) > CacheEntries
  <2> DEFINE n == Len(s) - CacheEntries
             t == SubSeq(s, n + 1, Len(s))
  <2>1. n \in Nat /\ n <= Len(s) /\ Len(s) - n = CacheEntries
    BY <1>1, <1>3
  <2>2. /\ t \in Seq(Entry) /\ Len(t) = Len(s) - n
        /\ \A i \in 1..(Len(s) - n) : t[i] = s[n + i]
    <3> HIDE DEF n
    <3>1. QED
      BY <2>1, Suffix
  <2>3. Evicted(s) = t
    BY <1>1, <1>3 DEF Evicted
  <2>4. ASSUME NEW i \in DOMAIN t
        PROVE  n + i \in DOMAIN s /\ t[i] = s[n + i]
    <3> HIDE DEF n, t
    <3>1. QED
      BY <1>1, <2>1, <2>2
  <2>5. QED
    <3> HIDE DEF t
    <3>1. QED
      BY <2>1, <2>2, <2>3, <2>4
<1>4. QED
  BY <1>1, <1>2, <1>3

\* What a commit writes, from what its request has read.
LEMMA CommitStep ==
    ASSUME TypeInv, NEW c \in Clients, Commit(c)
    PROVE  /\ RequestOK(req[c]) /\ req[c].photo \in Photos /\ doc[req[c].photo] \in Bounded
           /\ req[c].row \in Bounded /\ Base(req[c].row) \in Bounded /\ Exists(Base(req[c].row))
           /\ \E new \in Bounded :
                 /\ new \in Results(req[c].op, Base(req[c].row))
                 /\ new = Base(req[c].row) \/ new.rev = Base(req[c].row).rev + 1
                 /\ Exists(new)
                 /\ Insert(c, new) \/ Update(c, new)
<1> DEFINE read == req[c].row
<1>1. req[c].pc = "row" /\ req[c] \in Request \cup {Idle}
  BY DEF Commit, TypeInv
<1>2. req[c] # Idle
  BY <1>1 DEF Idle
<1>3. RequestOK(req[c])
  BY <1>2 DEF TypeInv
<1>4. req[c] \in Request /\ read \in Bounded /\ req[c].photo \in Photos /\ req[c].op \in Ops
  BY <1>3 DEF RequestOK, Request
<1>5. doc[req[c].photo] \in Bounded
  BY <1>4 DEF TypeInv
<1>6. Base(read) \in Bounded /\ Exists(Base(read)) /\ Base(read).rev \in 0..MaxRev
  BY <1>4, BaseType
<1>7. req[c].op \in Edits => Base(read).rev < MaxRev
  <2>1. req[c].op \in Edits => read.rev < MaxRev
    BY <1>1, <1>3 DEF RequestOK
  <2>2. NewRow.rev = 0
    BY DEF NewRow, NoRow
  <2>3. QED
    BY <2>1, <2>2, LimitAssumption DEF Base
<1>8. PICK new \in Results(req[c].op, Base(read)) : Insert(c, new) \/ Update(c, new)
  BY DEF Commit
<1>9. new \in Bounded /\ (new = Base(read) \/ new.rev = Base(read).rev + 1)
  <2> HIDE DEF read
  <2>1. QED
    BY <1>4, <1>6, <1>7, <1>8, ResultsType
<1>10. Exists(new)
  BY <1>6, <1>9 DEF Exists
<1>11. QED
  BY <1>3, <1>4, <1>5, <1>6, <1>8, <1>9, <1>10

\* A request that ends, or goes on with a row that exists, keeps the types of requests.
LEMMA LeaveType ==
    ASSUME TypeInv, NEW c \in Clients, Leave(c)
    PROVE  /\ req' \in [Clients -> Request \cup {Idle}]
           /\ \A d \in Clients : req'[d] # Idle => RequestOK(req'[d])
BY DEF TypeInv, Leave

LEMMA ProceedType ==
    ASSUME TypeInv, NEW c \in Clients, RequestOK(req[c]),
           NEW row \in Bounded, Exists(row), Proceed(c, row)
    PROVE  /\ req' \in [Clients -> Request \cup {Idle}]
           /\ \A d \in Clients : req'[d] # Idle => RequestOK(req'[d])
<1>1. CASE req[c].op = "get"
  BY <1>1, LeaveType DEF Proceed
<1>2. CASE req[c].op # "get"
  <2> DEFINE pc == IF req[c].op = "preview" THEN "lookup" ELSE "drop"
             next == [req[c] EXCEPT !.pc = pc, !.row = row]
  <2>1. req' = [req EXCEPT ![c] = next]
    BY <1>2 DEF Proceed, TypeInv
  <2>2. next \in Request /\ next.row = row /\ next.pc = pc
    BY DEF RequestOK, Request, Bounded
  <2>3. RequestOK(next)
    BY <2>2 DEF RequestOK
  <2> HIDE DEF next
  <2>4. QED
    BY <2>1, <2>2, <2>3 DEF TypeInv
<1>3. QED
  BY <1>1, <1>2

LEMMA TypeInit == Init => TypeInv
<1>1. <<>> \in Stack /\ Len(<<>>) = 0
  BY EmptySeq DEF Stack
<1>2. NoRow \in Bounded
  BY <1>1, RecipeAssumption, LimitAssumption DEF Bounded, Row, NoRow
<1>3. <<>> \in Seq(Entry) /\ Len(<<>>) <= CacheEntries
  BY LimitAssumption, EmptySeq
<1>4. QED
  BY <1>2, <1>3 DEF Init, TypeInv

LEMMA TypeStep == TypeInv /\ [Next]_vars => TypeInv'
<1> SUFFICES ASSUME TypeInv, [Next]_vars
             PROVE  TypeInv'
  OBVIOUS
<1>1. CASE UNCHANGED vars
  BY <1>1 DEF vars, TypeInv
<1>2. CASE Restart
  BY <1>2, LimitAssumption, EmptySeq DEF Restart, TypeInv
<1>3. ASSUME NEW c \in Clients, NEW op \in Ops, NEW p \in Photos, Begin(c, op, p)
      PROVE  TypeInv'
  <2> DEFINE next == [pc |-> "row", op |-> op, photo |-> p, row |-> doc[p]]
  <2>1. doc[p] \in Bounded
    BY DEF TypeInv
  <2>2. next \in Request
    BY <2>1 DEF Request, Bounded
  <2>3. RequestOK(next)
    BY <1>3, <2>1, <2>2 DEF RequestOK, Begin
  <2>4. req' = [req EXCEPT ![c] = next]
    BY <1>3 DEF Begin
  <2> HIDE DEF next
  <2>5. QED
    BY <1>3, <2>2, <2>3, <2>4 DEF TypeInv, Begin
<1>4. ASSUME NEW c \in Clients, Commit(c)
      PROVE  TypeInv'
  <2> DEFINE p == req[c].photo
  <2>1. PICK new \in Bounded : Exists(new) /\ (Insert(c, new) \/ Update(c, new))
    BY <1>4, CommitStep
  <2>2. RequestOK(req[c]) /\ p \in Photos /\ doc[p] \in Bounded /\ req[c].row \in Bounded
    BY <1>4, CommitStep
  <2>3. Proceed(c, new)
    BY <2>1 DEF Insert, Update
  <2>4. doc' = [doc EXCEPT ![p] = new] \/ doc' = [doc EXCEPT ![p] = Merged(doc[p], req[c].row, new)]
    BY <2>1, <2>2 DEF Insert, Update, TypeInv
  <2>5. Merged(doc[p], req[c].row, new) \in Bounded
    BY <2>2, MergedType
  <2>6. doc' \in [Photos -> Bounded]
    BY <2>2, <2>4, <2>5 DEF TypeInv
  <2>7. raced' \subseteq Photos
    BY <2>1, <2>2 DEF Insert, Update, TypeInv
  <2>8. QED
    BY <1>4, <2>1, <2>2, <2>3, <2>6, <2>7, ProceedType DEF TypeInv, Commit
<1>5. ASSUME NEW c \in Clients, Fail(c)
      PROVE  TypeInv'
  BY <1>5, LeaveType DEF TypeInv, Fail
<1>6. ASSUME NEW c \in Clients, Drop(c)
      PROVE  TypeInv'
  <2>1. cache' \in Seq(Entry) /\ Len(cache') <= Len(cache)
    BY <1>6, KeptType DEF Drop, TypeInv
  <2>2. cache' \in Seq(Entry) /\ Len(cache') <= CacheEntries
    BY <2>1, LimitAssumption DEF TypeInv
  <2>3. QED
    BY <1>6, <2>2, LeaveType DEF TypeInv, Drop
<1>7. ASSUME NEW c \in Clients, Lookup(c)
      PROVE  TypeInv'
  <2>1. req[c].pc = "lookup" /\ UNCHANGED <<doc, raced>>
    BY <1>7 DEF Lookup
  <2>2. req[c] # Idle /\ RequestOK(req[c])
    BY <2>1 DEF Idle, TypeInv
  <2>3. CASE req' = [req EXCEPT ![c].pc = "render"] /\ UNCHANGED cache
    <3>1. [req[c] EXCEPT !.pc = "render"] \in Request /\ RequestOK([req[c] EXCEPT !.pc = "render"])
      BY <2>1, <2>2 DEF RequestOK, Request
    <3>2. QED
      BY <2>1, <2>3, <3>1 DEF TypeInv
  <2>4. ASSUME NEW i \in DOMAIN cache, NEW rest \in Kept(DOMAIN cache \ {i}),
               cache' = Append(rest, cache[i]), Leave(c)
        PROVE  TypeInv'
    <3>1. cache \in Seq(Entry) /\ Len(cache) \in Nat /\ cache[i] \in Entry
      BY DEF TypeInv
    <3>2. rest \in Seq(Entry) /\ Len(rest) = Len(cache) - 1
      BY <3>1, KeptType, OthersCount
    <3>3. cache' \in Seq(Entry) /\ Len(cache') = Len(cache)
      BY <3>1, <3>2, <2>4
    <3>4. QED
      BY <2>1, <2>4, <3>3, LeaveType DEF TypeInv
  <2>5. QED
    BY <1>7, <2>3, <2>4 DEF Lookup
<1>8. ASSUME NEW c \in Clients, Put(c)
      PROVE  TypeInv'
  <2>1. req[c].pc = "render"
    BY <1>8 DEF Put
  <2>2. req[c] # Idle /\ RequestOK(req[c])
    BY <2>1 DEF Idle, TypeInv
  <2>3. Rendered(c) \in Entry
    BY <2>1, <2>2 DEF RequestOK, Request, Rendered, Entry, Row, Exists
  <2>4. PICK rest \in Kept({i \in DOMAIN cache : ~SameKey(cache[i], Rendered(c))}) :
           cache' = Evicted(Append(rest, Rendered(c)))
    BY <1>8 DEF Put
  <2>5. rest \in Seq(Entry)
    BY KeptType DEF TypeInv
  <2>6. Append(rest, Rendered(c)) \in Seq(Entry)
    BY <2>3, <2>5
  <2>7. cache' \in Seq(Entry) /\ Len(cache') <= CacheEntries
    BY <2>4, <2>6, EvictedType
  <2>8. QED
    BY <1>8, <2>7, LeaveType DEF TypeInv, Put
<1>9. QED
  BY <1>1, <1>2, <1>3, <1>4, <1>5, <1>6, <1>7, <1>8 DEF Next, Client

LEMMA TypeInvariance == Spec => []TypeInv
<1>1. Init => TypeInv
  BY TypeInit
<1>2. TypeInv /\ [Next]_vars => TypeInv'
  BY TypeStep
<1>3. QED
  BY <1>1, <1>2, PTL DEF Spec

\* However requests interleave, a stack never exceeds HistoryLimit nor the cache
\* CacheEntries (_move_history, update_document, render_preview).
THEOREM TypeCorrect == Spec => []TypeOK
BY TypeInvariance, TypeInvImplies, PTL

-----------------------------------------------------------------------------
(* What a step does to the row of one photo.                               *)

LEMMA MergedUnchanged ==
    ASSUME NEW stored \in Bounded, NEW read \in Bounded
    PROVE  Merged(stored, read, read) = stored
BY DEF Merged, Bounded, Row

LEMMA MergedOwn ==
    ASSUME NEW read \in Bounded, NEW new \in Bounded
    PROVE  Merged(read, read, new) = new
BY DEF Merged, Bounded, Row

\* Only a commit changes a row, and the row of its photo alone.
LEMMA OnlyCommit ==
    ASSUME TypeInv, [Next]_vars, NEW p \in Photos, doc'[p] # doc[p]
    PROVE  \E c \in Clients : Commit(c) /\ req[c].photo = p
<1>1. PICK c \in Clients : Commit(c)
  BY DEF Next, Client, vars, Restart, Begin, Fail, Drop, Lookup, Put
<1>2. PICK new : Insert(c, new) \/ Update(c, new)
  BY <1>1 DEF Commit
<1>3. req[c].photo = p
  BY <1>2 DEF Insert, Update, TypeInv
<1>4. QED
  BY <1>1, <1>3

\* A row that a commit wrote while the photo is not raced is made of the row that
\* was there, and its revision is the next one, or 0 for a new row.
LEMMA OwnRow ==
    ASSUME TypeInv, NEW c \in Clients, Commit(c), NEW p, p = req[c].photo, p \notin raced'
    PROVE  \/ doc' = doc /\ Proceed(c, req[c].row)
           \/ /\ doc'[p] \in Results(req[c].op, Base(doc[p]))
              /\ doc' = [doc EXCEPT ![p] = doc'[p]]
              /\ doc'[p].rev > doc[p].rev /\ Exists(doc'[p])
              /\ Proceed(c, doc'[p])
<1> DEFINE read == req[c].row
<1>1. /\ p \in Photos /\ doc[p] \in Bounded /\ read \in Bounded
      /\ Base(read) \in Bounded /\ Exists(Base(read))
  BY CommitStep
<1>2. PICK new \in Bounded :
         /\ new \in Results(req[c].op, Base(read))
         /\ new = Base(read) \/ new.rev = Base(read).rev + 1
         /\ Exists(new)
         /\ Insert(c, new) \/ Update(c, new)
  BY CommitStep
<1>3. doc[p].rev \in Int /\ read.rev \in Int /\ new.rev \in Int
  BY <1>1, <1>2 DEF Bounded, Row
<1>4. CASE Insert(c, new)
  <2>1. /\ ~Exists(read) /\ ~Exists(doc[p])
        /\ doc' = [doc EXCEPT ![p] = new] /\ doc'[p] = new /\ Proceed(c, new)
    BY <1>1, <1>4 DEF Insert, TypeInv
  <2>2. Base(read) = NewRow /\ Base(doc[p]) = NewRow
    BY <2>1 DEF Base
  <2>3. new.rev > doc[p].rev
    BY <1>2, <1>3, <2>1 DEF Exists
  <2>4. QED
    BY <1>2, <2>1, <2>2, <2>3
<1>5. CASE Update(c, new)
  <2>1. Exists(read) /\ Base(read) = read
    BY <1>5 DEF Update, Base
  <2>2. doc' = [doc EXCEPT ![p] = Merged(doc[p], read, new)] /\ Proceed(c, new)
    BY <1>1, <1>5 DEF Update, TypeInv
  <2>3. CASE new = read
    BY <1>1, <2>2, <2>3, MergedUnchanged DEF TypeInv
  <2>4. CASE new # read
    <3>1. doc[p] = read
      BY <1>5, <2>4 DEF Update
    <3>2. doc' = [doc EXCEPT ![p] = new] /\ doc'[p] = new
      BY <1>1, <2>2, <3>1, MergedOwn DEF TypeInv
    <3>3. new.rev > doc[p].rev
      BY <1>2, <1>3, <2>1, <2>4, <3>1
    <3>4. QED
      BY <1>2, <2>1, <2>2, <3>1, <3>2, <3>3
  <2>5. QED
    BY <2>3, <2>4
<1>6. QED
  BY <1>2, <1>4, <1>5

LEMMA CreatedOnceStep ==
    ASSUME TypeInv, [Next]_vars, NEW p \in Photos, Exists(doc[p]), doc'[p] # doc[p]
    PROVE  doc'[p].rev > 0
<1>1. PICK c \in Clients : Commit(c) /\ req[c].photo = p
  BY OnlyCommit
<1> DEFINE read == req[c].row
<1>2. /\ p \in Photos /\ doc[p] \in Bounded /\ read \in Bounded
      /\ Base(read) \in Bounded /\ Exists(Base(read))
  BY <1>1, CommitStep
<1>3. PICK new \in Bounded :
         /\ new = Base(read) \/ new.rev = Base(read).rev + 1
         /\ Insert(c, new) \/ Update(c, new)
  BY <1>1, CommitStep
<1>4. Update(c, new)
  BY <1>1, <1>3 DEF Insert
<1>5. Exists(read) /\ Base(read) = read
  BY <1>4 DEF Update, Base
<1>6. doc'[p] = Merged(doc[p], read, new)
  BY <1>1, <1>2, <1>4 DEF Update, TypeInv
<1>7. new # read
  BY <1>2, <1>6, MergedUnchanged
<1>8. new.rev = read.rev + 1 /\ read.rev \in Int /\ read.rev >= 0
  BY <1>2, <1>3, <1>5, <1>7 DEF Exists, Bounded, Row
<1>9. doc'[p].rev = new.rev
  <2>1. "rev" \in DOMAIN doc[p]
    BY <1>2 DEF Bounded, Row
  <2>2. new["rev"] # read["rev"]
    BY <1>8
  <2>3. doc'[p]["rev"] = new["rev"]
    BY <1>6, <2>1, <2>2 DEF Merged
  <2>4. QED
    BY <2>3
<1>10. QED
  BY <1>8, <1>9

\* However many requests find no document and create one, a document that exists is
\* never put back to its first revision (get_document, _get_rows).
THEOREM NeverCreatedTwice == Spec => CreatedOnce
<1>1. TypeInv /\ [Next]_vars =>
         [\A p \in Photos : Exists(doc[p]) /\ doc'[p] # doc[p] => doc'[p].rev > 0]_vars
  BY CreatedOnceStep
<1>2. QED
  BY <1>1, TypeInvariance, PTL DEF Spec, CreatedOnce

-----------------------------------------------------------------------------
(* Previews.                                                               *)

\* A revision that was read is not ahead of the document, and is the document when it
\* is as new: of the photos no commit has raced on.
Agrees(e) ==
    /\ e.rev <= doc[e.photo].rev
    /\ e.rev = doc[e.photo].rev => e.recipe = doc[e.photo].recipe

RowAgrees(q) ==
    /\ q.row.rev <= doc[q.photo].rev
    /\ q.row.rev = doc[q.photo].rev => q.row.recipe = doc[q.photo].recipe

PreviewInv ==
    /\ \A i \in DOMAIN cache : cache[i].photo \notin raced => Agrees(cache[i])
    /\ \A c \in Clients : req[c] # Idle /\ req[c].photo \notin raced => RowAgrees(req[c])

LEMMA PreviewInvImplies == TypeInv /\ PreviewInv => PreviewMatchesRevision
<1> SUFFICES ASSUME TypeInv, PreviewInv, NEW e \in Previews, e.photo \notin raced
             PROVE  Agrees(e)
  BY DEF PreviewMatchesRevision, Agrees
<1>1. CASE e \in {cache[i] : i \in DOMAIN cache}
  BY <1>1 DEF PreviewInv
<1>2. ASSUME NEW c \in Clients, req[c].pc \in {"lookup", "render"}, e = Rendered(c)
      PROVE  Agrees(e)
  <2>1. req[c] # Idle
    BY <1>2 DEF Idle
  <2>2. e.photo = req[c].photo /\ e.rev = req[c].row.rev /\ e.recipe = req[c].row.recipe
    BY <1>2 DEF Rendered
  <2>3. RowAgrees(req[c])
    BY <2>1, <2>2 DEF PreviewInv
  <2>4. QED
    BY <2>2, <2>3 DEF RowAgrees, Agrees
<1>3. QED
  BY <1>1, <1>2 DEF Previews

\* Steps that leave the documents alone and cache no more than what was cached or
\* rendered.
LEMMA PreviewsKept ==
    ASSUME TypeInv, PreviewInv, UNCHANGED <<doc, raced>>,
           \A i \in DOMAIN cache' :
              \/ \E j \in DOMAIN cache : cache'[i] = cache[j]
              \/ \E c \in Clients : req[c] # Idle /\ cache'[i] = Rendered(c),
           \A c \in Clients : req'[c] # Idle =>
              RowAgrees(req'[c]) \/ (req[c] # Idle /\ req'[c].photo = req[c].photo
                                                  /\ req'[c].row = req[c].row)
    PROVE  PreviewInv'
<1>1. ASSUME NEW i \in DOMAIN cache', cache'[i].photo \notin raced
      PROVE  Agrees(cache'[i])
  <2>1. ASSUME NEW j \in DOMAIN cache, cache'[i] = cache[j]
        PROVE  Agrees(cache'[i])
    BY <1>1, <2>1 DEF PreviewInv
  <2>2. ASSUME NEW c \in Clients, req[c] # Idle, cache'[i] = Rendered(c)
        PROVE  Agrees(cache'[i])
    <3>1. /\ cache'[i].photo = req[c].photo
          /\ cache'[i].rev = req[c].row.rev /\ cache'[i].recipe = req[c].row.recipe
      BY <2>2 DEF Rendered
    <3>2. RowAgrees(req[c])
      BY <1>1, <2>2, <3>1 DEF PreviewInv
    <3>3. QED
      BY <3>1, <3>2 DEF RowAgrees, Agrees
  <2>3. QED
    BY <2>1, <2>2
<1>2. ASSUME NEW c \in Clients, req'[c] # Idle, req'[c].photo \notin raced
      PROVE  RowAgrees(req'[c])
  <2>1. CASE /\ req[c] # Idle /\ req'[c].photo = req[c].photo
             /\ req'[c].row = req[c].row
    <3>1. RowAgrees(req[c])
      BY <1>2, <2>1 DEF PreviewInv
    <3>2. QED
      BY <2>1, <3>1 DEF RowAgrees
  <2>2. QED
    BY <1>2, <2>1
<1>3. ASSUME NEW i \in DOMAIN cache', cache'[i].photo \notin raced'
      PROVE  Agrees(cache[i])'
  BY <1>1, <1>3 DEF Agrees
<1>4. ASSUME NEW c \in Clients, req'[c] # Idle, req'[c].photo \notin raced'
      PROVE  RowAgrees(req[c])'
  BY <1>2, <1>4 DEF RowAgrees
<1>5. QED
  BY <1>3, <1>4 DEF PreviewInv

\* A commit puts the row of its photo ahead of all that was read before.
LEMMA PreviewCommit ==
    ASSUME TypeInv, PreviewInv, NEW c \in Clients, Commit(c)
    PROVE  PreviewInv'
<1> DEFINE p == req[c].photo
<1>1. /\ RequestOK(req[c]) /\ p \in Photos /\ UNCHANGED cache /\ req[c] # Idle
  BY CommitStep DEF Commit, Idle
<1>2. PICK new \in Bounded : Insert(c, new) \/ Update(c, new)
  BY CommitStep
<1>3. /\ raced \subseteq raced'
      /\ \A q \in Photos \ {p} : doc'[q] = doc[q]
      /\ \A d \in Clients \ {c} : req'[d] = req[d]
  BY <1>1, <1>2 DEF Insert, Update, TypeInv, Proceed, Leave
<1>4. CASE p \in raced'
  <2>1. ASSUME NEW i \in DOMAIN cache, cache[i].photo \notin raced'
        PROVE  Agrees(cache[i])'
    <3>1. cache[i] \in Entry /\ cache[i].photo \in Photos \ {p}
      <4>1. cache[i] \in Entry
        BY DEF TypeInv
      <4>2. QED
        BY <1>4, <2>1, <4>1 DEF Entry
    <3>2. Agrees(cache[i])
      BY <1>3, <2>1 DEF PreviewInv
    <3>3. QED
      BY <1>1, <1>3, <3>1, <3>2 DEF Agrees
  <2>2. ASSUME NEW d \in Clients, req'[d] # Idle, req'[d].photo \notin raced'
        PROVE  RowAgrees(req[d])'
    <3>1. d # c
      <4>1. req'[c] = Idle \/ req'[c].photo = p
        BY <1>1, <1>2 DEF Insert, Update, TypeInv, Proceed, Leave, RequestOK, Request
      <4>2. QED
        BY <1>4, <2>2, <4>1
    <3>2. req'[d] = req[d] /\ RowAgrees(req[d])
      BY <1>3, <2>2, <3>1 DEF PreviewInv
    <3>3. req[d].photo \in Photos \ {p}
      BY <1>4, <2>2, <3>2 DEF TypeInv, RequestOK, Request
    <3>4. QED
      BY <1>3, <3>2, <3>3 DEF RowAgrees
  <2>3. QED
    BY <1>1, <2>1, <2>2 DEF PreviewInv
<1>5. CASE p \notin raced' /\ doc' = doc /\ Proceed(c, req[c].row)
  <2>1. raced' = raced
    BY <1>2, <1>5 DEF Insert, Update
  <2>2. req'[c] = Idle \/ (req'[c].photo = req[c].photo /\ req'[c].row = req[c].row)
    BY <1>1, <1>5 DEF TypeInv, Proceed, Leave, RequestOK, Request
  <2>3. QED
    BY <1>1, <1>3, <1>5, <2>1, <2>2, PreviewsKept
<1>6. CASE /\ p \notin raced'
           /\ doc' = [doc EXCEPT ![p] = doc'[p]]
           /\ doc'[p].rev > doc[p].rev
           /\ Proceed(c, doc'[p])
  <2>1. raced' = raced
    BY <1>2, <1>6 DEF Insert, Update
  <2>2. /\ doc[p].rev \in Int /\ doc'[p].rev \in Int
    <3>1. TypeInv'
      BY TypeStep DEF Next, Client
    <3>2. QED
      BY <1>1, <3>1 DEF TypeInv, Bounded, Row
  <2>3. ASSUME NEW i \in DOMAIN cache, cache[i].photo \notin raced
        PROVE  Agrees(cache[i])'
    <3>1. Agrees(cache[i]) /\ cache[i] \in Entry
      BY <2>3 DEF PreviewInv, TypeInv
    <3>2. CASE cache[i].photo = p
      BY <1>1, <1>6, <2>2, <3>1, <3>2 DEF Agrees, Entry
    <3>3. CASE cache[i].photo # p
      BY <1>1, <1>3, <3>1, <3>3 DEF Agrees, Entry
    <3>4. QED
      BY <3>2, <3>3
  <2>4. ASSUME NEW d \in Clients, req'[d] # Idle, req'[d].photo \notin raced
        PROVE  RowAgrees(req[d])'
    <3>1. CASE d = c
      <4>1. req'[c].photo = p /\ req'[c].row = doc'[p]
        BY <1>1, <1>6, <2>4, <3>1 DEF TypeInv, Proceed, Leave, RequestOK, Request
      <4>2. QED
        BY <2>2, <3>1, <4>1 DEF RowAgrees
    <3>2. CASE d # c
      <4>1. req'[d] = req[d] /\ RowAgrees(req[d]) /\ req[d].photo \in Photos /\ req[d].row.rev \in Int
        BY <1>3, <2>4, <3>2 DEF PreviewInv, TypeInv, RequestOK, Request, Bounded, Row
      <4>2. CASE req[d].photo = p
        BY <2>2, <1>6, <4>1, <4>2 DEF RowAgrees
      <4>3. CASE req[d].photo # p
        BY <1>3, <4>1, <4>3 DEF RowAgrees
      <4>4. QED
        BY <4>2, <4>3
    <3>3. QED
      BY <3>1, <3>2
  <2>5. QED
    BY <1>1, <2>1, <2>3, <2>4 DEF PreviewInv
<1>7. QED
  BY <1>4, <1>5, <1>6, OwnRow

LEMMA PreviewStep == TypeInv /\ PreviewInv /\ [Next]_vars => PreviewInv'
<1> SUFFICES ASSUME TypeInv, PreviewInv, [Next]_vars
             PROVE  PreviewInv'
  OBVIOUS
<1>1. CASE UNCHANGED vars
  BY <1>1 DEF vars, PreviewInv, Agrees, RowAgrees
<1>2. CASE Restart
  BY <1>2 DEF Restart, PreviewInv, Idle
<1>3. ASSUME NEW c \in Clients, NEW op \in Ops, NEW p \in Photos, Begin(c, op, p)
      PROVE  PreviewInv'
  <2>1. UNCHANGED <<doc, cache, raced>> /\ doc[p].rev \in Int
    BY <1>3 DEF Begin, TypeInv, Bounded, Row
  <2>2. ASSUME NEW d \in Clients, req'[d] # Idle
        PROVE  RowAgrees(req'[d]) \/ req'[d] = req[d]
    BY <1>3, <2>1 DEF Begin, TypeInv, RowAgrees
  <2>3. QED
    BY <2>1, <2>2, PreviewsKept
<1>4. ASSUME NEW c \in Clients, Commit(c)
      PROVE  PreviewInv'
  BY <1>4, PreviewCommit
<1>5. ASSUME NEW c \in Clients, Fail(c)
      PROVE  PreviewInv'
  <2>1. UNCHANGED <<doc, cache, raced>> /\ \A d \in Clients : req'[d] = Idle \/ req'[d] = req[d]
    BY <1>5 DEF Fail, Leave, TypeInv
  <2>2. QED
    BY <2>1, PreviewsKept
<1>6. ASSUME NEW c \in Clients, Drop(c)
      PROVE  PreviewInv'
  <2>1. UNCHANGED <<doc, raced>> /\ \A d \in Clients : req'[d] = Idle \/ req'[d] = req[d]
    BY <1>6 DEF Drop, Leave, TypeInv
  <2>2. \A i \in DOMAIN cache' : \E j \in DOMAIN cache : cache'[i] = cache[j]
    BY <1>6, KeptType DEF Drop, TypeInv
  <2>3. QED
    BY <2>1, <2>2, PreviewsKept
<1>7. ASSUME NEW c \in Clients, Lookup(c)
      PROVE  PreviewInv'
  <2>1. req[c].pc = "lookup" /\ UNCHANGED <<doc, raced>>
    BY <1>7 DEF Lookup
  <2>2. req[c] # Idle /\ RequestOK(req[c])
    BY <2>1 DEF Idle, TypeInv
  <2>3. CASE req' = [req EXCEPT ![c].pc = "render"] /\ UNCHANGED cache
    <3>1. \A d \in Clients : req'[d] # Idle =>
             req[d] # Idle /\ req'[d].photo = req[d].photo /\ req'[d].row = req[d].row
      BY <2>2, <2>3 DEF TypeInv, RequestOK, Request
    <3>2. QED
      BY <2>1, <2>3, <3>1, PreviewsKept
  <2>4. ASSUME NEW i \in DOMAIN cache, NEW rest \in Kept(DOMAIN cache \ {i}),
               cache' = Append(rest, cache[i]), Leave(c)
        PROVE  PreviewInv'
    <3>1. \A d \in Clients : req'[d] = Idle \/ req'[d] = req[d]
      BY <2>4 DEF Leave, TypeInv
    <3>2. cache \in Seq(Entry) /\ rest \in Seq(Entry)
          /\ \A k \in DOMAIN rest : \E j \in DOMAIN cache : rest[k] = cache[j]
      BY KeptType DEF TypeInv
    <3>3. \A k \in DOMAIN cache' : \E j \in DOMAIN cache : cache'[k] = cache[j]
      BY <2>4, <3>2
    <3>4. QED
      BY <2>1, <3>1, <3>3, PreviewsKept
  <2>5. QED
    BY <1>7, <2>3, <2>4 DEF Lookup
<1>8. ASSUME NEW c \in Clients, Put(c)
      PROVE  PreviewInv'
  <2>1. /\ req[c].pc = "render" /\ UNCHANGED <<doc, raced>>
        /\ \A d \in Clients : req'[d] = Idle \/ req'[d] = req[d]
    BY <1>8 DEF Put, Leave, TypeInv
  <2>2. req[c] # Idle /\ RequestOK(req[c])
    BY <2>1 DEF Idle, TypeInv
  <2>3. Rendered(c) \in Entry
    BY <2>1, <2>2 DEF RequestOK, Request, Rendered, Entry, Row, Exists
  <2>4. PICK rest \in Kept({i \in DOMAIN cache : ~SameKey(cache[i], Rendered(c))}) :
           cache' = Evicted(Append(rest, Rendered(c)))
    BY <1>8 DEF Put
  <2> DEFINE all == Append(rest, Rendered(c))
  <2>5. rest \in Seq(Entry) /\ \A k \in DOMAIN rest : \E j \in DOMAIN cache : rest[k] = cache[j]
    BY KeptType DEF TypeInv
  <2>6. all \in Seq(Entry) /\ \A k \in DOMAIN all :
           all[k] = Rendered(c) \/ \E j \in DOMAIN cache : all[k] = cache[j]
    BY <2>3, <2>5
  <2>7. \A k \in DOMAIN cache' :
           cache'[k] = Rendered(c) \/ \E j \in DOMAIN cache : cache'[k] = cache[j]
    <3>1. cache' = Evicted(all)
      BY <2>4
    <3> HIDE DEF all
    <3>2. \A k \in DOMAIN cache' : \E j \in DOMAIN all : cache'[k] = all[j]
      BY <2>6, <3>1, EvictedType
    <3>3. QED
      BY <2>6, <3>2
  <2>8. QED
    BY <2>1, <2>2, <2>7, PreviewsKept
<1>9. QED
  BY <1>1, <1>2, <1>3, <1>4, <1>5, <1>6, <1>7, <1>8 DEF Next, Client

\* A preview of the revision a document has shows the recipe it has, although previews
\* are rendered and cached after the document may have changed (render_preview,
\* _invalidate): the revision is part of the key.
THEOREM PreviewsMatch == Spec => []PreviewMatchesRevision
<1>1. Init => PreviewInv
  BY DEF Init, PreviewInv, Idle
<1>2. TypeInv /\ PreviewInv /\ [Next]_vars => PreviewInv'
  BY PreviewStep
<1>3. QED
  BY <1>1, <1>2, TypeInvariance, PreviewInvImplies, PTL DEF Spec

-----------------------------------------------------------------------------
(* The documents implement EditHistory.                                    *)

\* The stacks of a row no commit has raced on hold one history of at most HistoryLimit
\* recipes beside the current one, so that an undo or a redo forgets nothing.
Linear(row) == Len(row.undo) + Len(row.redo) <= HistoryLimit
LinearInv == \A p \in Photos : p \notin raced => Linear(doc[p])

\* A stack of what was done, a recipe, and a stack of what was undone, as one history.
Reversed(s) == [i \in DOMAIN s |-> s[Len(s) + 1 - i]]
Line(u, r, d) == u \o <<r>> \o Reversed(d)

LEMMA ConcatStacks ==
    ASSUME NEW s \in Stack, NEW t \in Stack
    PROVE  /\ s \o t \in Stack /\ Len(s \o t) = Len(s) + Len(t)
           /\ \A i \in 1..Len(s) : (s \o t)[i] = s[i]
           /\ \A i \in 1..Len(t) : (s \o t)[Len(s) + i] = t[i]
BY DEF Stack

LEMMA AppendStack ==
    ASSUME NEW s \in Stack, NEW r \in Recipes
    PROVE  /\ Append(s, r) \in Stack /\ Len(Append(s, r)) = Len(s) + 1
           /\ \A i \in 1..Len(s) : Append(s, r)[i] = s[i]
           /\ Append(s, r)[Len(s) + 1] = r
           /\ s \o <<r>> = Append(s, r)
BY DEF Stack

LEMMA ReversedType ==
    ASSUME NEW s \in Stack
    PROVE  Reversed(s) \in Stack /\ Len(Reversed(s)) = Len(s)
<1>1. DOMAIN s = 1..Len(s) /\ Len(s) \in Nat
  BY DEF Stack
<1>2. \A i \in 1..Len(s) : s[Len(s) + 1 - i] \in Recipes
  BY <1>1 DEF Stack
<1>3. Reversed(s) \in [1..Len(s) -> Recipes]
  BY <1>1, <1>2 DEF Reversed
<1>4. Reversed(s) \in Seq(Recipes)
  BY <1>1, <1>3, SeqDef
<1>5. QED
  BY <1>1, <1>3, <1>4 DEF Stack

LEMMA LineProperties ==
    ASSUME NEW u \in Stack, NEW d \in Stack, NEW r \in Recipes
    PROVE  /\ Line(u, r, d) \in Stack
           /\ Len(Line(u, r, d)) = Len(u) + 1 + Len(d)
           /\ \A i \in 1..Len(u) : Line(u, r, d)[i] = u[i]
           /\ Line(u, r, d)[Len(u) + 1] = r
           /\ \A i \in 1..Len(d) : Line(u, r, d)[Len(u) + 1 + i] = d[Len(d) + 1 - i]
<1>1. Len(u) \in Nat /\ Len(d) \in Nat /\ DOMAIN d = 1..Len(d)
  BY DEF Stack
<1>2. /\ Append(u, r) \in Stack /\ Len(Append(u, r)) = Len(u) + 1
      /\ \A i \in 1..Len(u) : Append(u, r)[i] = u[i]
      /\ Append(u, r)[Len(u) + 1] = r
  BY AppendStack
<1>3. Reversed(d) \in Stack /\ Len(Reversed(d)) = Len(d)
  BY ReversedType
<1> DEFINE s == Append(u, r)
           t == Reversed(d)
<1>4. Line(u, r, d) = s \o t
  BY AppendStack DEF Line
<1>5. s \in Stack /\ Len(s) = Len(u) + 1 /\ t \in Stack /\ Len(t) = Len(d)
  BY <1>2, <1>3
<1>6. \A i \in 1..Len(d) : t[i] = d[Len(d) + 1 - i]
  BY <1>1 DEF Reversed
<1>7. (\A i \in 1..Len(u) : s[i] = u[i]) /\ s[Len(u) + 1] = r
  BY <1>2
<1> HIDE DEF s, t
<1>8. /\ s \o t \in Stack /\ Len(s \o t) = Len(s) + Len(t)
      /\ \A i \in 1..Len(s) : (s \o t)[i] = s[i]
      /\ \A i \in 1..Len(t) : (s \o t)[Len(s) + i] = t[i]
  BY <1>5, ConcatStacks
<1>9. \A i \in 1..Len(u) : Line(u, r, d)[i] = u[i]
  BY <1>1, <1>4, <1>5, <1>7, <1>8
<1>10. Line(u, r, d)[Len(u) + 1] = r
  BY <1>1, <1>4, <1>5, <1>7, <1>8
<1>11. \A i \in 1..Len(d) : Line(u, r, d)[Len(u) + 1 + i] = d[Len(d) + 1 - i]
  BY <1>1, <1>4, <1>5, <1>6, <1>8
<1>12. QED
  BY <1>4, <1>5, <1>8, <1>9, <1>10, <1>11

LEMMA LineLength ==
    ASSUME NEW u \in Stack, NEW d \in Stack, NEW r \in Recipes
    PROVE  Len(Line(u, r, d)) = Len(u) + 1 + Len(d)
BY LineProperties

LEMMA NonEmpty ==
    ASSUME NEW s \in Stack, s # <<>>
    PROVE  Len(s) \in Nat /\ Len(s) >= 1
BY EmptySeq DEF Stack

\* To move the top of one stack past the recipe onto the other leaves the history as it is.
LEMMA MoveBack ==
    ASSUME NEW u \in Stack, NEW d \in Stack, NEW r \in Recipes, u # <<>>
    PROVE  Line(Pop(u), Top(u), Append(d, r)) = Line(u, r, d)
<1> DEFINE new == Line(Pop(u), Top(u), Append(d, r))
           old == Line(u, r, d)
<1>1. Len(u) \in Nat /\ Len(u) >= 1 /\ Len(d) \in Nat
  BY NonEmpty DEF Stack
<1>2. /\ Pop(u) \in Stack /\ Len(Pop(u)) = Len(u) - 1
      /\ Top(u) \in Recipes /\ Top(u) = u[Len(u)]
      /\ \A i \in 1..(Len(u) - 1) : Pop(u)[i] = u[i]
  BY PopType DEF Top
<1>3. /\ Append(d, r) \in Stack /\ Len(Append(d, r)) = Len(d) + 1
      /\ \A i \in 1..Len(d) : Append(d, r)[i] = d[i]
      /\ Append(d, r)[Len(d) + 1] = r
  BY AppendStack
<1>4. /\ old \in Stack
      /\ Len(old) = Len(u) + 1 + Len(d)
      /\ \A i \in 1..Len(u) : old[i] = u[i]
      /\ old[Len(u) + 1] = r
      /\ \A i \in 1..Len(d) : old[Len(u) + 1 + i] = d[Len(d) + 1 - i]
  BY LineProperties
<1>5. /\ new \in Stack
      /\ Len(new) = Len(Pop(u)) + 1 + Len(Append(d, r))
      /\ \A i \in 1..Len(Pop(u)) : new[i] = Pop(u)[i]
      /\ new[Len(Pop(u)) + 1] = Top(u)
      /\ \A i \in 1..Len(Append(d, r)) :
            new[Len(Pop(u)) + 1 + i] = Append(d, r)[Len(Append(d, r)) + 1 - i]
  BY <1>2, <1>3, LineProperties
<1> HIDE DEF new, old
<1>6. Len(new) = Len(old)
  BY <1>1, <1>2, <1>3, <1>4, <1>5
<1>7. ASSUME NEW i \in 1..Len(old)
      PROVE  new[i] = old[i]
  <2>1. CASE i \in 1..(Len(u) - 1)
    BY <1>1, <1>2, <1>4, <1>5, <2>1
  <2>2. CASE i = Len(u)
    BY <1>1, <1>2, <1>4, <1>5, <2>2
  <2>3. CASE i = Len(u) + 1
    <3>1. new[(Len(u) - 1) + 1 + 1] = Append(d, r)[Len(d) + 1 + 1 - 1]
      BY <1>1, <1>2, <1>3, <1>5
    <3>2. QED
      BY <1>1, <1>3, <1>4, <2>3, <3>1
  <2>4. ASSUME NEW k \in 1..Len(d), i = Len(u) + 1 + k
        PROVE  new[i] = old[i]
    <3>1. new[(Len(u) - 1) + 1 + (k + 1)] = Append(d, r)[Len(d) + 1 + 1 - (k + 1)]
      <4>1. k + 1 \in 1..Len(Append(d, r))
        BY <1>1, <1>3
      <4>2. QED
        BY <1>2, <1>3, <1>5, <4>1
    <3>2. old[Len(u) + 1 + k] = d[Len(d) + 1 - k] /\ Len(d) + 1 - k \in 1..Len(d)
      BY <1>1, <1>4
    <3>3. (Len(u) - 1) + 1 + (k + 1) = i /\ Len(d) + 1 + 1 - (k + 1) = Len(d) + 1 - k
      BY <1>1, <2>4
    <3>4. QED
      BY <1>3, <2>4, <3>1, <3>2, <3>3
  <2>5. i \in 1..(Len(u) - 1) \/ i = Len(u) \/ i = Len(u) + 1
        \/ (i - (Len(u) + 1) \in 1..Len(d) /\ i = Len(u) + 1 + (i - (Len(u) + 1)))
    BY <1>1, <1>4
  <2>6. QED
    BY <2>1, <2>2, <2>3, <2>4, <2>5
<1>8. QED
  BY <1>4, <1>5, <1>6, <1>7, SeqEqual DEF Stack, new, old

LEMMA MoveForward ==
    ASSUME NEW u \in Stack, NEW d \in Stack, NEW r \in Recipes, d # <<>>
    PROVE  Line(Append(u, r), Top(d), Pop(d)) = Line(u, r, d)
<1>1. Len(u) \in Nat /\ Len(d) \in Nat /\ Len(d) >= 1
  BY NonEmpty DEF Stack
<1>2. /\ Pop(d) \in Stack /\ Len(Pop(d)) = Len(d) - 1
      /\ Top(d) \in Recipes /\ Top(d) = d[Len(d)]
      /\ \A i \in 1..(Len(d) - 1) : Pop(d)[i] = d[i]
  BY PopType DEF Top
<1>3. /\ Append(u, r) \in Stack /\ Len(Append(u, r)) = Len(u) + 1
      /\ \A i \in 1..Len(u) : Append(u, r)[i] = u[i]
      /\ Append(u, r)[Len(u) + 1] = r
  BY AppendStack
<1>4. Append(u, r) # <<>>
  BY <1>1, <1>3, EmptySeq
<1>5. Top(Append(u, r)) = r
  BY <1>3 DEF Top
<1>6. Pop(Append(u, r)) = u
  <2>1. /\ Pop(Append(u, r)) \in Stack /\ Len(Pop(Append(u, r))) = Len(u)
        /\ \A i \in 1..Len(u) : Pop(Append(u, r))[i] = u[i]
    <3> DEFINE a == Append(u, r)
    <3>1. a \in Stack /\ a # <<>> /\ Len(a) = Len(u) + 1 /\ \A i \in 1..Len(u) : a[i] = u[i]
      BY <1>3, <1>4
    <3> HIDE DEF a
    <3>2. /\ Pop(a) \in Stack /\ Len(Pop(a)) = Len(a) - 1
          /\ \A i \in 1..(Len(a) - 1) : Pop(a)[i] = a[i]
      BY <3>1, PopType
    <3>3. Pop(a) \in Stack /\ Len(Pop(a)) = Len(u) /\ \A i \in 1..Len(u) : Pop(a)[i] = u[i]
      BY <1>1, <3>1, <3>2
    <3>4. QED
      BY <3>3 DEF a
  <2>2. QED
    BY <2>1, SeqEqual DEF Stack
<1>7. Append(Pop(d), Top(d)) = d
  <2>1. /\ Append(Pop(d), Top(d)) \in Stack
        /\ Len(Append(Pop(d), Top(d))) = Len(d)
        /\ \A i \in 1..(Len(d) - 1) : Append(Pop(d), Top(d))[i] = d[i]
        /\ Append(Pop(d), Top(d))[Len(d)] = d[Len(d)]
    BY <1>1, <1>2, AppendStack
  <2>2. \A i \in 1..Len(d) : i \in 1..(Len(d) - 1) \/ i = Len(d)
    BY <1>1
  <2>3. QED
    BY <2>1, <2>2, SeqEqual DEF Stack
<1>8. Line(Pop(Append(u, r)), Top(Append(u, r)), Append(Pop(d), Top(d)))
        = Line(Append(u, r), Top(d), Pop(d))
  BY <1>2, <1>3, <1>4, MoveBack
<1>9. QED
  BY <1>5, <1>6, <1>7, <1>8

\* The history up to the current recipe.
LEMMA LineCut ==
    ASSUME NEW u \in Stack, NEW d \in Stack, NEW r \in Recipes
    PROVE  /\ Line(u, r, d) # <<>>
           /\ Line(u, r, d)[Len(u) + 1] = r
           /\ SubSeq(Line(u, r, d), 1, Len(u) + 1) = Append(u, r)
<1> DEFINE h == Line(u, r, d)
           n == Len(u) + 1
<1>1. /\ h \in Stack /\ Len(h) = Len(u) + 1 + Len(d)
      /\ \A i \in 1..Len(u) : h[i] = u[i]
      /\ h[Len(u) + 1] = r
  BY LineProperties
<1>2. Len(u) \in Nat /\ Len(d) \in Nat
  BY DEF Stack
<1> HIDE DEF h
<1>3. /\ n \in Nat /\ n <= Len(h) /\ Len(h) # 0
      /\ \A i \in 1..n : i \in 1..Len(u) \/ i = n
  BY <1>1, <1>2
<1>4. /\ Append(u, r) \in Seq(Recipes) /\ Len(Append(u, r)) = n
      /\ \A i \in 1..Len(u) : Append(u, r)[i] = u[i]
      /\ Append(u, r)[n] = r
  BY AppendStack DEF Stack
<1>5. /\ SubSeq(h, 1, n) \in Seq(Recipes) /\ Len(SubSeq(h, 1, n)) = n
      /\ \A i \in 1..n : SubSeq(h, 1, n)[i] = h[i]
  <2> HIDE DEF n
  <2>1. QED
    BY <1>1, <1>3, Prefix DEF Stack
<1>6. \A i \in 1..n : SubSeq(h, 1, n)[i] = Append(u, r)[i]
  BY <1>1, <1>3, <1>4, <1>5
<1>7. SubSeq(h, 1, n) = Append(u, r)
  BY <1>4, <1>5, <1>6, SeqEqual
<1>8. QED
  BY <1>1, <1>3, <1>7, EmptySeq DEF h

LEMMA RowHistory ==
    ASSUME NEW row \in Bounded, Exists(row)
    PROVE  /\ History(row) = Line(row.undo, row.recipe, row.redo)
           /\ Position(row) = Len(row.undo) + 1
           /\ row.undo \in Stack /\ row.redo \in Stack /\ row.recipe \in Recipes
           /\ Len(row.undo) \in Nat /\ Len(row.redo) \in Nat /\ row.rev \in Nat
BY DEF History, Position, Line, Reversed, Bounded, Row, Exists, Stack

\* A stack to which a recipe is pushed while it has room.
LEMMA PushRoom ==
    ASSUME NEW s \in Stack, NEW r \in Recipes, Len(s) < HistoryLimit
    PROVE  Push(s, r) = Append(s, r)
BY LimitAssumption DEF Push, Newest, Stack

LEMMA UndoneHistory ==
    ASSUME NEW b \in Bounded, Exists(b), Linear(b), b.undo # <<>>, Undone(b) \in Bounded
    PROVE  /\ Linear(Undone(b)) /\ Exists(Undone(b))
           /\ History(Undone(b)) = History(b)
           /\ Position(b) > 1 /\ Position(Undone(b)) = Position(b) - 1
<1>1. /\ b.undo \in Stack /\ b.redo \in Stack /\ b.recipe \in Recipes
      /\ Len(b.undo) \in Nat /\ Len(b.redo) \in Nat /\ b.rev \in Nat
      /\ History(b) = Line(b.undo, b.recipe, b.redo) /\ Position(b) = Len(b.undo) + 1
  BY RowHistory
<1> DEFINE m == Len(b.undo)
           n == Len(b.redo)
<1>2. m \in Nat /\ n \in Nat /\ m >= 1 /\ m + n <= HistoryLimit
  BY <1>1, NonEmpty DEF Linear
<1>3. Len(b.redo) < HistoryLimit
  <2>1. n < HistoryLimit
    <3> HIDE DEF m, n
    <3>1. QED
      BY <1>2, LimitAssumption
  <2>2. QED
    BY <2>1
<1>4. Push(b.redo, b.recipe) = Append(b.redo, b.recipe)
  BY <1>1, <1>3, PushRoom
<1>5. Len(Pop(b.undo)) = Len(b.undo) - 1 /\ Len(Append(b.redo, b.recipe)) = Len(b.redo) + 1
  BY <1>1, PopType, AppendStack
<1>6. /\ Undone(b).rev = b.rev + 1 /\ Undone(b).recipe = Top(b.undo)
      /\ Undone(b).undo = Pop(b.undo) /\ Undone(b).redo = Append(b.redo, b.recipe)
  BY <1>4 DEF Undone
<1>7. Exists(Undone(b))
  BY <1>1, <1>6 DEF Exists
<1>8. Linear(Undone(b))
  <2>1. Len(Undone(b).undo) = m - 1 /\ Len(Undone(b).redo) = n + 1
    BY <1>5, <1>6
  <2>2. (m - 1) + (n + 1) <= HistoryLimit
    <3> HIDE DEF m, n
    <3>1. QED
      BY <1>2
  <2>3. QED
    BY <2>1, <2>2 DEF Linear
<1>9. History(Undone(b)) = Line(Pop(b.undo), Top(b.undo), Append(b.redo, b.recipe))
      /\ Position(Undone(b)) = (m - 1) + 1
  BY <1>5, <1>6, <1>7, RowHistory
<1>10. Position(b) = m + 1 /\ History(Undone(b)) = History(b)
  BY <1>1, <1>9, MoveBack
<1>11. m + 1 > 1 /\ (m - 1) + 1 = (m + 1) - 1
  <2> HIDE DEF m, n
  <2>1. QED
    BY <1>2
<1>12. QED
  BY <1>7, <1>8, <1>9, <1>10, <1>11

LEMMA RedoneHistory ==
    ASSUME NEW b \in Bounded, Exists(b), Linear(b), b.redo # <<>>, Redone(b) \in Bounded
    PROVE  /\ Linear(Redone(b)) /\ Exists(Redone(b))
           /\ History(Redone(b)) = History(b)
           /\ Position(b) < Len(History(b)) /\ Position(Redone(b)) = Position(b) + 1
<1>1. /\ b.undo \in Stack /\ b.redo \in Stack /\ b.recipe \in Recipes
      /\ Len(b.undo) \in Nat /\ Len(b.redo) \in Nat /\ b.rev \in Nat
      /\ History(b) = Line(b.undo, b.recipe, b.redo) /\ Position(b) = Len(b.undo) + 1
  BY RowHistory
<1> DEFINE m == Len(b.undo)
           n == Len(b.redo)
<1>2. m \in Nat /\ n \in Nat /\ n >= 1 /\ m + n <= HistoryLimit
  BY <1>1, NonEmpty DEF Linear
<1>3. Len(b.undo) < HistoryLimit
  <2>1. m < HistoryLimit
    <3> HIDE DEF m, n
    <3>1. QED
      BY <1>2, LimitAssumption
  <2>2. QED
    BY <2>1
<1>4. Push(b.undo, b.recipe) = Append(b.undo, b.recipe)
  BY <1>1, <1>3, PushRoom
<1>5. Len(Pop(b.redo)) = Len(b.redo) - 1 /\ Len(Append(b.undo, b.recipe)) = Len(b.undo) + 1
  BY <1>1, PopType, AppendStack
<1>6. /\ Redone(b).rev = b.rev + 1 /\ Redone(b).recipe = Top(b.redo)
      /\ Redone(b).undo = Append(b.undo, b.recipe) /\ Redone(b).redo = Pop(b.redo)
  BY <1>4 DEF Redone
<1>7. Exists(Redone(b))
  BY <1>1, <1>6 DEF Exists
<1>8. Linear(Redone(b))
  <2>1. Len(Redone(b).undo) = m + 1 /\ Len(Redone(b).redo) = n - 1
    BY <1>5, <1>6
  <2>2. (m + 1) + (n - 1) <= HistoryLimit
    <3> HIDE DEF m, n
    <3>1. QED
      BY <1>2
  <2>3. QED
    BY <2>1, <2>2 DEF Linear
<1>9. History(Redone(b)) = Line(Append(b.undo, b.recipe), Top(b.redo), Pop(b.redo))
      /\ Position(Redone(b)) = (m + 1) + 1
  BY <1>5, <1>6, <1>7, RowHistory
<1>10. Position(b) = m + 1 /\ History(Redone(b)) = History(b)
  BY <1>1, <1>9, MoveForward
<1>11. Len(History(b)) = m + 1 + n
  <2>1. Len(Line(b.undo, b.recipe, b.redo)) = Len(b.undo) + 1 + Len(b.redo)
    <3>1. b.undo \in Stack /\ b.redo \in Stack /\ b.recipe \in Recipes
      BY <1>1
    <3>2. QED
      BY <3>1, LineLength, Zenon
  <2>2. QED
    BY <1>1, <2>1
<1>12. m + 1 < m + 1 + n
  <2> HIDE DEF m, n
  <2>1. QED
    BY <1>2
<1>13. QED
  BY <1>7, <1>8, <1>9, <1>10, <1>11, <1>12

\* EditHistory cuts the history at the current position and keeps the newest; an update
\* does so with the stack of what was done.
LEMMA UpdatedHistory ==
    ASSUME NEW b \in Bounded, Exists(b), NEW r \in Recipes, r # b.recipe,
           Updated(b, r) \in Bounded
    PROVE  /\ Linear(Updated(b, r)) /\ Exists(Updated(b, r))
           /\ History(b) # <<>> /\ r # History(b)[Position(b)]
           /\ History(Updated(b, r)) = Append(Push(b.undo, b.recipe), r)
           /\ SubSeq(History(b), 1, Position(b)) = Append(b.undo, b.recipe)
           /\ Position(Updated(b, r)) = Len(History(Updated(b, r)))
<1> DEFINE new == Updated(b, r)
<1>1. /\ b.undo \in Stack /\ b.redo \in Stack /\ b.recipe \in Recipes
      /\ Len(b.undo) \in Nat /\ Len(b.redo) \in Nat /\ b.rev \in Nat
      /\ History(b) = Line(b.undo, b.recipe, b.redo) /\ Position(b) = Len(b.undo) + 1
  BY RowHistory
<1>2. new.rev = b.rev + 1 /\ new.recipe = r /\ new.undo = Push(b.undo, b.recipe) /\ new.redo = <<>>
  BY DEF Updated
<1>3. Exists(new)
  BY <1>1, <1>2 DEF Exists
<1>4. Push(b.undo, b.recipe) \in Stack /\ Len(Push(b.undo, b.recipe)) <= HistoryLimit
  BY <1>1, PushType
<1>5. Len(Push(b.undo, b.recipe)) \in Nat
  BY <1>4 DEF Stack
<1>6. Linear(new)
  <2>1. Len(new.undo) = Len(Push(b.undo, b.recipe)) /\ Len(new.redo) = 0
    BY <1>2, EmptySeq
  <2>2. QED
    BY <1>4, <1>5, <2>1, LimitAssumption DEF Linear
<1>7. /\ History(new) = Line(Push(b.undo, b.recipe), r, <<>>)
      /\ Position(new) = Len(Push(b.undo, b.recipe)) + 1
  BY <1>2, <1>3, RowHistory
<1>8. ASSUME NEW s \in Stack
      PROVE  Line(s, r, <<>>) = Append(s, r)
  <2>1. Reversed(<<>>) = <<>>
    BY EmptySeq, ReversedType DEF Stack
  <2>2. Append(s, r) \o <<>> = Append(s, r)
    BY AppendStack DEF Stack
  <2>3. QED
    BY <2>1, <2>2, AppendStack DEF Line
<1>9. History(new) = Append(Push(b.undo, b.recipe), r)
      /\ Len(History(new)) = Len(Push(b.undo, b.recipe)) + 1
  BY <1>4, <1>7, <1>8, AppendStack
<1>10. /\ History(b) # <<>>
       /\ History(b)[Position(b)] = b.recipe
       /\ SubSeq(History(b), 1, Position(b)) = Append(b.undo, b.recipe)
  <2>1. b.undo \in Stack /\ b.redo \in Stack /\ b.recipe \in Recipes
    BY <1>1
  <2>2. /\ Line(b.undo, b.recipe, b.redo) # <<>>
        /\ Line(b.undo, b.recipe, b.redo)[Len(b.undo) + 1] = b.recipe
        /\ SubSeq(Line(b.undo, b.recipe, b.redo), 1, Len(b.undo) + 1) = Append(b.undo, b.recipe)
    BY <2>1, LineCut, Zenon
  <2>3. QED
    BY <1>1, <2>2
<1>11. QED
  BY <1>3, <1>6, <1>7, <1>9, <1>10

LEMMA Pair ==
    ASSUME NEW d \in Recipes, NEW r \in Recipes
    PROVE  Append(<<d>>, r) = <<d, r>> /\ Len(<<d, r>>) = 2
<1>1. <<d>> \in Seq(Recipes) /\ <<d, r>> \in Seq(Recipes) /\ Len(<<d>>) = 1 /\ Len(<<d, r>>) = 2
  OBVIOUS
<1>2. <<d>>[1] = d /\ <<d, r>>[1] = d /\ <<d, r>>[2] = r
  OBVIOUS
<1>3. /\ Append(<<d>>, r) \in Seq(Recipes) /\ Len(Append(<<d>>, r)) = 2
      /\ Append(<<d>>, r)[1] = d /\ Append(<<d>>, r)[2] = r
  BY <1>1, <1>2, AppendProperties
<1>4. \A i \in 1..2 : i = 1 \/ i = 2
  OBVIOUS
<1>5. \A i \in 1..2 : Append(<<d>>, r)[i] = <<d, r>>[i]
  BY <1>2, <1>3, <1>4
<1>6. QED
  BY <1>1, <1>3, <1>5, SeqEqual

\* The first edit of a photo that has no row.
LEMMA NewRowHistory ==
    /\ NewRow \in Bounded /\ Linear(NewRow) /\ Exists(NewRow)
    /\ NewRow.recipe = DefaultRecipe /\ NewRow.undo = <<>> /\ NewRow.redo = <<>>
    /\ History(NewRow) = <<DefaultRecipe>> /\ Position(NewRow) = 1
    /\ Push(NewRow.undo, DefaultRecipe) = <<DefaultRecipe>>
<1>1. NewRow.rev = 0 /\ NewRow.recipe = DefaultRecipe /\ NewRow.undo = <<>> /\ NewRow.redo = <<>>
  BY DEF NewRow, NoRow
<1>2. <<>> \in Stack /\ Len(<<>>) = 0
  BY EmptySeq DEF Stack
<1>3. NewRow \in Bounded
  BY <1>2, RecipeAssumption, LimitAssumption DEF Bounded, Row, NewRow, NoRow
<1>4. Linear(NewRow) /\ Exists(NewRow)
  BY <1>1, <1>2, LimitAssumption DEF Linear, Exists
<1>5. Reversed(<<>>) = <<>>
  BY <1>2, ReversedType, EmptySeq DEF Stack
<1>6. History(NewRow) = <<DefaultRecipe>> /\ Position(NewRow) = 1
  <2>1. History(NewRow) = Line(<<>>, DefaultRecipe, <<>>) /\ Position(NewRow) = 1
    BY <1>1, <1>2, <1>3, <1>4, RowHistory
  <2>2. <<>> \o <<DefaultRecipe>> \o <<>> = <<DefaultRecipe>>
    BY RecipeAssumption
  <2>3. QED
    BY <1>5, <2>1, <2>2 DEF Line
<1>7. Push(NewRow.undo, DefaultRecipe) = <<DefaultRecipe>>
  <2>1. Len(<<>>) < HistoryLimit
    BY <1>2, LimitAssumption
  <2>2. Push(<<>>, DefaultRecipe) = Append(<<>>, DefaultRecipe)
    BY <1>2, <2>1, RecipeAssumption, PushRoom
  <2>3. QED
    BY <1>1, <2>2
<1>8. QED
  BY <1>1, <1>3, <1>4, <1>6, <1>7

\* What a commit of the row it has read makes of the history.
LEMMA ResultsHistory ==
    ASSUME NEW b \in Bounded, Exists(b), Linear(b), NEW op \in Ops,
           NEW new \in Results(op, b), new \in Bounded
    PROVE  /\ Linear(new) /\ Exists(new)
           /\ \/ new = b
              \/ \E r \in Recipes : r # b.recipe /\ new = Updated(b, r)
              \/ b.undo # <<>> /\ new = Undone(b)
              \/ b.redo # <<>> /\ new = Redone(b)
<1>1. \/ new = b
      \/ \E r \in Recipes : r # b.recipe /\ new = Updated(b, r)
      \/ b.undo # <<>> /\ new = Undone(b)
      \/ b.redo # <<>> /\ new = Redone(b)
  <2>1. CASE op = "update"
    BY <2>1 DEF Results, Updated
  <2>2. CASE op \in {"undo", "redo"}
    BY <2>2 DEF Results
  <2>3. CASE op \notin {"update", "undo", "redo"}
    BY <2>3 DEF Results
  <2>4. QED
    BY <2>1, <2>2, <2>3
<1>2. Linear(new) /\ Exists(new)
  BY <1>1, UpdatedHistory, UndoneHistory, RedoneHistory
<1>3. QED
  BY <1>1, <1>2

LEMMA LinearStep == TypeInv /\ LinearInv /\ [Next]_vars => LinearInv'
<1> SUFFICES ASSUME TypeInv, LinearInv, [Next]_vars, NEW p \in Photos, p \notin raced'
             PROVE  Linear(doc'[p])
  BY DEF LinearInv, Linear
<1>1. raced \subseteq raced'
  BY DEF Next, Client, vars, Restart, Begin, Commit, Insert, Update, Fail, Drop, Lookup, Put
<1>2. CASE doc'[p] = doc[p]
  BY <1>1, <1>2 DEF LinearInv
<1>3. CASE doc'[p] # doc[p]
  <2>1. PICK c \in Clients : Commit(c) /\ req[c].photo = p
    BY <1>3, OnlyCommit
  <2>2. doc'[p] \in Results(req[c].op, Base(doc[p]))
    BY <1>3, <2>1, OwnRow
  <2>3. doc[p] \in Bounded /\ req[c].op \in Ops /\ doc'[p] \in Bounded
    BY <2>1, CommitStep, TypeStep DEF RequestOK, Request, TypeInv
  <2>4. Base(doc[p]) \in Bounded /\ Exists(Base(doc[p]))
    BY <2>3, BaseType
  <2>5. Linear(Base(doc[p]))
    BY <1>1, NewRowHistory DEF LinearInv, Base
  <2>6. QED
    BY <2>2, <2>3, <2>4, <2>5, ResultsHistory
<1>4. QED
  BY <1>2, <1>3

LEMMA LinearInit == Init => LinearInv
<1>1. Len(<<>>) = 0
  BY EmptySeq
<1>2. QED
  BY <1>1, LimitAssumption DEF Init, LinearInv, Linear, NoRow

\* Every step of the documents is a step of EditHistory on the history of each photo no
\* commit has raced on, or leaves it alone.
LEMMA HistoryStep ==
    ASSUME TypeInv, LinearInv, [Next]_vars, NEW p \in Photos, p \notin raced'
    PROVE  H(p)!Next \/ H(p)!Stutter
<1> DEFINE b == Base(doc[p])
<1>1. CASE doc'[p] = doc[p]
  BY <1>1 DEF H!Stutter, History, Position
<1>2. CASE doc'[p] # doc[p]
  <2>1. PICK c \in Clients : Commit(c) /\ req[c].photo = p
    BY <1>2, OnlyCommit
  <2>2. doc'[p] \in Results(req[c].op, b)
    BY <1>2, <2>1, OwnRow
  <2>3. doc[p] \in Bounded /\ req[c].op \in Ops /\ doc'[p] \in Bounded
    BY <2>1, CommitStep, TypeStep DEF RequestOK, Request, TypeInv
  <2>4. raced \subseteq raced'
    BY DEF Next, Client, vars, Restart, Begin, Commit, Insert, Update, Fail, Drop, Lookup, Put
  <2>5. b \in Bounded /\ Exists(b) /\ Linear(b)
    BY <2>3, <2>4, BaseType, NewRowHistory DEF LinearInv, Base
  <2> HIDE DEF b
  <2>6. /\ Exists(doc'[p])
        /\ \/ doc'[p] = b
           \/ \E r \in Recipes : r # b.recipe /\ doc'[p] = Updated(b, r)
           \/ b.undo # <<>> /\ doc'[p] = Undone(b)
           \/ b.redo # <<>> /\ doc'[p] = Redone(b)
    BY <2>2, <2>3, <2>5, ResultsHistory
  <2>7. CASE ~Exists(doc[p])
    <3>1. b = NewRow /\ History(doc[p]) = <<>>
      BY <2>7 DEF b, Base, History
    <3>2. CASE doc'[p] = NewRow
      <4>1. H(p)!Create
        BY <3>1, <3>2, NewRowHistory DEF H!Create
      <4>2. QED
        BY <4>1 DEF H!Next
    <3>3. ASSUME NEW r \in Recipes, r # DefaultRecipe, doc'[p] = Updated(NewRow, r)
          PROVE  H(p)!CreateAndEdit(r)
      <4>1. /\ History(doc'[p]) = Append(<<DefaultRecipe>>, r)
            /\ Position(doc'[p]) = Len(History(doc'[p]))
        BY <2>3, <3>3, NewRowHistory, UpdatedHistory
      <4>2. Append(<<DefaultRecipe>>, r) = <<DefaultRecipe, r>> /\ Len(<<DefaultRecipe, r>>) = 2
        BY RecipeAssumption, Pair
      <4>3. QED
        BY <3>1, <3>3, <4>1, <4>2 DEF H!CreateAndEdit
    <3>4. QED
      BY <2>6, <3>1, <3>2, <3>3, NewRowHistory DEF H!Next
  <2>8. CASE Exists(doc[p])
    <3>1. b = doc[p]
      BY <2>8 DEF b, Base
    <3>2. ASSUME NEW r \in Recipes, r # b.recipe, doc'[p] = Updated(b, r)
          PROVE  H(p)!Edit(r)
      <4>1. /\ History(b) # <<>> /\ r # History(b)[Position(b)]
            /\ History(doc'[p]) = Append(Push(b.undo, b.recipe), r)
            /\ SubSeq(History(b), 1, Position(b)) = Append(b.undo, b.recipe)
            /\ Position(doc'[p]) = Len(History(doc'[p]))
        BY <2>3, <2>5, <3>2, UpdatedHistory
      <4>2. H(p)!Newest(Append(b.undo, b.recipe), HistoryLimit) = Push(b.undo, b.recipe)
        BY DEF H!Newest, Push, Newest
      <4>3. QED
        BY <3>1, <4>1, <4>2 DEF H!Edit
    <3>3. CASE b.undo # <<>> /\ doc'[p] = Undone(b)
      <4>1. /\ History(doc'[p]) = History(b)
            /\ Position(b) > 1 /\ Position(doc'[p]) = Position(b) - 1
        BY <2>3, <2>5, <3>3, UndoneHistory
      <4>2. H(p)!Undo
        BY <3>1, <4>1 DEF H!Undo
      <4>3. QED
        BY <4>2 DEF H!Next
    <3>4. CASE b.redo # <<>> /\ doc'[p] = Redone(b)
      <4>1. /\ History(doc'[p]) = History(b)
            /\ Position(b) < Len(History(b)) /\ Position(doc'[p]) = Position(b) + 1
        BY <2>3, <2>5, <3>4, RedoneHistory
      <4>2. H(p)!Redo
        BY <3>1, <4>1 DEF H!Redo
      <4>3. QED
        BY <4>2 DEF H!Next
    <3>5. QED
      BY <1>2, <2>6, <3>1, <3>2, <3>3, <3>4 DEF H!Next
  <2>9. QED
    BY <2>7, <2>8
<1>3. QED
  BY <1>1, <1>2

\* The two stacks, the recipe and the truncation of a document implement the linear
\* history of EditHistory (update_document, undo, redo, _move_history), step by step, as
\* long as no commit wrote over a row it had not read.
THEOREM ImplementsHistory == Spec => LinearHistory
<1>1. TypeInv /\ LinearInv /\ [Next]_vars
        => [\A p \in Photos : p \in raced' \/ H(p)!Next \/ H(p)!Stutter]_vars
  BY HistoryStep
<1>2. QED
  BY <1>1, LinearInit, LinearStep, TypeInvariance, PTL DEF Spec, LinearHistory

\* A document begins as EditHistory begins: with no recipe.
LEMMA HistoryBegins == Spec => \A p \in Photos : H(p)!Init
BY DEF Spec, Init, H!Init, History, Position, Exists, NoRow

==============================================================================
