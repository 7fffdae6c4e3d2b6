--------------------------- MODULE GroupingProofs ---------------------------
(***************************************************************************)
(* What the operators of Grouping compute, for photos of every kind and    *)
(* number: the order of InOrder, the groups of Grouped as the chains of    *)
(* matches, sessions and clusters as chains, chunks that find every close  *)
(* hash, scores and representatives. Induction on the number of turns of a *)
(* loop is the lemma NatInduct, about a set of numbers.                    *)
(***************************************************************************)
EXTENDS Grouping, FiniteSetTheorems, WellFoundedInduction, NaturalsInduction, TLAPS

\* A set of numbers that contains 0 and each successor of its members contains all.
LEMMA NatInduct ==
    ASSUME NEW S, 0 \in S, \A n \in Nat : n \in S => n + 1 \in S
    PROVE  Nat \subseteq S
<1> DEFINE T == Nat \ S
<1> SUFFICES ASSUME T # {} PROVE FALSE
  OBVIOUS
<1>1. IsWellFoundedOn(OpToRel(<, Nat), Nat)
  BY NatLessThanWellFounded
<1>2. PICK x \in T : \A y \in T : ~(<<y, x>> \in OpToRel(<, Nat))
  BY <1>1, WFMin
<1>3. \A y \in T : ~(y < x)
  BY <1>2 DEF OpToRel
<1>4. x # 0 /\ x - 1 \in Nat
  OBVIOUS
<1>5. x - 1 \in S
  BY <1>3, <1>4
<1>6. QED
  BY <1>4, <1>5

-----------------------------------------------------------------------------
(* Orders.                                                                 *)

\* A strict total order of the members of S.
Orders(before, S) ==
    /\ \A p \in S : <<p, p>> \notin before
    /\ \A p, q \in S : p = q \/ <<p, q>> \in before \/ <<q, p>> \in before
    /\ \A p, q, r \in S : <<p, q>> \in before /\ <<q, r>> \in before => <<p, r>> \in before

LastIn(S, before) == {m \in S : \A p \in S \ {m} : <<p, m>> \in before}

\* A finite set that is not empty has a last member.
LEMMA LastExists ==
    ASSUME NEW before, NEW S, IsFiniteSet(S), S # {}, Orders(before, S)
    PROVE  LastIn(S, before) # {}
<1> DEFINE Good == {n \in Nat : \A T \in SUBSET S :
                       IsFiniteSet(T) /\ Cardinality(T) = n + 1 => LastIn(T, before) # {}}
<1>1. 0 \in Good
  <2> SUFFICES ASSUME NEW T \in SUBSET S, IsFiniteSet(T), Cardinality(T) = 1
               PROVE  LastIn(T, before) # {}
    OBVIOUS
  <2>1. PICK x : T = {x}
    BY FS_Singleton
  <2>2. x \in LastIn(T, before)
    BY <2>1 DEF LastIn
  <2> QED BY <2>2
<1>2. ASSUME NEW n \in Nat, n \in Good PROVE n + 1 \in Good
  <2> SUFFICES ASSUME NEW T \in SUBSET S, IsFiniteSet(T), Cardinality(T) = n + 2
               PROVE  LastIn(T, before) # {}
    OBVIOUS
  <2>1. PICK x : x \in T
    BY FS_EmptySet
  <2>2. IsFiniteSet(T \ {x}) /\ Cardinality(T \ {x}) = n + 1 /\ T \ {x} \in SUBSET S
    BY <2>1, FS_RemoveElement
  <2>3. PICK m : m \in LastIn(T \ {x}, before)
    BY <1>2, <2>2
  <2>4. m \in T \ {x} /\ \A p \in (T \ {x}) \ {m} : <<p, m>> \in before
    BY <2>3 DEF LastIn
  <2>5. CASE <<x, m>> \in before
    <3>1. m \in LastIn(T, before)
      BY <2>4, <2>5 DEF LastIn
    <3> QED BY <3>1
  <2>6. CASE <<m, x>> \in before
    <3>1. \A p \in T \ {x} : <<p, x>> \in before
      BY <2>1, <2>4, <2>6 DEF Orders
    <3>2. x \in LastIn(T, before)
      BY <2>1, <3>1 DEF LastIn
    <3> QED BY <3>2
  <2> QED BY <2>1, <2>4, <2>5, <2>6 DEF Orders
<1>3. Nat \subseteq Good
  <2> HIDE DEF Good
  <2> QED BY <1>1, <1>2, NatInduct
<1>4. Cardinality(S) \in Nat /\ Cardinality(S) # 0
  BY FS_CardinalityType, FS_EmptySet
<1>5. Cardinality(S) - 1 \in Good
  BY <1>3, <1>4
<1> QED BY <1>4, <1>5

Sorted(s, S, before) ==
    /\ s \in [1..Cardinality(S) -> S]
    /\ \A i, j \in 1..Cardinality(S) : i < j => <<s[i], s[j]>> \in before

LEMMA SortedExists ==
    ASSUME NEW before, NEW S, IsFiniteSet(S), Orders(before, S)
    PROVE  \E s : Sorted(s, S, before)
<1> DEFINE Good == {n \in Nat : \A T \in SUBSET S :
                       IsFiniteSet(T) /\ Cardinality(T) = n => \E s : Sorted(s, T, before)}
<1>1. 0 \in Good
  <2> SUFFICES ASSUME NEW T \in SUBSET S, IsFiniteSet(T), Cardinality(T) = 0
               PROVE  \E s : Sorted(s, T, before)
    OBVIOUS
  <2>1. Sorted([i \in 1..0 |-> i], T, before)
    BY DEF Sorted
  <2> QED BY <2>1
<1>2. ASSUME NEW n \in Nat, n \in Good PROVE n + 1 \in Good
  <2> SUFFICES ASSUME NEW T \in SUBSET S, IsFiniteSet(T), Cardinality(T) = n + 1
               PROVE  \E s : Sorted(s, T, before)
    OBVIOUS
  <2>1. PICK m : m \in LastIn(T, before)
    BY LastExists, FS_EmptySet DEF Orders
  <2>2. m \in T /\ \A p \in T \ {m} : <<p, m>> \in before
    BY <2>1 DEF LastIn
  <2>3. IsFiniteSet(T \ {m}) /\ Cardinality(T \ {m}) = n
    BY <2>2, FS_RemoveElement
  <2>4. PICK s : Sorted(s, T \ {m}, before)
    BY <1>2, <2>3
  <2>5. s \in [1..n -> T \ {m}] /\ \A i, j \in 1..n : i < j => <<s[i], s[j]>> \in before
    BY <2>3, <2>4 DEF Sorted
  <2> DEFINE t == [i \in 1..(n + 1) |-> IF i = n + 1 THEN m ELSE s[i]]
  <2>6. \A i \in 1..(n + 1) : (i = n + 1 => t[i] = m) /\ (i # n + 1 => i \in 1..n /\ t[i] = s[i])
    OBVIOUS
  <2>7. t \in [1..(n + 1) -> T]
    BY <2>2, <2>5
  <2>8. \A i, j \in 1..(n + 1) : i < j => <<t[i], t[j]>> \in before
    <3> SUFFICES ASSUME NEW i \in 1..(n + 1), NEW j \in 1..(n + 1), i < j
                 PROVE  <<t[i], t[j]>> \in before
      OBVIOUS
    <3>1. i \in 1..n /\ t[i] = s[i] /\ s[i] \in T \ {m}
      BY <2>5, <2>6
    <3>2. CASE j = n + 1
      BY <2>2, <2>6, <3>1, <3>2
    <3>3. CASE j # n + 1
      BY <2>5, <2>6, <3>1, <3>3
    <3> QED BY <3>2, <3>3
  <2>9. Sorted(t, T, before)
    BY <2>7, <2>8 DEF Sorted
  <2> QED BY <2>9
<1>3. Nat \subseteq Good
  <2> HIDE DEF Good
  <2> QED BY <1>1, <1>2, NatInduct
<1>4. Cardinality(S) \in Good
  BY <1>3, FS_CardinalityType
<1> QED BY <1>4

\* InOrder lists each member once, in the order given.
LEMMA InOrderCorrect ==
    ASSUME NEW before, NEW S, IsFiniteSet(S), Orders(before, S)
    PROVE  LET s == InOrder(S, before)
           IN  /\ s \in Seq(S) /\ Len(s) = Cardinality(S) /\ DOMAIN s = 1..Cardinality(S)
               /\ Cardinality(S) \in Nat
               /\ \A p \in S : \E i \in 1..Len(s) : s[i] = p
               /\ \A i, j \in 1..Len(s) : i < j => <<s[i], s[j]>> \in before
               /\ \A i, j \in 1..Len(s) : s[i] = s[j] => i = j
<1> DEFINE s == InOrder(S, before)
           n == Cardinality(S)
<1>1. n \in Nat
  BY FS_CardinalityType
<1>2. \E f \in [1..n -> S] : \A i, j \in 1..n : i < j => <<f[i], f[j]>> \in before
  BY SortedExists DEF Sorted
<1>3. s \in [1..n -> S] /\ \A i, j \in 1..n : i < j => <<s[i], s[j]>> \in before
  BY <1>2, Zenon DEF InOrder
<1> HIDE DEF s
<1>4. \A i, j \in 1..n : s[i] = s[j] => i = j
  <2> SUFFICES ASSUME NEW i \in 1..n, NEW j \in 1..n, i < j, s[i] = s[j] PROVE FALSE
    BY <1>1
  <2>1. <<s[i], s[i]>> \in before /\ s[i] \in S
    BY <1>3
  <2> QED BY <2>1 DEF Orders
<1>5. s \in Injection(1..n, S)
  BY <1>3, <1>4 DEF Injection, IsInjective
<1>6. IsFiniteSet(1..n) /\ Cardinality(1..n) = n
  BY <1>1, FS_Interval
<1>7. s \in Surjection(1..n, S)
  BY <1>5, <1>6, FS_Injection
<1>8. \A p \in S : \E i \in 1..n : s[i] = p
  BY <1>7 DEF Surjection
<1>9. s \in Seq(S) /\ Len(s) = n /\ DOMAIN s = 1..n
  BY <1>1, <1>3
<1> QED BY <1>1, <1>3, <1>4, <1>8, <1>9 DEF s


-----------------------------------------------------------------------------
(* Groups.                                                                 *)

\* A group that no two parts make up without a related pair across them.
Chained(g, related) ==
    \A A \in SUBSET g : A # {} /\ A # g => \E a \in A, b \in g \ A : <<a, b>> \in related
Chains(groups, S, related) ==
    /\ UNION groups = S
    /\ \A g \in groups : g # {} /\ Chained(g, related)
    /\ \A g, h \in groups : g # h => g \cap h = {}

\* One turn: the new photo and the groups of its matches are one chain.
LEMMA JoinedChain ==
    ASSUME NEW related, NEW x, NEW M, NEW joined,
           \A q \in M : <<x, q>> \in related /\ <<q, x>> \in related,
           \A g \in joined : Chained(g, related) /\ g \cap M # {}
    PROVE  Chained({x} \cup UNION joined, related)
<1> DEFINE U == {x} \cup UNION joined
<1> SUFFICES ASSUME NEW A \in SUBSET U, A # {}, A # U
             PROVE  \E a \in A, b \in U \ A : <<a, b>> \in related
  BY DEF Chained
<1>1. \A g \in joined : g \subseteq U
  OBVIOUS
<1>2. ASSUME NEW g \in joined, g \cap A # {}, ~(g \subseteq A)
      PROVE  \E a \in A, b \in U \ A : <<a, b>> \in related
  <2> DEFINE B == g \cap A
  <2>1. B \in SUBSET g /\ B # {} /\ B # g
    BY <1>2
  <2> HIDE DEF B
  <2>2. PICK a \in B, b \in g \ B : <<a, b>> \in related
    BY <2>1 DEF Chained
  <2>3. a \in A /\ b \notin A /\ b \in g
    BY DEF B
  <2> QED BY <1>1, <2>2, <2>3
<1>3. CASE x \in A
  <2>1. PICK y : y \in U \ A
    OBVIOUS
  <2>2. PICK g \in joined : y \in g
    BY <1>3, <2>1
  <2>3. CASE g \cap A = {}
    <3>1. PICK q \in M : q \in g
      OBVIOUS
    <3> QED BY <1>1, <1>3, <2>3, <3>1
  <2> QED BY <1>2, <2>1, <2>2, <2>3
<1>4. CASE x \notin A
  <2>1. PICK y : y \in A
    OBVIOUS
  <2>2. PICK g \in joined : y \in g
    BY <1>4, <2>1
  <2>3. CASE g \subseteq A
    <3>1. PICK q \in M : q \in g
      OBVIOUS
    <3> QED BY <1>4, <2>3, <3>1
  <2> QED BY <1>2, <2>1, <2>2, <2>3
<1> QED BY <1>3, <1>4

LEMMA JoinedChains ==
    ASSUME NEW groups, NEW S, NEW related, Chains(groups, S, related),
           NEW photos, NEW matches, NEW n, photos[n] \notin S, matches[n] \subseteq S,
           \A q \in matches[n] : <<photos[n], q>> \in related /\ <<q, photos[n]>> \in related
    PROVE  LET after == Joined(photos, matches, groups, n)
           IN  /\ Chains(after, S \cup {photos[n]}, related)
               /\ \A g \in groups : \E h \in after : g \subseteq h
               /\ \A q \in matches[n] : \E h \in after : photos[n] \in h /\ q \in h
<1> DEFINE x == photos[n]
           M == matches[n]
           joined == {g \in groups : g \cap M # {}}
           U == {x} \cup UNION joined
           after == Joined(photos, matches, groups, n)
<1>1. after = (groups \ joined) \cup {U}
  BY Zenon DEF Joined
<1>2. Chained(U, related)
  <2>1. \A q \in M : <<x, q>> \in related /\ <<q, x>> \in related
    OBVIOUS
  <2>2. \A g \in joined : Chained(g, related) /\ g \cap M # {}
    BY DEF Chains
  <2> HIDE DEF joined, M, x
  <2> QED BY <2>1, <2>2, JoinedChain
<1>3. UNION after = S \cup {x}
  <2>1. UNION joined \subseteq UNION groups /\ UNION groups = S
    BY DEF Chains
  <2> HIDE DEF joined, after
  <2>2. \A g \in joined : g \subseteq U
    OBVIOUS
  <2> QED BY <1>1, <2>1, <2>2
<1>4. \A g \in after : g # {} /\ Chained(g, related)
  BY <1>1, <1>2 DEF Chains
<1>5. \A g \in groups \ joined : g \cap U = {}
  <2> SUFFICES ASSUME NEW g \in groups \ joined, NEW y \in g, y \in U PROVE FALSE
    OBVIOUS
  <2>1. y # x
    BY DEF Chains
  <2>2. PICK h \in joined : y \in h
    BY <2>1
  <2> QED BY <2>2 DEF Chains
<1>6. \A g, h \in after : g # h => g \cap h = {}
  <2> SUFFICES ASSUME NEW g \in after, NEW h \in after, g # h PROVE g \cap h = {}
    OBVIOUS
  <2>1. CASE g = U \/ h = U
    BY <1>1, <1>5, <2>1
  <2>2. CASE g # U /\ h # U
    BY <1>1, <2>2 DEF Chains
  <2> QED BY <2>1, <2>2
<1>7. \A g \in groups : \E h \in after : g \subseteq h
  <2> HIDE DEF joined, after
  <2>1. \A g \in joined : g \subseteq U
    OBVIOUS
  <2> QED BY <1>1, <2>1
<1>8. \A q \in M : q \in U
  <2> SUFFICES ASSUME NEW q \in M PROVE q \in U
    OBVIOUS
  <2>1. PICK g \in groups : q \in g
    BY DEF Chains
  <2>2. g \in joined
    BY <2>1
  <2> QED BY <2>1, <2>2
<1> HIDE DEF joined, U, after
<1>9. \A q \in M : \E h \in after : x \in h /\ q \in h
  BY <1>1, <1>8 DEF U
<1>10. Chains(after, S \cup {x}, related)
  BY <1>3, <1>4, <1>6 DEF Chains
<1> QED BY <1>7, <1>9, <1>10 DEF after

\* The groups after some turns of the loop.
Turns(photos, matches, f) ==
    f = [n \in 0..Len(photos) |->
            IF n = 0 THEN {} ELSE Joined(photos, matches, f[n - 1], n)]

LEMMA TurnsExist ==
    ASSUME NEW S, NEW photos \in Seq(S), NEW matches
    PROVE  \E f : Turns(photos, matches, f)
<1> DEFINE Up(f, n) == f = [k \in 0..n |-> IF k = 0 THEN {} ELSE Joined(photos, matches, f[k - 1], k)]
           Good == {n \in Nat : \E f : Up(f, n)}
<1>1. 0 \in Good
  <2> DEFINE f == [k \in 0..0 |-> {}]
  <2>1. \A k \in 0..0 : k = 0
    OBVIOUS
  <2>2. f = [k \in 0..0 |-> IF k = 0 THEN {} ELSE Joined(photos, matches, f[k - 1], k)]
    BY <2>1
  <2> QED BY <2>2
<1>2. ASSUME NEW n \in Nat, n \in Good PROVE n + 1 \in Good
  <2>1. PICK f : Up(f, n)
    BY <1>2
  <2> DEFINE g == [k \in 0..(n + 1) |-> IF k = n + 1 THEN Joined(photos, matches, f[n], n + 1) ELSE f[k]]
  <2>2. \A k \in 0..n : f[k] = IF k = 0 THEN {} ELSE Joined(photos, matches, f[k - 1], k)
    BY <2>1
  <2>3. \A k \in 0..n : g[k] = f[k]
    OBVIOUS
  <2>4. \A k \in 0..(n + 1) : g[k] = IF k = 0 THEN {} ELSE Joined(photos, matches, g[k - 1], k)
    <3> SUFFICES ASSUME NEW k \in 0..(n + 1)
                 PROVE  g[k] = IF k = 0 THEN {} ELSE Joined(photos, matches, g[k - 1], k)
      OBVIOUS
    <3>1. CASE k = n + 1
      <4>1. g[k] = Joined(photos, matches, f[n], n + 1) /\ k - 1 = n /\ k # 0 /\ g[n] = f[n]
        BY <3>1, <2>3
      <4> HIDE DEF g
      <4> QED BY <3>1, <4>1
    <3>2. CASE k \in 1..n
      <4>1. g[k] = f[k] /\ g[k - 1] = f[k - 1] /\ k # 0 /\ f[k] = Joined(photos, matches, f[k - 1], k)
        BY <2>2, <2>3, <3>2
      <4> HIDE DEF g
      <4> QED BY <4>1
    <3>3. CASE k = 0
      BY <2>2, <2>3, <3>3
    <3> QED BY <3>1, <3>2, <3>3
  <2>5. g = [k \in 0..(n + 1) |-> g[k]]
    OBVIOUS
  <2> HIDE DEF g
  <2>6. Up(g, n + 1)
    BY <2>4, <2>5, Zenon
  <2> QED BY <2>6
<1>3. Nat \subseteq Good
  <2> HIDE DEF Good
  <2> QED BY <1>1, <1>2, NatInduct
<1> QED BY <1>3, Len(photos) \in Nat DEF Turns

TurnByTurn(photos, matches, f) ==
    /\ Grouped(photos, matches) = f[Len(photos)]
    /\ f[0] = {}
    /\ \A n \in 1..Len(photos) : f[n] = Joined(photos, matches, f[n - 1], n)

LEMMA GroupedTurns ==
    ASSUME NEW S, NEW photos \in Seq(S), NEW matches
    PROVE  \E f : TurnByTurn(photos, matches, f)
<1> DEFINE F == CHOOSE f : Turns(photos, matches, f)
<1>1. Turns(photos, matches, F)
  BY TurnsExist, Zenon
<1>2. Grouped(photos, matches) = F[Len(photos)]
  BY Zenon DEF Grouped, Turns
<1> HIDE DEF F
<1>3. \A n \in 0..Len(photos) : F[n] = IF n = 0 THEN {} ELSE Joined(photos, matches, F[n - 1], n)
  BY <1>1, Zenon DEF Turns
<1>4. F[0] = {} /\ \A n \in 1..Len(photos) : F[n] = Joined(photos, matches, F[n - 1], n)
  BY <1>3
<1> QED BY <1>2, <1>4, Zenon DEF TurnByTurn

\* What a loop makes of photos that are each matched with some of those before: chains of
\* matches, in which each is with its matches.
LEMMA GroupedChains ==
    ASSUME NEW S, NEW photos \in Seq(S), \A i, j \in 1..Len(photos) : photos[i] = photos[j] => i = j,
           NEW matches, NEW related,
           \A n \in 1..Len(photos) : /\ matches[n] \subseteq {photos[m] : m \in 1..(n - 1)}
                                     /\ \A q \in matches[n] : /\ <<photos[n], q>> \in related
                                                              /\ <<q, photos[n]>> \in related
    PROVE  LET groups == Grouped(photos, matches)
           IN  /\ Chains(groups, {photos[m] : m \in 1..Len(photos)}, related)
               /\ \A n \in 1..Len(photos) : \A q \in matches[n] :
                    \E g \in groups : photos[n] \in g /\ q \in g
<1> DEFINE L == Len(photos)
           Done(n) == {photos[m] : m \in 1..n}
<1>0. Len(photos) \in Nat
  OBVIOUS
<1>a. PICK f : TurnByTurn(photos, matches, f)
  BY GroupedTurns
<1>1. /\ Grouped(photos, matches) = f[L]
      /\ f[0] = {}
      /\ \A n \in 1..L : f[n] = Joined(photos, matches, f[n - 1], n)
  BY <1>a, Zenon DEF TurnByTurn
<1> DEFINE Right(n) == /\ Chains(f[n], Done(n), related)
                       /\ \A k \in 1..n : \A q \in matches[k] :
                            \E g \in f[n] : photos[k] \in g /\ q \in g
           Good == {n \in Nat : n <= L => Right(n)}
<1>2. 0 \in Good
  <2>1. Done(0) = {}
    OBVIOUS
  <2>2. Right(0)
    BY <1>1, <2>1 DEF Chains
  <2> QED BY <2>2
<1>3. ASSUME NEW n \in Nat, n \in Good PROVE n + 1 \in Good
  <2> SUFFICES ASSUME n + 1 <= L PROVE Right(n + 1)
    OBVIOUS
  <2>1. n + 1 \in 1..L /\ Right(n)
    BY <1>3
  <2> DEFINE k == n + 1
  <2>2. f[k] = Joined(photos, matches, f[n], k)
    BY <1>1, <2>1
  <2>3. photos[k] \notin Done(n)
    BY <2>1
  <2>4. matches[k] \subseteq Done(n)
    BY <2>1
  <2>5. Done(k) = Done(n) \cup {photos[k]}
    OBVIOUS
  <2>6. \A q \in matches[k] : <<photos[k], q>> \in related /\ <<q, photos[k]>> \in related
    BY <2>1
  <2>7. /\ Chains(f[k], Done(n) \cup {photos[k]}, related)
        /\ \A g \in f[n] : \E h \in f[k] : g \subseteq h
        /\ \A q \in matches[k] : \E h \in f[k] : photos[k] \in h /\ q \in h
    <3> HIDE DEF Done, k
    <3> QED BY <2>1, <2>2, <2>3, <2>4, <2>6, JoinedChains
  <2>8. \A m \in 1..k : \A q \in matches[m] : \E g \in f[k] : photos[m] \in g /\ q \in g
    <3> SUFFICES ASSUME NEW m \in 1..k, NEW q \in matches[m]
                 PROVE  \E g \in f[k] : photos[m] \in g /\ q \in g
      OBVIOUS
    <3>1. CASE m = k
      BY <2>7, <3>1
    <3>2. CASE m # k
      <4>1. m \in 1..n
        BY <3>2
      <4>2. PICK g \in f[n] : photos[m] \in g /\ q \in g
        BY <2>1, <4>1
      <4> QED BY <2>7, <4>2
    <3> QED BY <3>1, <3>2
  <2> HIDE DEF Done
  <2> QED BY <2>5, <2>7, <2>8
<1>4. Nat \subseteq Good
  <2> HIDE DEF Good
  <2> QED BY <1>2, <1>3, NatInduct
<1>5. Right(L)
  <2>1. L \in Good
    <3> HIDE DEF Good
    <3> QED BY <1>0, <1>4
  <2>2. L <= L
    BY <1>0
  <2> HIDE DEF Right, L
  <2> QED BY <2>1, <2>2
<1> HIDE DEF Done
<1> QED BY <1>1, <1>5 DEF Done


-----------------------------------------------------------------------------
(* Photos in the order of their times.                                     *)

Together(groups, p, q) == \E g \in groups : p \in g /\ q \in g

LEMMA TogetherTransitive ==
    ASSUME NEW groups, NEW S, NEW related, Chains(groups, S, related),
           NEW p, NEW q, NEW r, Together(groups, p, q), Together(groups, q, r)
    PROVE  Together(groups, p, r)
BY DEF Together, Chains

\* Photos, their capture times and the photos in order.
Timed(shot, photos) ==
    IsFiniteSet(photos) /\ photos \subseteq Int /\ \A p \in photos : shot[p].time \in Int

LEMMA ByTimeCorrect ==
    ASSUME NEW shot, NEW photos, Timed(shot, photos)
    PROVE  LET s == ByTime(shot, photos)
           IN  /\ s \in Seq(photos) /\ Len(s) \in Nat /\ DOMAIN s = 1..Len(s)
               /\ {s[i] : i \in 1..Len(s)} = photos
               /\ \A i, j \in 1..Len(s) : i < j => shot[s[i]].time <= shot[s[j]].time
               /\ \A i, j \in 1..Len(s) : s[i] = s[j] => i = j
<1> DEFINE before == {e \in photos \X photos : Earlier(shot, e[1], e[2])}
           s == ByTime(shot, photos)
<1>1. \A p, q \in photos : <<p, q>> \in before <=> Earlier(shot, p, q)
  OBVIOUS
<1>2. \A p, q \in photos : Earlier(shot, p, q) => shot[p].time <= shot[q].time
  BY DEF Timed, Earlier
<1> HIDE DEF before
<1>3. \A p \in photos : <<p, p>> \notin before
  BY <1>1 DEF Timed, Earlier
<1>4. \A p, q \in photos : p = q \/ <<p, q>> \in before \/ <<q, p>> \in before
  <2>1. ASSUME NEW p \in photos, NEW q \in photos, p # q PROVE Earlier(shot, p, q) \/ Earlier(shot, q, p)
    <3>1. p \in Int /\ q \in Int /\ shot[p].time \in Int /\ shot[q].time \in Int
      BY DEF Timed
    <3> QED BY <2>1, <3>1 DEF Earlier
  <2> QED BY <1>1, <2>1
<1>5. \A p, q, r \in photos : <<p, q>> \in before /\ <<q, r>> \in before => <<p, r>> \in before
  BY <1>1 DEF Timed, Earlier
<1>6. Orders(before, photos)
  BY <1>3, <1>4, <1>5 DEF Orders
<1>7. s = InOrder(photos, before)
  BY DEF ByTime, before
<1> HIDE DEF s
<1>8. IsFiniteSet(photos)
  BY DEF Timed
<1>9. /\ s \in Seq(photos) /\ Len(s) = Cardinality(photos) /\ DOMAIN s = 1..Cardinality(photos)
      /\ Cardinality(photos) \in Nat
      /\ \A p \in photos : \E i \in 1..Len(s) : s[i] = p
      /\ \A i, j \in 1..Len(s) : i < j => <<s[i], s[j]>> \in before
      /\ \A i, j \in 1..Len(s) : s[i] = s[j] => i = j
  BY <1>6, <1>7, <1>8, InOrderCorrect
<1>10. \A i \in 1..Len(s) : s[i] \in photos
  BY <1>9
<1>11. \A i, j \in 1..Len(s) : i < j => shot[s[i]].time <= shot[s[j]].time
  BY <1>1, <1>2, <1>9, <1>10
<1>12. {s[i] : i \in 1..Len(s)} = photos
  BY <1>9, <1>10
<1> QED BY <1>9, <1>11, <1>12 DEF s

-----------------------------------------------------------------------------
(* Sessions.                                                               *)

Soon(shot, gap, p, q) == shot[p].time - shot[q].time \in -gap..gap

LEMMA SessionsAreChains ==
    ASSUME NEW shot, NEW photos, Timed(shot, photos), NEW gap \in Nat, NEW related,
           \A p, q \in photos : Soon(shot, gap, p, q) => <<p, q>> \in related
    PROVE  LET dated == {p \in photos : Dated(shot[p])}
               groups == Sessions(shot, photos, gap)
           IN  /\ Chains(groups, dated, related)
               /\ \A p, q \in dated : Soon(shot, gap, p, q) => Together(groups, p, q)
<1> DEFINE dated == {p \in photos : Dated(shot[p])}
           groups == Sessions(shot, photos, gap)
           s == ByTime(shot, dated)
           L == Len(s)
           matches == [n \in DOMAIN s |-> Continued(shot, gap, s, n)]
<1>1. Timed(shot, dated)
  BY FS_Subset DEF Timed
<1> HIDE DEF dated
<1>2. /\ s \in Seq(dated) /\ L \in Nat /\ DOMAIN s = 1..L
      /\ {s[i] : i \in 1..L} = dated
      /\ \A i, j \in 1..L : i < j => shot[s[i]].time <= shot[s[j]].time
      /\ \A i, j \in 1..L : s[i] = s[j] => i = j
  BY <1>1, ByTimeCorrect
<1>3. groups = Grouped(s, matches)
  BY DEF Sessions, dated
<1> HIDE DEF s, groups
<1>4. \A i \in 1..L : s[i] \in dated /\ s[i] \in photos /\ shot[s[i]].time \in Int
  BY <1>1, <1>2 DEF Timed, dated
<1>5. \A n \in 1..L : matches[n] =
        {s[m] : m \in {m \in 1..(n - 1) : m = n - 1 /\ shot[s[n]].time - shot[s[m]].time <= gap}}
  BY <1>2 DEF Continued
<1> HIDE DEF matches
<1>6. \A n \in 1..L : \A q \in matches[n] :
        n - 1 \in 1..L /\ q = s[n - 1] /\ shot[s[n]].time - shot[q].time <= gap
  BY <1>2, <1>5
<1>7. \A n \in 1..L : /\ matches[n] \subseteq {s[m] : m \in 1..(n - 1)}
                      /\ \A q \in matches[n] : <<s[n], q>> \in related /\ <<q, s[n]>> \in related
  <2> SUFFICES ASSUME NEW n \in 1..L
               PROVE  /\ matches[n] \subseteq {s[m] : m \in 1..(n - 1)}
                      /\ \A q \in matches[n] : <<s[n], q>> \in related /\ <<q, s[n]>> \in related
    OBVIOUS
  <2>1. matches[n] \subseteq {s[m] : m \in 1..(n - 1)}
    BY <1>5
  <2>2. ASSUME NEW q \in matches[n] PROVE <<s[n], q>> \in related /\ <<q, s[n]>> \in related
    <3>1. n - 1 \in 1..L /\ q = s[n - 1] /\ shot[s[n]].time - shot[q].time <= gap
      BY <1>6
    <3>2. shot[q].time <= shot[s[n]].time
      BY <1>2, <3>1
    <3>3. Soon(shot, gap, s[n], q) /\ Soon(shot, gap, q, s[n])
      BY <1>4, <3>1, <3>2 DEF Soon
    <3> QED BY <1>4, <3>1, <3>3
  <2> QED BY <2>1, <2>2
<1>8. /\ Chains(groups, {s[m] : m \in 1..L}, related)
      /\ \A n \in 1..L : \A q \in matches[n] : \E g \in groups : s[n] \in g /\ q \in g
  BY <1>2, <1>3, <1>7, GroupedChains
<1>9. Chains(groups, dated, related)
  BY <1>2, <1>8
<1> DEFINE Near(i, j) == i < j /\ shot[s[j]].time - shot[s[i]].time <= gap
           Good == {j \in Nat : j <= L => \A i \in 1..L : Near(i, j) => Together(groups, s[i], s[j])}
<1>10. 0 \in Good
  OBVIOUS
<1>11. ASSUME NEW k \in Nat, k \in Good PROVE k + 1 \in Good
  <2> DEFINE j == k + 1
  <2> SUFFICES ASSUME j <= L, NEW i \in 1..L, Near(i, j) PROVE Together(groups, s[i], s[j])
    OBVIOUS
  <2>1. k \in 1..L /\ j \in 1..L /\ i <= k /\ k < j
    BY <1>2
  <2>2. shot[s[k]].time <= shot[s[j]].time /\ (i = k \/ shot[s[i]].time <= shot[s[k]].time)
    BY <1>2, <2>1
  <2>3. shot[s[j]].time - shot[s[k]].time <= gap /\ shot[s[k]].time - shot[s[i]].time <= gap
    BY <1>4, <2>1, <2>2
  <2>4. s[k] \in matches[j]
    BY <1>5, <2>1, <2>3
  <2>5. Together(groups, s[k], s[j])
    BY <1>8, <2>1, <2>4 DEF Together
  <2>6. CASE i = k
    BY <2>5, <2>6
  <2>7. CASE i < k
    <3>1. Near(i, k) /\ k <= L
      BY <2>1, <2>3, <2>7
    <3>2. Together(groups, s[i], s[k])
      BY <1>11, <3>1
    <3> QED BY <1>9, <2>5, <3>2, TogetherTransitive
  <2> QED BY <2>1, <2>6, <2>7
<1>12. Nat \subseteq Good
  <2> HIDE DEF Good
  <2> QED BY <1>10, <1>11, NatInduct
<1>13. \A i, j \in 1..L : Near(i, j) => Together(groups, s[i], s[j])
  BY <1>2, <1>12
<1>14. ASSUME NEW p \in dated, NEW q \in dated, Soon(shot, gap, p, q) PROVE Together(groups, p, q)
  <2>1. PICK i \in 1..L : p = s[i]
    BY <1>2
  <2>2. PICK j \in 1..L : q = s[j]
    BY <1>2
  <2>3. /\ shot[p].time - shot[q].time <= gap
        /\ shot[q].time - shot[p].time <= gap
    BY <1>1, <1>14 DEF Soon, Timed
  <2>4. CASE i < j
    BY <1>13, <2>1, <2>2, <2>3, <2>4
  <2>5. CASE j < i
    BY <1>13, <2>1, <2>2, <2>3, <2>5 DEF Together
  <2>6. CASE i = j
    BY <1>9, <2>1, <2>2, <2>6 DEF Together, Chains
  <2> QED BY <1>2, <2>4, <2>5, <2>6
<1> QED BY <1>9, <1>14 DEF dated, groups


-----------------------------------------------------------------------------
(* The index of chunks.                                                    *)

USE HashAssumption, DistanceAssumption

\* A finite set of numbers that is not empty has a greatest and a least.
LEMMA MaxMin ==
    ASSUME NEW S, S \subseteq Int, IsFiniteSet(S), S # {}
    PROVE  /\ Max(S) \in S /\ \A x \in S : x <= Max(S)
           /\ Min(S) \in S /\ \A x \in S : Min(S) <= x
<1> DEFINE up == {e \in S \X S : e[1] < e[2]}
           down == {e \in S \X S : e[2] < e[1]}
<1>1. \A p, q \in S : (<<p, q>> \in up <=> p < q) /\ (<<p, q>> \in down <=> q < p)
  OBVIOUS
<1> HIDE DEF up, down
<1>2. Orders(up, S) /\ Orders(down, S)
  BY <1>1 DEF Orders
<1>3. PICK m : m \in LastIn(S, up)
  BY <1>2, LastExists
<1>4. PICK l : l \in LastIn(S, down)
  BY <1>2, LastExists
<1>5. m \in S /\ \A x \in S : m >= x
  <2>1. m \in S /\ \A x \in S \ {m} : <<x, m>> \in up
    BY <1>3 DEF LastIn
  <2>2. ASSUME NEW x \in S PROVE m >= x
    <3>1. m \in Int /\ x \in Int
      BY <2>1
    <3>2. x = m \/ x < m
      BY <1>1, <2>1
    <3> QED BY <3>1, <3>2
  <2> QED BY <2>1, <2>2
<1>6. l \in S /\ \A x \in S : l =< x
  <2>1. l \in S /\ \A x \in S \ {l} : <<x, l>> \in down
    BY <1>4 DEF LastIn
  <2>2. ASSUME NEW x \in S PROVE l =< x
    <3>1. l \in Int /\ x \in Int
      BY <2>1
    <3>2. x = l \/ l < x
      BY <1>1, <2>1
    <3> QED BY <3>1, <3>2
  <2> QED BY <2>1, <2>2
<1>7. Max(S) \in S /\ \A x \in S : Max(S) >= x
  BY <1>5, Zenon DEF Max
<1>8. Min(S) \in S /\ \A x \in S : Min(S) =< x
  BY <1>6, Zenon DEF Min
<1> QED BY <1>7, <1>8

Hash == {h \in SUBSET Int : IsFiniteSet(h)}

LEMMA DigitsType ==
    ASSUME NEW h \in Hash
    PROVE  Digits(h) \in Nat
<1>1. h \cup {0} \subseteq Int /\ IsFiniteSet(h \cup {0}) /\ 0 \in h \cup {0}
  BY FS_AddElement DEF Hash
<1>2. Max(h \cup {0}) \in Int /\ 0 <= Max(h \cup {0})
  BY <1>1, MaxMin
<1> DEFINE m == Max(h \cup {0})
           d == m \div DigitBits
<1>3. m \in Nat
  BY <1>2
<1> HIDE DEF m
<1>4. d \in Nat
  BY <1>3
<1> HIDE DEF d
<1>5. {MinDigits, d + 1} \subseteq Nat /\ IsFiniteSet({MinDigits, d + 1})
  <2>1. IsFiniteSet({MinDigits}) /\ {MinDigits, d + 1} = {MinDigits} \cup {d + 1}
    BY FS_Singleton
  <2> QED BY <1>4, <2>1, FS_AddElement
<1>6. Max({MinDigits, d + 1}) \in {MinDigits, d + 1}
  BY <1>5, MaxMin
<1>7. Digits(h) = Max({MinDigits, d + 1})
  BY DEF Digits, d, m
<1> QED BY <1>5, <1>6, <1>7

\* Chunks do not overlap.
LEMMA ChunksApart ==
    ASSUME NEW size \in Nat, NEW more \in Nat, NEW j \in Nat, NEW k \in Nat, j < k
    PROVE  (j + 1) * size + (IF j + 1 < more THEN j + 1 ELSE more)
             <= k * size + (IF k < more THEN k ELSE more)
<1>1. PICK d \in Nat : k = j + 1 + d
  <2>1. k - (j + 1) \in Nat /\ k = j + 1 + (k - (j + 1))
    OBVIOUS
  <2> QED BY <2>1
<1>2. d * size \in Nat
  OBVIOUS
<1>3. k * size = (j + 1) * size + d * size
  BY <1>1
<1>4. (j + 1) * size \in Nat
  OBVIOUS
<1>5. (IF j + 1 < more THEN j + 1 ELSE more) <= (IF k < more THEN k ELSE more)
  BY <1>1
<1> DEFINE a == (j + 1) * size
           b == d * size
           c == k * size
<1>6. a \in Nat /\ b \in Nat /\ c = a + b
  BY <1>2, <1>3, <1>4
<1> HIDE DEF a, b, c
<1>7. a + (IF j + 1 < more THEN j + 1 ELSE more) <= c + (IF k < more THEN k ELSE more)
  BY <1>5, <1>6
<1> QED BY <1>7 DEF a, c

\* Hashes of one length that differ in MaxDistance bits or less share one of MaxDistance + 1
\* chunks.
LEMMA CloseShareChunk ==
    ASSUME NEW g \in Hash, NEW h \in Hash, Digits(g) = Digits(h), Distance(g, h) <= MaxDistance
    PROVE  ShareChunk(g, h)
<1> DEFINE count == MaxDistance + 1
           bits == Digits(g) * DigitBits
           size == bits \div count
           more == bits % count
           Start(k) == k * size + (IF k < more THEN k ELSE more)
           Chunk(k) == {bits - 1 - i : i \in Start(k)..(Start(k + 1) - 1)}
           D == SymDiff(g, h)
<1>1. bits \in Nat /\ count \in Nat \ {0}
  BY DigitsType
<1>2. size \in Nat /\ more \in Nat
  <2> HIDE DEF bits, count
  <2>1. bits \div count \in Nat
    BY <1>1
  <2>2. bits % count \in Nat
    BY <1>1
  <2> QED BY <2>1, <2>2
<1>3. Chunks(Digits(g)) = {Chunk(k) : k \in 0..(count - 1)}
  BY DEF Chunks, Chunking
<1> HIDE DEF bits, count, size, more
<1>4. \A k \in Nat : Start(k) \in Nat
  <2> SUFFICES ASSUME NEW k \in Nat PROVE Start(k) \in Nat
    OBVIOUS
  <2>1. k * size \in Nat
    BY <1>2
  <2> QED BY <1>2, <2>1
<1>5. \A j, k \in Nat : j < k => Start(j + 1) <= Start(k)
  BY <1>2, ChunksApart
<1> HIDE DEF Start
<1>6. \A j, k \in Nat : j < k => Chunk(j) \cap Chunk(k) = {}
  BY <1>1, <1>4, <1>5
<1> HIDE DEF Chunk
<1>7. IsFiniteSet(D) /\ Cardinality(D) <= MaxDistance
  <2>1. IsFiniteSet(D)
    BY FS_Difference, FS_Union DEF SymDiff, Hash
  <2> QED BY <2>1 DEF Distance
<1>8. SUFFICES ASSUME \A k \in 0..MaxDistance : g \cap Chunk(k) # h \cap Chunk(k) PROVE FALSE
  BY <1>3 DEF ShareChunk, count
<1>9. \A k \in 0..MaxDistance : \E d \in D : d \in Chunk(k)
  BY <1>8 DEF SymDiff
<1> DEFINE f == [k \in 0..MaxDistance |-> CHOOSE d \in D : d \in Chunk(k)]
<1>10. \A k \in 0..MaxDistance : f[k] \in D /\ f[k] \in Chunk(k)
  BY <1>9
<1>11. f \in [0..MaxDistance -> D]
  BY <1>10
<1> HIDE DEF f, D
<1>12. IsFiniteSet(0..MaxDistance) /\ Cardinality(0..MaxDistance) = MaxDistance + 1
  BY FS_Interval
<1>13. Cardinality(D) < Cardinality(0..MaxDistance)
  BY <1>7, <1>12, FS_CardinalityType
<1>14. PICK x \in 0..MaxDistance, y \in 0..MaxDistance : x # y /\ f[x] = f[y]
  BY <1>7, <1>11, <1>12, <1>13, FS_PigeonHole
<1>15. Chunk(x) \cap Chunk(y) = {}
  <2>1. x < y \/ y < x
    BY <1>14
  <2> QED BY <1>6, <2>1
<1> QED BY <1>10, <1>14, <1>15


-----------------------------------------------------------------------------
(* Clusters.                                                               *)

\* What Grouping knows of photos.
Known(shot, photos) ==
    /\ Timed(shot, photos)
    /\ \A p \in photos : /\ shot[p].hash \in Hash
                         /\ shot[p].time \in Nat \cup {Undated}
                         /\ shot[p].name \in Nat \ {0}

\* Two photos that must not be told apart.
Close(shot, p, q) ==
    /\ Digits(shot[p].hash) = Digits(shot[q].hash)
    /\ Distance(shot[p].hash, shot[q].hash) <= MaxDistance
    /\ WithinWindow(shot[p], shot[q])
    /\ shot[p].hash = shot[q].hash => (Dated(shot[p]) <=> Dated(shot[q]))

LEMMA DistanceSymmetric ==
    ASSUME NEW g, NEW h
    PROVE  Distance(g, h) = Distance(h, g)
<1>1. SymDiff(g, h) = SymDiff(h, g)
  BY DEF SymDiff
<1> QED BY <1>1 DEF Distance

LEMMA WindowSymmetric ==
    ASSUME NEW shot, NEW photos, Known(shot, photos), NEW p \in photos, NEW q \in photos
    PROVE  WithinWindow(shot[p], shot[q]) <=> WithinWindow(shot[q], shot[p])
<1>1. shot[p].time \in Int /\ shot[q].time \in Int
  BY DEF Known, Timed
<1> QED BY <1>1 DEF WithinWindow, Dated, Undated

LEMMA CloseSymmetric ==
    ASSUME NEW shot, NEW photos, Known(shot, photos), NEW p \in photos, NEW q \in photos,
           Close(shot, p, q)
    PROVE  Close(shot, q, p)
BY DistanceSymmetric, WindowSymmetric DEF Close

\* Photos of one key have one hash, and both have a time or neither, and then one name.
LEMMA SameKey ==
    ASSUME NEW shot, NEW photos, Known(shot, photos), NEW p \in photos, NEW q \in photos
    PROVE  ExactKey(shot[p]) = ExactKey(shot[q]) <=>
               /\ shot[p].hash = shot[q].hash
               /\ Dated(shot[p]) <=> Dated(shot[q])
               /\ Dated(shot[p]) \/ shot[p].name = shot[q].name
<1>1. shot[p].name \in Nat \ {0} /\ shot[q].name \in Nat \ {0}
  BY DEF Known
<1> QED BY <1>1 DEF ExactKey

LEMMA SameHashDistance ==
    ASSUME NEW h
    PROVE  Distance(h, h) = 0
<1>1. SymDiff(h, h) = {}
  BY DEF SymDiff
<1> QED BY <1>1, FS_EmptySet DEF Distance

\* What the loop matches is close.
LEMMA MatchesAreClose ==
    ASSUME NEW shot, NEW photos, Known(shot, photos), NEW s \in Seq(photos), NEW n \in 1..Len(s),
           NEW q \in ExactMatch(shot, s, n) \cup NearMatches(shot, s, n)
    PROVE  Close(shot, s[n], q) /\ \E m \in 1..(n - 1) : q = s[m]
<1>1. \A i \in 1..Len(s) : s[i] \in photos
  OBVIOUS
<1>2. CASE q \in ExactMatch(shot, s, n)
  <2>1. PICK m \in 1..(n - 1) : /\ ExactKey(shot[s[m]]) = ExactKey(shot[s[n]])
                                /\ WithinWindow(shot[s[n]], shot[s[m]])
                                /\ q = s[m]
    BY <1>2 DEF ExactMatch
  <2>2. m \in 1..Len(s)
    OBVIOUS
  <2>3. shot[q].hash = shot[s[n]].hash /\ (Dated(shot[q]) <=> Dated(shot[s[n]]))
    BY <1>1, <2>1, <2>2, SameKey
  <2> QED BY <2>1, <2>3, SameHashDistance DEF Close
<1>3. CASE q \in NearMatches(shot, s, n)
  <2>1. PICK m \in 1..(n - 1) : /\ shot[s[m]].hash # shot[s[n]].hash
                                /\ ShareChunk(shot[s[m]].hash, shot[s[n]].hash)
                                /\ WithinWindow(shot[s[n]], shot[s[m]])
                                /\ Distance(shot[s[m]].hash, shot[s[n]].hash) <= MaxDistance
                                /\ q = s[m]
    BY <1>3 DEF NearMatches
  <2>2. Digits(shot[q].hash) = Digits(shot[s[n]].hash)
    BY <2>1 DEF ShareChunk
  <2> QED BY <2>1, <2>2, DistanceSymmetric DEF Close
<1> QED BY <1>2, <1>3

\* Of two close photos the later is matched with the earlier, or with a photo of the same
\* hash that is between them and close to both.
LEMMA CloseAreMatched ==
    ASSUME NEW shot, NEW photos, Known(shot, photos), NEW s \in Seq(photos),
           \A i, j \in 1..Len(s) : i < j => shot[s[i]].time <= shot[s[j]].time,
           NEW i \in 1..Len(s), NEW j \in 1..Len(s), i < j, Close(shot, s[i], s[j])
    PROVE  \E k \in i..(j - 1) : /\ s[k] \in ExactMatch(shot, s, j) \cup NearMatches(shot, s, j)
                                 /\ k = i \/ Close(shot, s[i], s[k])
<1>1. \A m \in 1..Len(s) : s[m] \in photos
  OBVIOUS
<1>2. i \in 1..(j - 1) /\ WithinWindow(shot[s[j]], shot[s[i]])
  BY <1>1, WindowSymmetric DEF Close
<1>3. CASE shot[s[i]].hash # shot[s[j]].hash
  <2>1. shot[s[i]].hash \in Hash /\ shot[s[j]].hash \in Hash
    BY <1>1 DEF Known
  <2>2. ShareChunk(shot[s[i]].hash, shot[s[j]].hash)
    BY <2>1, CloseShareChunk DEF Close
  <2>3. s[i] \in NearMatches(shot, s, j)
    BY <1>2, <1>3, <2>2 DEF NearMatches, Close
  <2> QED BY <2>3
<1>4. CASE shot[s[i]].hash = shot[s[j]].hash
  <2> DEFINE same == {m \in 1..(j - 1) : ExactKey(shot[s[m]]) = ExactKey(shot[s[j]])}
  <2>1. Dated(shot[s[i]]) <=> Dated(shot[s[j]])
    BY <1>4 DEF Close
  <2>2. Dated(shot[s[i]]) \/ shot[s[i]].name = shot[s[j]].name
    BY DEF Close, WithinWindow
  <2>3. i \in same
    BY <1>1, <1>2, <1>4, <2>1, <2>2, SameKey
  <2>4. same \subseteq Int /\ IsFiniteSet(same)
    <3>1. 1 \in Int /\ j - 1 \in Int
      OBVIOUS
    <3>2. same \subseteq 1..(j - 1)
      OBVIOUS
    <3> HIDE DEF same
    <3>3. IsFiniteSet(1..(j - 1))
      BY <3>1, FS_Interval
    <3>4. IsFiniteSet(same)
      BY <3>2, <3>3, FS_Subset
    <3>5. same \subseteq Int
      BY <3>1, <3>2
    <3> QED BY <3>4, <3>5
  <2> DEFINE k == Max(same)
  <2>5. k \in same /\ \A m \in same : m <= k
    BY <2>3, <2>4, MaxMin
  <2> HIDE DEF k
  <2>6. k \in i..(j - 1) /\ k \in 1..Len(s)
    BY <2>3, <2>5
  <2>7. /\ shot[s[k]].hash = shot[s[j]].hash
        /\ Dated(shot[s[k]]) <=> Dated(shot[s[j]])
        /\ Dated(shot[s[k]]) \/ shot[s[k]].name = shot[s[j]].name
    BY <1>1, <2>5, <2>6, SameKey
  <2>8. /\ shot[s[i]].time \in Int /\ shot[s[j]].time \in Int /\ shot[s[k]].time \in Int
    BY <1>1, <2>6 DEF Known, Timed
  <2>9. shot[s[i]].time <= shot[s[k]].time /\ shot[s[k]].time <= shot[s[j]].time
    <3>1. i < k \/ i = k
      BY <2>6
    <3>2. k < j
      BY <2>6
    <3> QED BY <2>6, <2>8, <3>1, <3>2
  <2>10. WithinWindow(shot[s[j]], shot[s[k]]) /\ WithinWindow(shot[s[i]], shot[s[k]])
    BY <1>2, <2>1, <2>2, <2>7, <2>8, <2>9 DEF WithinWindow
  <2>11. s[k] \in ExactMatch(shot, s, j)
    BY <2>5, <2>10 DEF ExactMatch
  <2>12. Close(shot, s[i], s[k])
    BY <1>4, <2>1, <2>7, <2>10, SameHashDistance DEF Close
  <2> QED BY <2>6, <2>11, <2>12
<1> QED BY <1>3, <1>4

LEMMA ClustersAreChains ==
    ASSUME NEW shot, NEW photos, Known(shot, photos), NEW related,
           \A p, q \in photos : Close(shot, p, q) /\ shot[p].hash # NoHash /\ shot[q].hash # NoHash
                                    => <<p, q>> \in related
    PROVE  LET hashed == {p \in photos : shot[p].hash # NoHash}
               groups == Clusters(shot, photos)
           IN  /\ Chains(groups, hashed, related)
               /\ \A p, q \in hashed : Close(shot, p, q) => Together(groups, p, q)
<1> DEFINE hashed == {p \in photos : shot[p].hash # NoHash}
           groups == Clusters(shot, photos)
           s == ByTime(shot, hashed)
           L == Len(s)
           Matches(n) == ExactMatch(shot, s, n) \cup NearMatches(shot, s, n)
           matches == [n \in DOMAIN s |-> Matches(n)]
<1>1. Known(shot, hashed)
  BY FS_Subset DEF Known, Timed
<1>2. \A p, q \in hashed : Close(shot, p, q) => <<p, q>> \in related
  OBVIOUS
<1>3. groups = Grouped(s, matches)
  BY DEF Clusters
<1> HIDE DEF hashed, groups
<1>4. /\ s \in Seq(hashed) /\ L \in Nat /\ DOMAIN s = 1..L
      /\ {s[i] : i \in 1..L} = hashed
      /\ \A i, j \in 1..L : i < j => shot[s[i]].time <= shot[s[j]].time
      /\ \A i, j \in 1..L : s[i] = s[j] => i = j
  BY <1>1, ByTimeCorrect DEF Known
<1> HIDE DEF s
<1>5. \A n \in 1..L : matches[n] = Matches(n)
  BY <1>4
<1> HIDE DEF matches
<1>6. ASSUME NEW n \in 1..L
      PROVE  /\ matches[n] \subseteq {s[m] : m \in 1..(n - 1)}
             /\ \A q \in matches[n] : <<s[n], q>> \in related /\ <<q, s[n]>> \in related
  <2>1. ASSUME NEW q \in matches[n]
        PROVE  /\ q \in {s[m] : m \in 1..(n - 1)}
               /\ <<s[n], q>> \in related /\ <<q, s[n]>> \in related
    <3>1. q \in Matches(n)
      BY <1>5
    <3>2. Close(shot, s[n], q) /\ \E m \in 1..(n - 1) : q = s[m]
      BY <1>1, <1>4, <3>1, MatchesAreClose
    <3>3. s[n] \in hashed /\ q \in hashed
      BY <1>4, <3>2
    <3>4. Close(shot, q, s[n])
      BY <1>1, <3>2, <3>3, CloseSymmetric
    <3> QED BY <1>2, <3>2, <3>3, <3>4
  <2> QED BY <2>1
<1>7. /\ Chains(groups, {s[m] : m \in 1..L}, related)
      /\ \A n \in 1..L : \A q \in matches[n] : \E g \in groups : s[n] \in g /\ q \in g
  BY <1>3, <1>4, <1>6, GroupedChains
<1>8. Chains(groups, hashed, related)
  BY <1>4, <1>7
<1> DEFINE Found(j) == \A i \in 1..L : i < j /\ Close(shot, s[i], s[j]) => Together(groups, s[i], s[j])
           Good == {n \in Nat : \A j \in 1..L : j <= n => Found(j)}
<1>9. 0 \in Good
  OBVIOUS
<1>10. ASSUME NEW n \in Nat, n \in Good PROVE n + 1 \in Good
  <2> SUFFICES ASSUME n + 1 \in 1..L, NEW i \in 1..L, i < n + 1, Close(shot, s[i], s[n + 1])
               PROVE  Together(groups, s[i], s[n + 1])
    <3>1. \A j \in 1..L : j <= n + 1 => j <= n \/ j = n + 1
      OBVIOUS
    <3> QED BY <1>10, <3>1
  <2> DEFINE j == n + 1
  <2>1. j \in 1..L /\ i < j /\ j - 1 = n
    OBVIOUS
  <2>2. Close(shot, s[i], s[j])
    OBVIOUS
  <2> HIDE DEF j
  <2>3. PICK k \in i..(j - 1) : s[k] \in Matches(j) /\ (k = i \/ Close(shot, s[i], s[k]))
    BY <1>1, <1>4, <2>1, <2>2, CloseAreMatched
  <2>4. k \in 1..L /\ k <= n
    BY <1>4, <2>1, <2>3
  <2>5. Together(groups, s[k], s[j])
    BY <1>5, <1>7, <2>1, <2>3 DEF Together
  <2>6. CASE k = i
    BY <2>5, <2>6 DEF j
  <2>7. CASE k # i
    <3>1. Together(groups, s[i], s[k])
      <4>1. i < k /\ Close(shot, s[i], s[k]) /\ Found(k)
        BY <1>10, <2>3, <2>4, <2>7
      <4> QED BY <4>1
    <3>2. Together(groups, s[i], s[j])
      BY <1>8, <2>5, <3>1, TogetherTransitive
    <3> QED BY <3>2 DEF j
  <2> QED BY <2>6, <2>7
<1>11. Nat \subseteq Good
  <2> HIDE DEF Good
  <2> QED BY <1>9, <1>10, NatInduct
<1>12. \A i, j \in 1..L : i < j /\ Close(shot, s[i], s[j]) => Together(groups, s[i], s[j])
  <2> SUFFICES ASSUME NEW j \in 1..L PROVE Found(j)
    OBVIOUS
  <2>1. j \in Good
    <3> HIDE DEF Good
    <3> QED BY <1>11
  <2> QED BY <2>1
<1>13. ASSUME NEW p \in hashed, NEW q \in hashed, Close(shot, p, q) PROVE Together(groups, p, q)
  <2>1. PICK i \in 1..L : p = s[i]
    BY <1>4
  <2>2. PICK j \in 1..L : q = s[j]
    BY <1>4
  <2>3. Close(shot, q, p)
    BY <1>1, <1>13, CloseSymmetric
  <2>4. CASE i < j
    BY <1>12, <1>13, <2>1, <2>2, <2>4
  <2>5. CASE j < i
    BY <1>12, <2>1, <2>2, <2>3, <2>5 DEF Together
  <2>6. CASE i = j
    BY <1>8, <2>1, <2>2, <2>6 DEF Together, Chains
  <2> QED BY <1>4, <2>4, <2>5, <2>6
<1> QED BY <1>8, <1>13 DEF hashed, groups


-----------------------------------------------------------------------------
(* Scores and representatives.                                             *)

Adding(counted, amount, f) ==
    f = [n \in 0..Len(Weight) |->
            IF n = 0 THEN 0 ELSE f[n - 1] + (IF n \in counted THEN amount[n] ELSE 0)]

LEMMA AddingExists ==
    ASSUME NEW counted, NEW amount
    PROVE  \E f : Adding(counted, amount, f)
<1> DEFINE Add(f, k) == IF k = 0 THEN 0 ELSE f[k - 1] + (IF k \in counted THEN amount[k] ELSE 0)
           Up(f, n) == f = [k \in 0..n |-> Add(f, k)]
           Good == {n \in Nat : \E f : Up(f, n)}
<1>1. 0 \in Good
  <2> DEFINE f == [k \in 0..0 |-> 0]
  <2>1. \A k \in 0..0 : k = 0
    OBVIOUS
  <2>2. Up(f, 0)
    BY <2>1
  <2> HIDE DEF f
  <2> QED BY <2>2
<1>2. ASSUME NEW n \in Nat, n \in Good PROVE n + 1 \in Good
  <2>1. PICK f : Up(f, n)
    BY <1>2
  <2> DEFINE g == [k \in 0..(n + 1) |-> IF k = n + 1 THEN Add(f, n + 1) ELSE f[k]]
  <2>2. \A k \in 0..n : f[k] = Add(f, k)
    <3> HIDE DEF Add
    <3> QED BY <2>1
  <2>3. \A k \in 0..n : g[k] = f[k]
    OBVIOUS
  <2>4. g[n + 1] = Add(f, n + 1)
    OBVIOUS
  <2>5. g = [k \in 0..(n + 1) |-> g[k]]
    OBVIOUS
  <2> HIDE DEF g
  <2>6. \A k \in 0..(n + 1) : g[k] = Add(g, k)
    <3> SUFFICES ASSUME NEW k \in 0..(n + 1) PROVE g[k] = Add(g, k)
      OBVIOUS
    <3>1. CASE k = n + 1
      <4>1. k - 1 = n /\ g[n] = f[n]
        BY <2>3, <3>1
      <4> QED BY <2>4, <3>1, <4>1
    <3>2. CASE k \in 1..n
      <4>1. g[k] = f[k] /\ g[k - 1] = f[k - 1] /\ f[k] = Add(f, k)
        BY <2>2, <2>3, <3>2
      <4> QED BY <4>1
    <3>3. CASE k = 0
      BY <2>2, <2>3, <3>3
    <3> QED BY <3>1, <3>2, <3>3
  <2> HIDE DEF Add
  <2>7. Up(g, n + 1)
    BY <2>5, <2>6, Zenon
  <2> HIDE DEF Up
  <2> QED BY <2>7
<1>3. Nat \subseteq Good
  <2> HIDE DEF Good
  <2> QED BY <1>1, <1>2, NatInduct
<1>4. Len(Weight) \in Good
  <2>1. Len(Weight) \in Nat
    BY WeightAssumption
  <2> HIDE DEF Good
  <2> QED BY <1>3, <2>1
<1>5. \E f : Up(f, Len(Weight))
  BY <1>4
<1> QED BY <1>5, Zenon DEF Adding

AddedUp(counted, amount, f) ==
    /\ Total(counted, amount) = f[Len(Weight)]
    /\ f[0] = 0
    /\ \A n \in 1..Len(Weight) : f[n] = f[n - 1] + (IF n \in counted THEN amount[n] ELSE 0)

LEMMA TotalTurns ==
    ASSUME NEW counted, NEW amount
    PROVE  \E f : AddedUp(counted, amount, f)
<1> DEFINE F == CHOOSE f : Adding(counted, amount, f)
<1>1. Adding(counted, amount, F)
  BY AddingExists, Zenon
<1>2. Total(counted, amount) = F[Len(Weight)]
  BY Zenon DEF Total, Adding
<1> HIDE DEF F
<1>3. \A n \in 0..Len(Weight) :
        F[n] = IF n = 0 THEN 0 ELSE F[n - 1] + (IF n \in counted THEN amount[n] ELSE 0)
  BY <1>1, Zenon DEF Adding
<1>4. 0 \in 0..Len(Weight) /\ \A n \in 1..Len(Weight) : n \in 0..Len(Weight) /\ n # 0
  BY WeightAssumption
<1>5. F[0] = 0 /\ \A n \in 1..Len(Weight) : F[n] = F[n - 1] + (IF n \in counted THEN amount[n] ELSE 0)
  BY <1>3, <1>4
<1> QED BY <1>2, <1>5, Zenon DEF AddedUp

\* A sum of which each part is at most a hundred times that of another is so itself.
LEMMA TotalBounds ==
    ASSUME NEW counted, NEW a, NEW b,
           \A c \in 1..Len(Weight) : c \in counted => a[c] \in Nat /\ b[c] \in Nat /\ a[c] <= 100 * b[c]
    PROVE  Total(counted, a) \in Nat /\ Total(counted, b) \in Nat
           /\ Total(counted, a) <= 100 * Total(counted, b)
<1> DEFINE L == Len(Weight)
<1>0. L \in Nat
  BY WeightAssumption
<1>1. PICK f : AddedUp(counted, a, f)
  BY TotalTurns
<1>2. PICK g : AddedUp(counted, b, g)
  BY TotalTurns
<1>3. /\ Total(counted, a) = f[L] /\ f[0] = 0
      /\ \A n \in 1..L : f[n] = f[n - 1] + (IF n \in counted THEN a[n] ELSE 0)
  BY <1>1, Zenon DEF AddedUp
<1>4. /\ Total(counted, b) = g[L] /\ g[0] = 0
      /\ \A n \in 1..L : g[n] = g[n - 1] + (IF n \in counted THEN b[n] ELSE 0)
  BY <1>2, Zenon DEF AddedUp
<1> HIDE DEF L
<1>5. \A c \in 1..L : c \in counted => a[c] \in Nat /\ b[c] \in Nat /\ a[c] <= 100 * b[c]
  BY DEF L
<1> DEFINE Bounded(n) == f[n] \in Nat /\ g[n] \in Nat /\ f[n] <= 100 * g[n]
           Good == {n \in Nat : n <= L => Bounded(n)}
<1>6. 0 \in Good
  BY <1>3, <1>4
<1>7. ASSUME NEW n \in Nat, n \in Good PROVE n + 1 \in Good
  <2> SUFFICES ASSUME n + 1 <= L PROVE Bounded(n + 1)
    OBVIOUS
  <2>1. Bounded(n) /\ n + 1 \in 1..L /\ (n + 1) - 1 = n
    BY <1>0, <1>7
  <2>2. CASE n + 1 \in counted
    <3>1. f[n + 1] = f[n] + a[n + 1] /\ g[n + 1] = g[n] + b[n + 1]
      BY <1>3, <1>4, <2>1, <2>2
    <3> QED BY <1>5, <2>1, <2>2, <3>1
  <2>3. CASE n + 1 \notin counted
    <3>1. f[n + 1] = f[n] + 0 /\ g[n + 1] = g[n] + 0
      BY <1>3, <1>4, <2>1, <2>3
    <3> QED BY <2>1, <3>1
  <2> QED BY <2>2, <2>3
<1>8. Nat \subseteq Good
  <2> HIDE DEF Good
  <2> QED BY <1>6, <1>7, NatInduct
<1>9. Bounded(L)
  <2>1. L \in Good
    <3> HIDE DEF Good
    <3> QED BY <1>0, <1>8
  <2>2. L <= L
    BY <1>0
  <2> QED BY <2>1, <2>2
<1> QED BY <1>3, <1>4, <1>9

\* What the analyzers measure of a photo.
Measures == [Components -> 0..100 \cup {Failed}]

\* A score is never out of its range: analyzers that failed do not count.
LEMMA ScoreType ==
    ASSUME NEW s, s.measured \in Measures, s.healthy \in BOOLEAN
    PROVE  Score(s) \in 0..100
<1> DEFINE counted == {c \in Components : s.measured[c] # Failed}
           amount == [c \in Components |-> Weight[c] * s.measured[c]]
           total == Total(counted, amount)
           weight == Total(counted, Weight)
<1>1. Components = 1..Len(Weight)
  BY WeightAssumption DEF Components
<1>2. ASSUME NEW c \in 1..Len(Weight), c \in counted
      PROVE  amount[c] \in Nat /\ Weight[c] \in Nat /\ amount[c] <= 100 * Weight[c]
  <2>1. s.measured[c] \in 0..100 /\ Weight[c] \in Nat
    <3>1. c \in Components /\ s.measured[c] # Failed
      BY <1>1, <1>2
    <3>2. s.measured[c] \in 0..100 \cup {Failed}
      BY <3>1 DEF Measures
    <3>3. Weight[c] \in Nat
      BY WeightAssumption
    <3> QED BY <3>1, <3>2, <3>3
  <2>2. amount[c] = Weight[c] * s.measured[c]
    BY <1>1
  <2> DEFINE w == Weight[c]
             x == s.measured[c]
  <2> HIDE DEF w, x
  <2>3. \A v \in Nat, y \in 0..100 : v * y \in Nat /\ v * y <= 100 * v
    OBVIOUS
  <2> QED BY <2>1, <2>2, <2>3
<1> HIDE DEF counted, amount
<1>3. total \in Nat /\ weight \in Nat /\ total <= 100 * weight
  BY <1>2, TotalBounds
<1>4. Mean(s.measured, counted) = IF weight = 0 THEN 0 ELSE total \div weight
  BY DEF Mean, amount
<1> HIDE DEF total, weight
<1>5. ASSUME weight # 0 PROVE total \div weight \in 0..100
  BY <1>3, <1>5
<1>6. Mean(s.measured, counted) \in 0..100
  BY <1>4, <1>5
<1> QED BY <1>6 DEF Score, counted

\* The representative of a group is its best photo.
LEMMA RepresentativeBest ==
    ASSUME NEW group, IsFiniteSet(group), group # {}, group \subseteq Int,
           NEW score, \A p \in group : score[p] \in Int
    PROVE  LET best == Representative(score, group)
           IN  best \in group /\ \A p \in group : score[p] <= score[best]
<1> DEFINE Worse(p, q) == score[p] < score[q] \/ (score[p] = score[q] /\ p < q)
           worse == {e \in group \X group : Worse(e[1], e[2])}
<1>1. \A p, q \in group : <<p, q>> \in worse <=> Worse(p, q)
  OBVIOUS
<1> HIDE DEF worse
<1>2. \A p \in group : <<p, p>> \notin worse
  BY <1>1
<1>3. \A p, q \in group : p = q \/ <<p, q>> \in worse \/ <<q, p>> \in worse
  <2>1. ASSUME NEW p \in group, NEW q \in group, p # q PROVE Worse(p, q) \/ Worse(q, p)
    <3>1. p \in Int /\ q \in Int /\ score[p] \in Int /\ score[q] \in Int
      OBVIOUS
    <3> QED BY <2>1, <3>1
  <2> HIDE DEF Worse
  <2> QED BY <1>1, <2>1
<1>4. \A p, q, r \in group : <<p, q>> \in worse /\ <<q, r>> \in worse => <<p, r>> \in worse
  BY <1>1
<1>5. Orders(worse, group)
  BY <1>2, <1>3, <1>4 DEF Orders
<1>6. PICK m : m \in LastIn(group, worse)
  BY <1>5, LastExists
<1>7. m \in group /\ \A q \in group \ {m} : <<q, m>> \in worse
  BY <1>6 DEF LastIn
<1>8. \A q \in group \ {m} : Worse(q, m)
  BY <1>1, <1>7
<1>9. \E p \in group : \A q \in group \ {p} : Worse(q, p)
  <2> HIDE DEF Worse
  <2> QED BY <1>7, <1>8
<1> DEFINE best == Representative(score, group)
<1>10. best \in group /\ \A q \in group \ {best} : Worse(q, best)
  BY <1>9, Zenon DEF Representative
<1> HIDE DEF best
<1>11. \A p \in group : score[p] <= score[best]
  BY <1>10
<1> QED BY <1>10, <1>11 DEF best

=============================================================================
