-------------------------- MODULE InductionLemmas --------------------------
(***************************************************************************)
(* Induction where the provers cannot take a predicate: a set of naturals  *)
(* has a least element, a bounded one a greatest, and a function may be    *)
(* defined by its value at 0 and its step.  The second part is about       *)
(* pointers that form a forest: where a walk along them ends.              *)
(***************************************************************************)
EXTENDS Integers, FiniteSetTheorems, WellFoundedInduction, TLAPS

LEMMA HasLeast ==
    ASSUME NEW S, S \subseteq Nat, S # {}
    PROVE  \E x \in S : \A y \in S : x <= y
<1> DEFINE R == OpToRel(<, Nat)
<1>1. IsWellFoundedOn(R, Nat)
  BY NatLessThanWellFounded
<1>2. \E x \in S : \A y \in S : ~(<<y, x>> \in R)
  <2> HIDE DEF R
  <2> QED BY <1>1, WFMin
<1>3. \A x, y \in Nat : <<y, x>> \in R <=> y < x
  BY DEF OpToRel
<1> HIDE DEF R
<1>4. PICK x \in S : \A y \in S : ~(<<y, x>> \in R)
  BY <1>2
<1>5. \A y \in S : x \in Nat /\ y \in Nat /\ ~(y < x)
  BY <1>3, <1>4
<1> QED BY <1>5

LEMMA HasGreatest ==
    ASSUME NEW n \in Nat, NEW S, S \subseteq 0 .. n, S # {}
    PROVE  \E x \in S : \A y \in S : y <= x
<1> DEFINE T == {n - y : y \in S}
<1>1. T \subseteq Nat
  <2>1. \A y \in S : n - y \in Nat
    OBVIOUS
  <2> QED BY <2>1
<1>0. T # {}
  OBVIOUS
<1>2. PICK t \in T : \A y \in T : t <= y
  <2> HIDE DEF T
  <2> QED BY <1>0, <1>1, HasLeast
<1>3. PICK x \in S : t = n - x
  OBVIOUS
<1>4. \A y \in S : n - x <= n - y
  BY <1>2, <1>3
<1> QED BY <1>4

\* There are n numbers below n.
LEMMA SizeBelow ==
    ASSUME NEW n \in Nat
    PROVE  IsFiniteSet(0 .. n-1) /\ Cardinality(0 .. n-1) = n
<1> DEFINE b == n - 1
<1>1. b \in Int /\ n = b + 1 /\ b >= -1
  OBVIOUS
<1> HIDE DEF b
<1>2. /\ IsFiniteSet(0 .. b)
      /\ Cardinality(0 .. b) = IF 0 > b THEN 0 ELSE b - 0 + 1
  BY <1>1, FS_Interval
<1>3. Cardinality(0 .. b) = n
  BY <1>1, <1>2
<1> QED BY <1>2, <1>3 DEF b

\* What holds of 0 and is inherited by the next number holds up to n.
LEMMA UpTo ==
    ASSUME NEW n \in Nat, NEW S, 0 \in S,
           \A i \in 1 .. n : i-1 \in S => i \in S
    PROVE  \A i \in 0 .. n : i \in S
<1> SUFFICES ASSUME NEW j \in 0 .. n, j \notin S PROVE FALSE
  OBVIOUS
<1> DEFINE T == {i \in 0 .. n : i \notin S}
<1>1. T \subseteq Nat /\ T # {}
  OBVIOUS
<1>2. PICK m \in T : \A y \in T : m <= y
  <2> HIDE DEF T
  <2> QED BY <1>1, HasLeast
<1>3. m \in 1 .. n /\ m-1 \in 0 .. n
  OBVIOUS
<1>4. m-1 \notin T
  BY <1>2, <1>3
<1> QED BY <1>3, <1>4

\* A function by its value at 0 and the step to each next value.
Iterates(n, V, start, step, w) ==
    /\ w \in [0 .. n -> V]
    /\ w[0] = start
    /\ \A i \in 1 .. n : w[i] = step[i][w[i-1]]

LEMMA IterationExists ==
    ASSUME NEW n \in Nat, NEW V, NEW start \in V, NEW step \in [1 .. n -> [V -> V]]
    PROVE  \E w : Iterates(n, V, start, step, w)
<1> DEFINE Upto(m) == \E w \in [0 .. n -> V] :
                         /\ w[0] = start
                         /\ \A i \in 1 .. m : w[i] = step[i][w[i-1]]
           S == {m \in 0 .. n : Upto(m)}
<1>1. 0 \in S
  <2> DEFINE c == [i \in 0 .. n |-> start]
  <2>1. c \in [0 .. n -> V] /\ c[0] = start
    OBVIOUS
  <2> HIDE DEF c
  <2>2. Upto(0)
    BY <2>1
  <2> QED BY <2>2
<1>2. ASSUME NEW m \in 1 .. n, m-1 \in S PROVE m \in S
  <2>1. PICK w \in [0 .. n -> V] : /\ w[0] = start
                                   /\ \A i \in 1 .. m-1 : w[i] = step[i][w[i-1]]
    BY <1>2
  <2> DEFINE x == [w EXCEPT ![m] = step[m][w[m-1]]]
  <2>2. step[m] \in [V -> V] /\ m-1 \in 0 .. n /\ w[m-1] \in V
    OBVIOUS
  <2>3. /\ x \in [0 .. n -> V]
        /\ x[m] = step[m][w[m-1]]
        /\ \A i \in 0 .. n : i # m => x[i] = w[i]
    BY <2>2
  <2> HIDE DEF x
  <2>4. \A i \in 1 .. m : x[i] = step[i][x[i-1]]
    <3> TAKE i \in 1 .. m
    <3>1. i \in 0 .. n /\ i-1 \in 0 .. n /\ i-1 # m
      OBVIOUS
    <3> QED BY <2>1, <2>3, <3>1
  <2>5. x[0] = start
    BY <2>1, <2>3
  <2>6. Upto(m)
    BY <2>3, <2>4, <2>5
  <2> QED BY <2>6
<1>3. n \in S
  <2> HIDE DEF S
  <2>1. \A i \in 0 .. n : i \in S
    BY <1>1, <1>2, UpTo
  <2> QED BY <2>1
<1> QED BY <1>3 DEF Iterates

-----------------------------------------------------------------------------
(***************************************************************************)
(* In a finite set with a strict order the number of smaller members tells *)
(* the place of a member: each place is taken once.                        *)
(***************************************************************************)
StrictOrder(R, S) ==
    /\ \A a \in S : <<a, a>> \notin R
    /\ \A a, b, c \in S : <<a, b>> \in R /\ <<b, c>> \in R => <<a, c>> \in R
    /\ \A a, b \in S : a # b => <<a, b>> \in R \/ <<b, a>> \in R

Before(R, S, b) == {c \in S : <<c, b>> \in R}

EachPlaceTaken(R, S) ==
    \A j \in 0 .. Cardinality(S) - 1 : \E b \in S : Cardinality(Before(R, S, b)) = j

LEMMA RankIsPlace ==
    ASSUME NEW S, IsFiniteSet(S), NEW R, StrictOrder(R, S)
    PROVE  /\ \A b \in S : Cardinality(Before(R, S, b)) \in 0 .. Cardinality(S) - 1
           /\ \A a, b \in S : <<a, b>> \in R <=>
                 Cardinality(Before(R, S, a)) < Cardinality(Before(R, S, b))
           /\ EachPlaceTaken(R, S)
<1> DEFINE n == Cardinality(S)
           rank(b) == Cardinality(Before(R, S, b))
           I == 0 .. n-1
           f == [b \in S |-> rank(b)]
<1>1. n \in Nat
  BY FS_CardinalityType
<1>2. ASSUME NEW b \in S
      PROVE  IsFiniteSet(Before(R, S, b)) /\ rank(b) \in Nat /\ rank(b) < n
  <2>1. Before(R, S, b) \in SUBSET S /\ Before(R, S, b) # S
    BY DEF Before, StrictOrder
  <2>2. /\ IsFiniteSet(Before(R, S, b)) /\ rank(b) <= n
        /\ n = rank(b) => S = Before(R, S, b)
    BY <2>1, FS_Subset
  <2>3. rank(b) \in Nat
    BY <2>2, FS_CardinalityType
  <2> QED BY <1>1, <2>1, <2>2, <2>3
<1>3. ASSUME NEW a \in S, NEW b \in S, <<a, b>> \in R PROVE rank(a) < rank(b)
  <2>1. Before(R, S, a) \in SUBSET Before(R, S, b) /\ a \in Before(R, S, b) /\ a \notin Before(R, S, a)
    BY <1>3 DEF Before, StrictOrder
  <2>2. /\ rank(a) <= rank(b)
        /\ rank(b) = rank(a) => Before(R, S, b) = Before(R, S, a)
    BY <1>2, <2>1, FS_Subset
  <2>3. rank(a) \in Nat /\ rank(b) \in Nat
    BY <1>2
  <2> QED BY <2>1, <2>2, <2>3
<1>4. ASSUME NEW a \in S, NEW b \in S
      PROVE  <<a, b>> \in R <=> rank(a) < rank(b)
  <2>1. <<a, b>> \in R \/ a = b \/ <<b, a>> \in R
    BY DEF StrictOrder
  <2>2. rank(a) \in Nat /\ rank(b) \in Nat
    BY <1>2
  <2>3. <<a, b>> \in R => rank(a) < rank(b)
    BY <1>3
  <2>4. <<b, a>> \in R => rank(b) < rank(a)
    BY <1>3
  <2> HIDE DEF rank
  <2> QED BY <2>1, <2>2, <2>3, <2>4
<1>5. \A b \in S : f[b] \in I /\ f[b] = rank(b)
  BY <1>1, <1>2
<1>6. f \in [S -> I]
  BY <1>5
<1>7. \A a, b \in S : f[a] = f[b] => a = b
  <2> TAKE a, b \in S
  <2>1. f[a] \in Int /\ f[b] \in Int /\ f[a] = rank(a) /\ f[b] = rank(b)
    BY <1>5
  <2>2. a # b => <<a, b>> \in R \/ <<b, a>> \in R
    BY DEF StrictOrder
  <2>3. /\ <<a, b>> \in R => rank(a) < rank(b)
        /\ <<b, a>> \in R => rank(b) < rank(a)
    BY <1>3
  <2> HIDE DEF f, rank
  <2>4. rank(a) = rank(b) => ~(rank(a) < rank(b)) /\ ~(rank(b) < rank(a))
    BY <2>1
  <2> QED BY <2>1, <2>2, <2>3, <2>4
<1>8. IsFiniteSet(I) /\ Cardinality(I) = n
  BY <1>1, SizeBelow
<1> HIDE DEF I, rank, f
<1>9. f \in Injection(S, I)
  BY <1>6, <1>7 DEF Injection, IsInjective
<1>10. f \in Surjection(S, I)
  BY <1>8, <1>9, FS_Injection
<1>11. \A j \in I : \E b \in S : f[b] = j
  BY <1>10 DEF Surjection
<1> QED BY <1>4, <1>5, <1>11 DEF rank, I, EachPlaceTaken

-----------------------------------------------------------------------------
(***************************************************************************)
(* Walks along the pointers p: n steps from v, as Root of OrbitSteps and   *)
(* Representative of Orbits make them.                                     *)
(***************************************************************************)
WalkEnd(n, p, v) ==
    LET walk[i \in 0 .. n] == IF i = 0 THEN v ELSE p[walk[i-1]]
    IN  walk[n]

IsWalk(n, S, p, v, w) ==
    /\ w \in [0 .. n -> S]
    /\ w[0] = v
    /\ \A i \in 1 .. n : w[i] = p[w[i-1]]

\* f maps every node to the root of its tree.
IsRootMap(S, p, f) ==
    /\ f \in [S -> S]
    /\ \A v \in S : p[f[v]] = f[v]
    /\ \A v \in S : f[v] = IF p[v] = v THEN v ELSE f[p[v]]

\* The numbers s grow along the pointers.
Grows(S, p, s) == \A v \in S : p[v] # v => s[v] < s[p[v]]

\* The recursive definition has a solution, and it is a walk.
LEMMA WalkTaken ==
    ASSUME NEW n \in Nat, NEW S, NEW p \in [S -> S], NEW v \in S
    PROVE  \E w : IsWalk(n, S, p, v, w) /\ WalkEnd(n, p, v) = w[n]
<1> DEFINE Solves(w) == w = [i \in 0 .. n |-> IF i = 0 THEN v ELSE p[w[i-1]]]
           walk == CHOOSE w : Solves(w)
<1>1. \E w : Solves(w)
  <2> DEFINE step == [i \in 1 .. n |-> p]
  <2>1. step \in [1 .. n -> [S -> S]] /\ \A i \in 1 .. n : step[i] = p
    OBVIOUS
  <2> HIDE DEF step
  <2>2. PICK w : Iterates(n, S, v, step, w)
    BY <2>1, IterationExists
  <2>3. w = [i \in 0 .. n |-> IF i = 0 THEN v ELSE p[w[i-1]]]
    BY <2>1, <2>2 DEF Iterates
  <2>4. Solves(w)
    BY <2>3
  <2> QED BY <2>4
<1>2. Solves(walk)
  <2> HIDE DEF Solves
  <2> QED BY <1>1
<1>3. WalkEnd(n, p, v) = walk[n]
  BY DEF WalkEnd
<1> HIDE DEF walk
<1>4. /\ walk[0] = v
      /\ \A i \in 1 .. n : walk[i] = p[walk[i-1]]
      /\ DOMAIN walk = 0 .. n
  BY <1>2
<1>5. \A i \in 0 .. n : walk[i] \in S
  <2> DEFINE T == {i \in 0 .. n : walk[i] \in S}
  <2>1. 0 \in T
    BY <1>4
  <2>2. \A i \in 1 .. n : i-1 \in T => i \in T
    BY <1>4
  <2>3. \A i \in 0 .. n : i \in T
    <3> HIDE DEF T
    <3> QED BY <2>1, <2>2, UpTo
  <2> QED BY <2>3
<1>6. walk \in [0 .. n -> S]
  BY <1>2, <1>5
<1> QED BY <1>3, <1>4, <1>6 DEF IsWalk

\* With as many steps as nodes a walk along growing sizes ends at a root.
LEMMA WalkReachesRoot ==
    ASSUME NEW n \in Nat, NEW S, IsFiniteSet(S), Cardinality(S) <= n,
           NEW p \in [S -> S], NEW s \in [S -> Nat], Grows(S, p, s),
           NEW v, NEW w, IsWalk(n, S, p, v, w)
    PROVE  p[w[n]] = w[n] /\ w[n] \in S
<1>0. w \in [0 .. n -> S] /\ \A i \in 1 .. n : w[i] = p[w[i-1]]
  BY DEF IsWalk
<1> SUFFICES ASSUME p[w[n]] # w[n] PROVE FALSE
  BY <1>0
<1>1. \A i \in 0 .. n : p[w[i]] # w[i]
  <2> SUFFICES ASSUME NEW j \in 0 .. n, p[w[j]] = w[j] PROVE FALSE
    OBVIOUS
  <2> DEFINE T == {i \in 0 .. n : p[w[i]] = w[i]}
  <2>1. T \subseteq 0 .. n /\ T # {}
    OBVIOUS
  <2>2. PICK m \in T : \A y \in T : y <= m
    <3> HIDE DEF T
    <3> QED BY <2>1, HasGreatest
  <2>3. m \in 0 .. n /\ m # n /\ p[w[m]] = w[m]
    OBVIOUS
  <2>4. m+1 \in 1 .. n /\ (m+1) - 1 = m
    BY <2>3
  <2>5. w[m+1] = w[m]
    BY <1>0, <2>3, <2>4
  <2>6. m+1 \in T
    BY <2>3, <2>4, <2>5
  <2> QED BY <2>2, <2>3, <2>6
<1>2. \A i \in 1 .. n : s[w[i-1]] < s[w[i]]
  <2> TAKE i \in 1 .. n
  <2>1. i-1 \in 0 .. n /\ w[i-1] \in S /\ w[i] = p[w[i-1]]
    BY <1>0
  <2> QED BY <1>1, <2>1 DEF Grows
<1>3. \A j \in 0 .. n : \A i \in 0 .. j-1 : s[w[i]] < s[w[j]]
  <2> DEFINE T == {j \in 0 .. n : \A i \in 0 .. j-1 : s[w[i]] < s[w[j]]}
  <2>1. 0 \in T
    OBVIOUS
  <2>2. ASSUME NEW j \in 1 .. n, j-1 \in T PROVE j \in T
    <3>1. \A i \in 0 .. j-2 : s[w[i]] < s[w[j-1]]
      BY <2>2
    <3>2. s[w[j-1]] < s[w[j]]
      BY <1>2
    <3>3. \A i \in 0 .. n : s[w[i]] \in Nat
      BY <1>0
    <3>4. ASSUME NEW i \in 0 .. j-1 PROVE s[w[i]] < s[w[j]]
      <4>1. i = j-1 \/ i \in 0 .. j-2
        OBVIOUS
      <4> QED BY <3>1, <3>2, <3>3, <4>1
    <3> QED BY <3>4
  <2>3. \A j \in 0 .. n : j \in T
    <3> HIDE DEF T
    <3> QED BY <2>1, <2>2, UpTo
  <2> QED BY <2>3
<1>4. PICK i, j \in 0 .. n : i # j /\ w[i] = w[j]
  <2>1. IsFiniteSet(0 .. n) /\ Cardinality(0 .. n) = n + 1
    BY FS_Interval
  <2>2. Cardinality(S) \in Nat
    BY FS_CardinalityType
  <2>3. Cardinality(S) < Cardinality(0 .. n)
    BY <2>1, <2>2
  <2>4. w \in [0 .. n -> S]
    BY <1>0
  <2> DEFINE I == 0 .. n
  <2> HIDE DEF I
  <2>5. IsFiniteSet(I) /\ Cardinality(S) < Cardinality(I) /\ w \in [I -> S]
    BY <2>1, <2>3, <2>4 DEF I
  <2>6. \E x, y \in I : x # y /\ w[x] = w[y]
    BY <2>5, FS_PigeonHole
  <2> QED BY <2>6 DEF I
<1>5. \A a \in 0 .. n : s[w[a]] \in Nat
  BY <1>0
<1>6. i \in 0 .. j-1 \/ j \in 0 .. i-1
  BY <1>4
<1> QED BY <1>3, <1>4, <1>5, <1>6

\* Whatever maps the nodes to their roots agrees with the walks.
LEMMA WalkEndIsRoot ==
    ASSUME NEW n \in Nat, NEW S, IsFiniteSet(S), Cardinality(S) <= n,
           NEW p \in [S -> S], NEW s \in [S -> Nat], Grows(S, p, s),
           NEW f, IsRootMap(S, p, f), NEW v \in S
    PROVE  WalkEnd(n, p, v) = f[v]
<1>1. PICK w : IsWalk(n, S, p, v, w) /\ WalkEnd(n, p, v) = w[n]
  BY WalkTaken
<1>2. p[w[n]] = w[n]
  BY <1>1, WalkReachesRoot
<1>3. \A i \in 0 .. n : f[w[i]] = f[v]
  <2> DEFINE T == {i \in 0 .. n : f[w[i]] = f[v]}
  <2>1. 0 \in T
    BY <1>1 DEF IsWalk
  <2>2. ASSUME NEW i \in 1 .. n, i-1 \in T PROVE i \in T
    <3>1. i-1 \in 0 .. n /\ w[i-1] \in S /\ w[i] = p[w[i-1]] /\ f[w[i-1]] = f[v]
      BY <1>1, <2>2 DEF IsWalk
    <3>2. f[p[w[i-1]]] = f[w[i-1]]
      BY <3>1 DEF IsRootMap
    <3> QED BY <3>1, <3>2
  <2>3. \A i \in 0 .. n : i \in T
    <3> HIDE DEF T
    <3> QED BY <2>1, <2>2, UpTo
  <2> QED BY <2>3
<1>4. w[n] \in S /\ f[w[n]] = f[v]
  BY <1>1, <1>3 DEF IsWalk
<1>5. f[w[n]] = w[n]
  BY <1>2, <1>4 DEF IsRootMap
<1> QED BY <1>1, <1>4, <1>5

\* The walks map the nodes to their roots.
LEMMA WalksMapToRoots ==
    ASSUME NEW n \in Nat, NEW S, IsFiniteSet(S), Cardinality(S) <= n,
           NEW p \in [S -> S], NEW s \in [S -> Nat], Grows(S, p, s)
    PROVE  IsRootMap(S, p, [v \in S |-> WalkEnd(n, p, v)])
<1>1. ASSUME NEW v \in S
      PROVE  /\ WalkEnd(n, p, v) \in S
             /\ p[WalkEnd(n, p, v)] = WalkEnd(n, p, v)
  <2>1. PICK w : IsWalk(n, S, p, v, w) /\ WalkEnd(n, p, v) = w[n]
    BY WalkTaken
  <2>2. p[w[n]] = w[n] /\ w[n] \in S
    BY <2>1, WalkReachesRoot
  <2> QED BY <2>1, <2>2
<1>2. ASSUME NEW v \in S
      PROVE  WalkEnd(n, p, v) = IF p[v] = v THEN v ELSE WalkEnd(n, p, p[v])
  <2>1. PICK w : IsWalk(n, S, p, v, w) /\ WalkEnd(n, p, v) = w[n]
    BY WalkTaken
  <2>2. p[v] \in S
    OBVIOUS
  <2>3. PICK x : IsWalk(n, S, p, p[v], x) /\ WalkEnd(n, p, p[v]) = x[n]
    BY <2>2, WalkTaken
  \* The second walk is one step ahead of the first.
  <2>4. \A i \in 0 .. n : x[i] = p[w[i]]
    <3> DEFINE T == {i \in 0 .. n : x[i] = p[w[i]]}
    <3>1. 0 \in T
      BY <2>1, <2>3 DEF IsWalk
    <3>2. \A i \in 1 .. n : i-1 \in T => i \in T
      BY <2>1, <2>3 DEF IsWalk
    <3>3. \A i \in 0 .. n : i \in T
      <4> HIDE DEF T
      <4> QED BY <3>1, <3>2, UpTo
    <3> QED BY <3>3
  <2>5. x[n] = w[n]
    BY <1>1, <2>1, <2>4
  <2>6. CASE p[v] = v
    <3> DEFINE T == {i \in 0 .. n : w[i] = v}
    <3>1. 0 \in T
      BY <2>1 DEF IsWalk
    <3>2. \A i \in 1 .. n : i-1 \in T => i \in T
      BY <2>1, <2>6 DEF IsWalk
    <3>3. \A i \in 0 .. n : i \in T
      <4> HIDE DEF T
      <4> QED BY <3>1, <3>2, UpTo
    <3> QED BY <2>1, <2>6, <3>3
  <2> QED BY <2>1, <2>3, <2>5, <2>6
<1> DEFINE f == [v \in S |-> WalkEnd(n, p, v)]
<1>3. f \in [S -> S] /\ \A v \in S : f[v] = WalkEnd(n, p, v)
  BY <1>1
<1> HIDE DEF f
<1>4. \A v \in S : p[f[v]] = f[v] /\ f[v] = IF p[v] = v THEN v ELSE f[p[v]]
  BY <1>1, <1>2, <1>3
<1> QED BY <1>3, <1>4 DEF IsRootMap, f

-----------------------------------------------------------------------------
(***************************************************************************)
(* Division with a remainder.                                              *)
(***************************************************************************)
LEMMA ProductGrows ==
    ASSUME NEW a \in Nat, NEW b \in Nat, a <= b, NEW w \in Nat
    PROVE  a * w <= b * w /\ a * w \in Nat
<1>1. PICK d \in Nat : b = a + d
  <2>1. b - a \in Nat /\ b = a + (b - a)
    OBVIOUS
  <2> QED BY <2>1
<1>2. b * w = a * w + d * w
  BY <1>1
<1>3. d * w \in Nat /\ a * w \in Nat
  OBVIOUS
<1> QED BY <1>2, <1>3

LEMMA PlaceUnique ==
    ASSUME NEW w \in Nat \ {0}, NEW a \in Nat, NEW b \in Nat, NEW i \in 0 .. w-1,
           NEW j \in 0 .. w-1, a * w + i = b * w + j
    PROVE  a = b /\ i = j
<1>1. ASSUME NEW x \in Nat, NEW y \in Nat, NEW k \in 0 .. w-1, NEW l \in 0 .. w-1,
             x < y, x * w + k = y * w + l
      PROVE  FALSE
  <2>1. (x + 1) * w <= y * w
    <3>1. x + 1 \in Nat /\ x + 1 <= y /\ w \in Nat
      BY <1>1
    <3> QED BY <3>1, ProductGrows
  <2>2. (x + 1) * w = x * w + w
    OBVIOUS
  <2>3. x * w \in Int /\ y * w \in Int
    OBVIOUS
  <2> QED BY <1>1, <2>1, <2>2, <2>3
<1>2. ~(a < b) /\ ~(b < a)
  BY <1>1
<1>3. a = b
  BY <1>2
<1>4. a * w \in Int
  OBVIOUS
<1> QED BY <1>3, <1>4

LEMMA Divided ==
    ASSUME NEW w \in Nat \ {0}, NEW a \in Nat
    PROVE  /\ a \div w \in Nat
           /\ a % w \in 0 .. w-1
           /\ a = (a \div w) * w + (a % w)
OBVIOUS

LEMMA QuotientUnique ==
    ASSUME NEW w \in Nat \ {0}, NEW a \in Nat, NEW q \in Nat, NEW r \in 0 .. w-1, a = q * w + r
    PROVE  a \div w = q /\ a % w = r
<1> DEFINE d == a \div w
           m == a % w
<1>1. d \in Nat /\ m \in 0 .. w-1 /\ a = d * w + m
  BY Divided
<1> HIDE DEF d, m
<1>2. d * w + m = q * w + r
  BY <1>1
<1>3. d = q /\ m = r
  BY <1>1, <1>2, PlaceUnique
<1> QED BY <1>3 DEF d, m

\* Adding to a remainder, and the carry.
LEMMA RemainderAdds ==
    ASSUME NEW w \in Nat \ {0}, NEW a \in Nat, NEW b \in Nat
    PROVE  /\ ((a % w) + b) % w = (a + b) % w
           /\ (a \div w) + (((a % w) + b) \div w) = (a + b) \div w
<1> DEFINE q == a \div w
           r == a % w
           t == r + b
           p == t \div w
           s == t % w
<1>1. q \in Nat /\ r \in 0 .. w-1 /\ a = q * w + r
  BY Divided
<1>2. t \in Nat
  BY <1>1
<1>3. p \in Nat /\ s \in 0 .. w-1 /\ t = p * w + s
  <2> HIDE DEF t
  <2> QED BY <1>2, Divided
<1>4. r + b = p * w + s
  BY <1>3
<1>5. (q + p) * w = q * w + p * w /\ q * w \in Nat /\ p * w \in Nat
  <2> HIDE DEF q, p, s
  <2> QED BY <1>1, <1>3
<1>6. a + b = (q + p) * w + s
  <2> HIDE DEF q, p, r, s, t
  <2> QED BY <1>1, <1>3, <1>4, <1>5
<1> DEFINE c == a + b
           u == q + p
<1>7. c \in Nat /\ u \in Nat /\ c = u * w + s
  <2> HIDE DEF q, p, r, s, t
  <2> QED BY <1>1, <1>3, <1>6
<1>8. c \div w = u /\ c % w = s
  <2> HIDE DEF c, u, s
  <2> QED BY <1>3, <1>7, QuotientUnique
<1> QED BY <1>8
=============================================================================
