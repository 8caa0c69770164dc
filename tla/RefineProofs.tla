---------------------------- MODULE RefineProofs ----------------------------
(***************************************************************************)
(* What the refinements reach, for every graph and every number of nodes   *)
(* they are made for.  The invariant is that the labels stay in color      *)
(* order, and after a refinement also name the class starts.               *)
(***************************************************************************)
EXTENDS RefineApi, RefineLemmas, TLAPS

-----------------------------------------------------------------------------
(***************************************************************************)
(* Renamed nodes.  Two sorts of the same keys carry the same key at each   *)
(* place, however ties come out, so numbers along them are the same.       *)
(***************************************************************************)
IsRenaming(p) ==
    /\ p \in [Nodes -> Nodes]
    /\ \A u, v \in Nodes : p[u] = p[v] => u = v
    /\ \A x \in Nodes : \E u \in Nodes : p[u] = x

Carries(f, h, p) == \A u \in Nodes : h[p[u]] = f[u]

CarriesOrder(less, more, p) ==
    \A u, v \in Nodes : <<p[u], p[v]>> \in more <=> <<u, v>> \in less

CarriesGraph(g, h, p) == \A u \in Nodes : h[p[u]] = {p[v] : v \in g[u]}

LessThan(less, u) == {v \in Nodes : <<v, u>> \in less}

Ranks(less) == [u \in Nodes |-> Cardinality(LessThan(less, u))]

LEMMA RankGrows ==
    ASSUME NEW less, NEW key, Orders(less, key), NEW u \in Nodes, NEW v \in Nodes
    PROVE  /\ Ranks(less)[u] \in Nat
           /\ <<v, u>> \notin less => Ranks(less)[u] <= Ranks(less)[v]
           /\ <<u, v>> \in less => Ranks(less)[u] < Ranks(less)[v]
<1> DEFINE A == LessThan(less, u)
           B == LessThan(less, v)
<1>1. /\ A \in SUBSET Nodes /\ B \in SUBSET Nodes
      /\ IsFiniteSet(A) /\ Cardinality(A) \in Nat
      /\ IsFiniteSet(B) /\ Cardinality(B) \in Nat
  <2>1. A \in SUBSET Nodes /\ B \in SUBSET Nodes
    BY DEF LessThan
  <2> HIDE DEF A, B
  <2> QED BY <2>1, NodeSetsFinite, NAssumption
<1>2. Ranks(less)[u] = Cardinality(A) /\ Ranks(less)[v] = Cardinality(B)
  BY DEF Ranks
<1>3. ASSUME <<v, u>> \notin less PROVE A \subseteq B
  <2> SUFFICES ASSUME NEW w \in Nodes, <<w, u>> \in less PROVE <<w, v>> \in less
    BY DEF LessThan
  <2> QED BY <1>3, NotLessThanBefore
<1>4. ASSUME <<u, v>> \in less PROVE <<v, u>> \notin less /\ u \in B /\ u \notin A
  BY <1>4 DEF Orders, LessThan
<1> HIDE DEF A, B
<1>5. A \subseteq B => Cardinality(A) <= Cardinality(B)
  BY <1>1, FS_Subset
<1>6. A \subseteq B /\ u \in B /\ u \notin A => Cardinality(A) < Cardinality(B)
  <2> SUFFICES ASSUME A \subseteq B, u \in B, u \notin A PROVE Cardinality(A) < Cardinality(B)
    OBVIOUS
  <2>1. A \subseteq B \ {u} /\ IsFiniteSet(B \ {u})
    BY <1>1, FS_RemoveElement
  <2>2. Cardinality(A) <= Cardinality(B \ {u})
    BY <2>1, FS_Subset
  <2>3. Cardinality(B \ {u}) = Cardinality(B) - 1
    BY <1>1, FS_RemoveElement
  <2> QED BY <1>1, <2>2, <2>3
<1> QED BY <1>1, <1>2, <1>3, <1>4, <1>5, <1>6

\* The places of a sort, counted from 0.
FromZero(t) == [q \in Positions |-> t[q+1]]

LEMMA RanksAscend ==
    ASSUME NEW less, NEW key, Orders(less, key), NEW t, SortedNodes(less, t, N)
    PROVE  Enumeration(FromZero(t)) /\ AscendsAlong(Ranks(less), FromZero(t))
<1> DEFINE a == FromZero(t)
<1>1. N \in Nat /\ Positions = 0 .. N-1 /\ Nodes = 0 .. N-1
  BY NAssumption DEF Positions, Nodes
<1>2. \A q \in Positions : q+1 \in 1 .. N /\ a[q] = t[q+1]
  BY <1>1 DEF FromZero
<1>3. /\ \A i \in 1 .. N : t[i] \in Nodes
      /\ \A i, j \in 1 .. N : t[i] = t[j] => i = j
      /\ \A u \in Nodes : \E j \in 1 .. N : t[j] = u
      /\ \A i, j \in 1 .. N : i < j => <<t[j], t[i]>> \notin less
  BY <1>1 DEF SortedNodes
<1>4. Enumeration(a)
  <2>1. a \in [Positions -> Nodes]
    BY <1>2, <1>3 DEF FromZero
  <2>2. \A q, r \in Positions : a[q] = a[r] => q = r
    <3> TAKE q, r \in Positions
    <3>1. a[q] = a[r] => q+1 = r+1
      BY <1>2, <1>3
    <3> QED BY <1>1, <3>1
  <2>3. ASSUME NEW u \in Nodes PROVE \E q \in Positions : a[q] = u
    <3>1. PICK j \in 1 .. N : t[j] = u
      BY <1>3
    <3>2. j-1 \in Positions /\ (j-1)+1 = j
      BY <1>1
    <3> QED BY <1>2, <3>1, <3>2
  <2> HIDE DEF a
  <2> QED BY <2>1, <2>2, <2>3 DEF Enumeration
<1>5. ASSUME NEW r \in Positions, NEW q \in 0 .. r
      PROVE  Ranks(less)[a[q]] <= Ranks(less)[a[r]]
  <2>1. q \in Positions /\ a[q] \in Nodes /\ a[r] \in Nodes
    BY <1>1, <1>4 DEF Enumeration
  <2>2. CASE q = r
    <3>1. Ranks(less)[a[q]] \in Nat
      BY <2>1, RankGrows
    <3> QED BY <2>2, <3>1
  <2>3. CASE q < r
    <3>1. <<a[r], a[q]>> \notin less
      <4>1. q+1 < r+1 /\ q+1 \in 1 .. N /\ r+1 \in 1 .. N
        BY <1>1, <2>3
      <4>2. <<t[r+1], t[q+1]>> \notin less
        BY <1>3, <4>1
      <4> QED BY <1>2, <2>1, <4>2
    <3> HIDE DEF a
    <3> QED BY <2>1, <3>1, RankGrows
  <2> QED BY <1>1, <2>2, <2>3
<1> QED BY <1>4, <1>5 DEF AscendsAlong

LEMMA SortsAgree ==
    ASSUME NEW less, NEW key, Orders(less, key), NEW t, SortedNodes(less, t, N),
           NEW s, SortedNodes(less, s, N), NEW i \in 1 .. N
    PROVE  key[t[i]] = key[s[i]]
<1> DEFINE f == Ranks(less)
           a == FromZero(t)
           b == FromZero(s)
<1>1. N \in Nat /\ Positions = 0 .. N-1 /\ i-1 \in Positions /\ (i-1)+1 = i
  BY NAssumption DEF Positions
<1>2. f \in [Nodes -> Int]
  <2>1. \A u \in Nodes : f[u] \in Nat
    BY RankGrows
  <2> QED BY <2>1 DEF Ranks
<1>3. Enumeration(a) /\ AscendsAlong(f, a) /\ Enumeration(b) /\ AscendsAlong(f, b)
  BY RanksAscend
<1>4. a[i-1] = t[i] /\ b[i-1] = s[i]
  BY <1>1 DEF FromZero
<1>5. t[i] \in Nodes /\ s[i] \in Nodes
  BY <1>1, <1>3, <1>4 DEF Enumeration
<1>6. \A u, v \in Nodes : <<u, v>> \in less => f[u] < f[v]
  BY RankGrows
<1> HIDE DEF f, a, b
<1>7. f[t[i]] = f[s[i]]
  <2>1. f[a[i-1]] = f[b[i-1]]
    BY <1>1, <1>2, <1>3, SameAlong
  <2> QED BY <1>4, <2>1
<1>8. <<t[i], s[i]>> \notin less /\ <<s[i], t[i]>> \notin less
  BY <1>2, <1>5, <1>6, <1>7
<1> QED BY <1>5, <1>8 DEF Orders

\* A sort of renamed keys, with the names taken back, is a sort of the keys.
LEMMA SortNamedBack ==
    ASSUME NEW p, IsRenaming(p), NEW less, NEW more, CarriesOrder(less, more, p),
           NEW t, SortedNodes(more, t, N)
    PROVE  \E s : SortedNodes(less, s, N) /\ \A i \in 1 .. N : s[i] \in Nodes /\ p[s[i]] = t[i]
<1> DEFINE s == [i \in 1 .. N |-> CHOOSE u \in Nodes : p[u] = t[i]]
<1>1. /\ Nodes = 0 .. N-1
      /\ \A i \in 1 .. N : t[i] \in Nodes
      /\ \A i, j \in 1 .. N : t[i] = t[j] => i = j
      /\ \A u \in Nodes : \E j \in 1 .. N : t[j] = u
      /\ \A i, j \in 1 .. N : i < j => <<t[j], t[i]>> \notin more
  BY DEF SortedNodes, Nodes
<1>2. \A i \in 1 .. N : s[i] \in Nodes /\ p[s[i]] = t[i]
  <2> TAKE i \in 1 .. N
  <2>1. \E u \in Nodes : p[u] = t[i]
    BY <1>1 DEF IsRenaming
  <2> QED BY <2>1
<1>3. s \in [1 .. N -> 0 .. N-1]
  BY <1>1, <1>2
<1> HIDE DEF s
<1>4. \A i, j \in 1 .. N : s[i] = s[j] => i = j
  <2> TAKE i, j \in 1 .. N
  <2>1. s[i] = s[j] => t[i] = t[j]
    BY <1>2
  <2> QED BY <1>1, <2>1
<1>5. ASSUME NEW u \in Nodes PROVE \E j \in 1 .. N : s[j] = u
  <2>1. p[u] \in Nodes
    BY DEF IsRenaming
  <2>2. PICK j \in 1 .. N : t[j] = p[u]
    BY <1>1, <2>1
  <2>3. s[j] = u
    BY <1>2, <2>2 DEF IsRenaming
  <2> QED BY <2>3
<1>6. ASSUME NEW i \in 1 .. N, NEW j \in 1 .. N, i < j PROVE <<s[j], s[i]>> \notin less
  <2>1. <<p[s[j]], p[s[i]]>> \notin more
    BY <1>1, <1>2, <1>6
  <2> QED BY <1>2, <2>1 DEF CarriesOrder
<1>7. SortedNodes(less, s, N)
  BY <1>1, <1>3, <1>4, <1>5, <1>6 DEF SortedNodes
<1> QED BY <1>2, <1>7

LEMMA KeysAlong ==
    ASSUME NEW p, IsRenaming(p), NEW less, NEW more, CarriesOrder(less, more, p),
           NEW key, NEW name, Orders(less, key), Carries(key, name, p),
           NEW t, SortedNodes(less, t, N), NEW s, SortedNodes(more, s, N), NEW i \in 1 .. N
    PROVE  name[s[i]] = key[t[i]]
<1>1. PICK r : SortedNodes(less, r, N) /\ \A j \in 1 .. N : r[j] \in Nodes /\ p[r[j]] = s[j]
  BY SortNamedBack
<1>2. key[t[i]] = key[r[i]]
  BY <1>1, SortsAgree
<1>3. r[i] \in Nodes /\ p[r[i]] = s[i]
  BY <1>1
<1> QED BY <1>2, <1>3 DEF Carries

\* Both numberings look at nothing but the keys along the sort.
LEMMA NumbersSame ==
    ASSUME NEW key, NEW name, NEW t, NEW s, \A i \in 1 .. N : name[s[i]] = key[t[i]]
    PROVE  /\ ChangeNumbers(name, s) = ChangeNumbers(key, t)
           /\ FirstNumbers(name, s) = FirstNumbers(key, t)
<1>1. ASSUME NEW m \in 1 .. N
      PROVE  Changes(Items(name, s, N), m) = Changes(Items(key, t, N), m)
  <2>1. ASSUME NEW i \in 2 .. m
        PROVE  /\ Items(name, s, N)[i].key = Items(key, t, N)[i].key
               /\ Items(name, s, N)[i-1].key = Items(key, t, N)[i-1].key
    <3>1. i \in 1 .. N /\ i-1 \in 1 .. N
      BY NAssumption
    <3> QED BY <3>1 DEF Items, Item
  <2> QED BY <2>1 DEF Changes
<1> QED BY <1>1 DEF ChangeNumbers, FirstNumbers

LEMMA ColorsCarried ==
    ASSUME NEW p, IsRenaming(p), NEW less, NEW more, CarriesOrder(less, more, p),
           NEW key, NEW name, Orders(less, key), Carries(key, name, p),
           NEW t, SortedNodes(less, t, N), NEW s, SortedNodes(more, s, N),
           NEW k, InOrder(k), NEW m, InOrder(m), NEW c, Numbering(key, t, c)
    PROVE  Carries(Numbered(k, t, c).color, Numbered(m, s, c).color, p)
<1> DEFINE f == Numbered(k, t, c).color
           h == Numbered(m, s, c).color
<1>1. PICK r : SortedNodes(less, r, N) /\ \A j \in 1 .. N : r[j] \in Nodes /\ p[r[j]] = s[j]
  BY SortNamedBack
<1>2. Numbers(c) /\ EachOnce(t) /\ EachOnce(s) /\ EachOnce(r)
  BY <1>1, SortedEachOnce DEF Numbering, Numbers
<1>3. \A i \in 1 .. N : f[t[i]] = c[i] /\ h[s[i]] = c[i]
  BY <1>2, ColorsSet
<1> HIDE DEF f, h
<1>4. ASSUME NEW u \in Nodes PROVE h[p[u]] = f[u]
  <2>1. PICK i \in 1 .. N : r[i] = u
    BY <1>2 DEF EachOnce
  <2>2. PICK j \in 1 .. N : t[j] = u
    BY <1>2 DEF EachOnce
  <2>3. key[t[i]] = key[t[j]]
    <3>1. key[t[i]] = key[r[i]]
      BY <1>1, SortsAgree
    <3> QED BY <2>1, <2>2, <3>1
  <2>4. /\ key[t[i]] = key[t[j]] <=> c[i] = c[j]
        /\ <<t[i], t[j]>> \in less => c[i] < c[j]
    BY NumbersTell
  <2>5. p[u] = s[i]
    BY <1>1, <2>1
  <2> QED BY <1>3, <2>2, <2>3, <2>4, <2>5
<1> QED BY <1>4 DEF Carries, f, h

-----------------------------------------------------------------------------
(***************************************************************************)
(* Hashes, fingerprints and rounds go along with a renaming.               *)
(***************************************************************************)
AreRenamed(g, h, p) ==
    /\ g \in [Nodes -> SUBSET Nodes]
    /\ h \in [Nodes -> SUBSET Nodes]
    /\ IsRenaming(p)
    /\ CarriesGraph(g, h, p)

LEMMA NeighboursRenamed ==
    ASSUME NEW g, NEW h, NEW p, AreRenamed(g, h, p), NEW a, NEW b, Carries(a, b, p),
           NEW u \in Nodes
    PROVE  \E q : Matches(a, b, g[u], h[p[u]], q)
<1> DEFINE S == g[u]
           T == {p[v] : v \in S}
           q == [v \in S |-> p[v]]
<1>1. S \in SUBSET Nodes /\ h[p[u]] = T
  BY DEF AreRenamed, CarriesGraph
<1>2. p \in [Nodes -> Nodes] /\ \A v, w \in Nodes : p[v] = p[w] => v = w
  BY DEF AreRenamed, IsRenaming
<1> HIDE DEF S
<1>3. T \in SUBSET Nodes /\ q \in [S -> T]
  BY <1>1, <1>2
<1>4. \A v \in S : q[v] = p[v] /\ v \in Nodes
  BY <1>1
<1>5. \A v, w \in S : q[v] = q[w] => v = w
  BY <1>2, <1>4
<1>6. \A x \in T : \E v \in S : q[v] = x
  BY <1>4
<1>7. \A v \in S : b[q[v]] = a[v]
  BY <1>4 DEF Carries
<1> HIDE DEF T, q
<1>8. Matches(a, b, S, T, q)
  BY <1>1, <1>3, <1>5, <1>6, <1>7 DEF Matches
<1> QED BY <1>1, <1>8 DEF S

LEMMA HashRoundRenamed ==
    ASSUME NEW g, NEW h, NEW p, AreRenamed(g, h, p),
           NEW a \in Hashed, NEW b \in Hashed, Carries(a, b, p)
    PROVE  Carries(HashRound(g, a), HashRound(h, b), p)
<1> SUFFICES ASSUME NEW u \in Nodes PROVE HashRound(h, b)[p[u]] = HashRound(g, a)[u]
  BY DEF Carries
<1> DEFINE base == HashFmix32(a[u])
           S == g[u]
           T == h[p[u]]
<1>1. b[p[u]] = a[u] /\ a[u] \in Words /\ p[u] \in Nodes
  BY DEF Carries, Hashed, AreRenamed, IsRenaming
<1>2. base \in Words
  BY <1>1, FinalizedWord
<1>3. PICK q : Matches(a, b, S, T, q)
  BY NeighboursRenamed
<1>4. HashRound(g, a)[u] = HashFmix32(SumOf(a, S, base))
      /\ HashRound(h, b)[p[u]] = HashFmix32(SumOf(b, T, base))
  BY <1>1 DEF HashRound
<1> HIDE DEF base, S, T
<1>5. SumOf(a, S, base) = SumOf(b, T, base)
  BY <1>2, <1>3, SumCarries
<1> QED BY <1>4, <1>5

LEMMA HashKeysRenamed ==
    ASSUME FewNodes, NEW g, NEW h, NEW p, AreRenamed(g, h, p),
           NEW k, InOrder(k), NEW m, InOrder(m), Carries(k.color, m.color, p)
    PROVE  Carries(HashKeys(g, k, 2), HashKeys(h, m, 2), p)
<1> DEFINE a == Start(k)
           b == Start(m)
           c == HashRound(g, a)
           d == HashRound(h, b)
<1>1. k \in Colorings /\ m \in Colorings /\ p \in [Nodes -> Nodes]
      /\ g \in [Nodes -> SUBSET Nodes] /\ h \in [Nodes -> SUBSET Nodes]
  BY DEF InOrder, Enumerates, AreRenamed, IsRenaming
<1>2. a \in Hashed /\ b \in Hashed /\ c \in Hashed /\ d \in Hashed
  BY <1>1, StartHashed, RoundHashed
<1>3. Carries(a, b, p)
  BY <1>1 DEF Carries, Start
<1> HIDE DEF a, b
<1>4. Carries(c, d, p)
  BY <1>2, <1>3, HashRoundRenamed
<1> HIDE DEF c, d
<1>5. Carries(HashRound(g, c), HashRound(h, d), p)
  BY <1>2, <1>4, HashRoundRenamed
<1>6. Carries(FinalHash(g, k), FinalHash(h, m), p)
  BY <1>5 DEF FinalHash, a, b, c, d
<1>7. /\ HashKeys(g, k, 2) = [u \in Nodes |-> ColorKey(FinalHash(g, k)[u], k.color[u])]
      /\ HashKeys(h, m, 2) = [u \in Nodes |-> ColorKey(FinalHash(h, m)[u], m.color[u])]
  BY <1>1, KeysHashed
<1> QED BY <1>1, <1>6, <1>7 DEF Carries

LEMMA HashingRenamed ==
    ASSUME FewNodes, NEW g, NEW h, NEW p, AreRenamed(g, h, p),
           NEW k, InOrder(k), NEW m, InOrder(m), Carries(k.color, m.color, p)
    PROVE  Carries(Hashing(g, k, 2).color, Hashing(h, m, 2).color, p)
<1> DEFINE key == HashKeys(g, k, 2)
           name == HashKeys(h, m, 2)
<1>1. key \in Hashed /\ name \in Hashed /\ Carries(key, name, p) /\ IsRenaming(p)
  <2>1. k \in Colorings /\ m \in Colorings
        /\ g \in [Nodes -> SUBSET Nodes] /\ h \in [Nodes -> SUBSET Nodes]
    BY DEF InOrder, Enumerates, AreRenamed
  <2> QED BY <2>1, KeysHashed, HashKeysRenamed DEF AreRenamed
<1>2. key = HashKeys(g, k, 2) /\ name = HashKeys(h, m, 2)
  OBVIOUS
<1> HIDE DEF key, name
<1>3. PICK t : /\ SortedNodes(HashLess(key), t, N)
               /\ Hashing(g, k, 2) = Numbered(k, t, ChangeNumbers(key, t))
  BY <1>1, <1>2, HashingNumbered
<1>4. PICK s : /\ SortedNodes(HashLess(name), s, N)
               /\ Hashing(h, m, 2) = Numbered(m, s, ChangeNumbers(name, s))
  BY <1>1, <1>2, HashingNumbered
<1>5. Orders(HashLess(key), key)
  BY <1>1, BelowOrders DEF HashLess
<1>6. CarriesOrder(HashLess(key), HashLess(name), p)
  <2>1. p \in [Nodes -> Nodes]
    BY <1>1 DEF IsRenaming
  <2> QED BY <1>1, <2>1 DEF CarriesOrder, HashLess, Carries
<1> DEFINE c == ChangeNumbers(key, t)
           less == HashLess(key)
           more == HashLess(name)
<1>7. ChangeNumbers(name, s) = c
  <2>1. \A i \in 1 .. N : name[s[i]] = key[t[i]]
    BY <1>1, <1>3, <1>4, <1>5, <1>6, KeysAlong
  <2> QED BY <2>1, NumbersSame
<1>8. Numbering(key, t, c)
  <2> HIDE DEF c
  <2> QED BY ChangesSoFar DEF c, ChangeNumbers
<1>9. /\ SortedNodes(less, t, N) /\ SortedNodes(more, s, N)
      /\ Orders(less, key) /\ CarriesOrder(less, more, p)
  BY <1>3, <1>4, <1>5, <1>6
<1> HIDE DEF c, less, more
<1>10. Carries(Numbered(k, t, c).color, Numbered(m, s, c).color, p)
  BY <1>1, <1>8, <1>9, ColorsCarried
<1> QED BY <1>3, <1>4, <1>7, <1>10 DEF c

LEMMA PrintsRenamed ==
    ASSUME NEW g, NEW h, NEW p, AreRenamed(g, h, p),
           NEW k, NEW m, Carries(k.color, m.color, p)
    PROVE  Carries(Prints(g, k), Prints(h, m), p)
<1> SUFFICES ASSUME NEW u \in Nodes PROVE Prints(h, m)[p[u]] = Prints(g, k)[u]
  BY DEF Carries
<1>1. p[u] \in Nodes /\ m.color[p[u]] = k.color[u]
  BY DEF AreRenamed, IsRenaming, Carries
<1>2. \A c \in Nodes : Cardinality({v \in h[p[u]] : m.color[v] = c})
                        = Cardinality({v \in g[u] : k.color[v] = c})
  <2> DEFINE a == k.color
             b == m.color
             S == g[u]
             T == h[p[u]]
  <2>1. Carries(a, b, p)
    OBVIOUS
  <2> HIDE DEF a, b
  <2>2. PICK q : Matches(a, b, S, T, q)
    BY <2>1, NeighboursRenamed
  <2> HIDE DEF S, T
  <2>3. \A c \in Nodes : CountOf(a, S, c) = CountOf(b, T, c)
    BY <2>2, MatchCounts
  <2> QED BY <2>3 DEF CountOf, a, b, S, T
<1>3. Fingerprint(h, m, p[u]) = Fingerprint(g, k, u)
  BY <1>1, <1>2 DEF Fingerprint
<1> QED BY <1>1, <1>3 DEF Prints

LEMMA RoundRenamed ==
    ASSUME NEW g, NEW h, NEW p, AreRenamed(g, h, p),
           NEW k, InOrder(k), NEW m, InOrder(m), Carries(k.color, m.color, p)
    PROVE  Carries(RefineRound(g, k).color, RefineRound(h, m).color, p)
<1> DEFINE key == Prints(g, k)
           name == Prints(h, m)
<1>1. /\ k \in Colorings /\ m \in Colorings /\ IsRenaming(p)
      /\ g \in [Nodes -> SUBSET Nodes] /\ h \in [Nodes -> SUBSET Nodes]
  BY DEF InOrder, Enumerates, AreRenamed
<1>2. key = Prints(g, k) /\ name = Prints(h, m) /\ Carries(key, name, p)
  BY PrintsRenamed
<1>3. Orders(PrintLess(key), key)
  <2> HIDE DEF key
  <2>1. key = [u \in Nodes |-> Fingerprint(g, k, u)]
    BY <1>2 DEF Prints
  <2> QED BY <1>1, <2>1, FingerprintsOrder DEF PrintLess
<1> HIDE DEF key, name
<1>4. PICK t : /\ SortedNodes(PrintLess(key), t, N)
               /\ RefineRound(g, k) = Numbered(k, t, FirstNumbers(key, t))
  BY <1>1, <1>2, RoundNumbered
<1>5. PICK s : /\ SortedNodes(PrintLess(name), s, N)
               /\ RefineRound(h, m) = Numbered(m, s, FirstNumbers(name, s))
  BY <1>1, <1>2, RoundNumbered
<1>6. CarriesOrder(PrintLess(key), PrintLess(name), p)
  <2>1. p \in [Nodes -> Nodes]
    BY <1>1 DEF IsRenaming
  <2> QED BY <1>2, <2>1 DEF CarriesOrder, PrintLess, Carries
<1> DEFINE c == FirstNumbers(key, t)
           less == PrintLess(key)
           more == PrintLess(name)
<1>7. FirstNumbers(name, s) = c
  <2>1. \A i \in 1 .. N : name[s[i]] = key[t[i]]
    BY <1>1, <1>2, <1>3, <1>4, <1>5, <1>6, KeysAlong
  <2> QED BY <2>1, NumbersSame
<1>8. Numbering(key, t, c)
  <2> HIDE DEF c
  <2> QED BY FirstPlaces DEF c, FirstNumbers
<1>9. /\ SortedNodes(less, t, N) /\ SortedNodes(more, s, N)
      /\ Orders(less, key) /\ CarriesOrder(less, more, p)
  BY <1>3, <1>4, <1>5, <1>6
<1> HIDE DEF c, less, more
<1>10. Carries(Numbered(k, t, c).color, Numbered(m, s, c).color, p)
  BY <1>1, <1>2, <1>8, <1>9, ColorsCarried
<1> QED BY <1>4, <1>5, <1>7, <1>10 DEF c

\* What holds of the two runs after each round.
StatesRenamed(s, r, p) ==
    /\ Carries(s.coloring.color, r.coloring.color, p)
    /\ r.stable = s.stable

LEMMA NextRenamed ==
    ASSUME NEW g, NEW h, NEW p, AreRenamed(g, h, p),
           NEW s \in RoundStates, NEW r \in RoundStates, StatesRenamed(s, r, p)
    PROVE  StatesRenamed(NextRound(g, s), NextRound(h, r), p)
<1> DEFINE k == s.coloring
           m == r.coloring
           a == RefineRound(g, k)
           b == RefineRound(h, m)
<1>1. InOrder(k) /\ InOrder(m) /\ s.stable \in BOOLEAN /\ r.stable = s.stable
      /\ Carries(k.color, m.color, p) /\ IsRenaming(p)
      /\ g \in [Nodes -> SUBSET Nodes] /\ h \in [Nodes -> SUBSET Nodes]
  BY DEF RoundStates, StatesRenamed, AreRenamed
<1> HIDE DEF k, m
<1>2. Carries(a.color, b.color, p)
  BY <1>1, RoundRenamed
<1>3. InOrder(a) /\ InOrder(b)
  BY <1>1, RoundColors, WellFormedInOrder
<1> HIDE DEF a, b
<1>4. /\ a.color \in [Nodes -> Nodes] /\ b.color \in [Nodes -> Nodes]
      /\ k.color \in [Nodes -> Nodes] /\ m.color \in [Nodes -> Nodes]
  BY <1>1, <1>3 DEF InOrder, Enumerates, Colorings
<1>5. b.color = m.color <=> a.color = k.color
  <2>1. b.color = m.color <=> \A x \in Nodes : b.color[x] = m.color[x]
    BY <1>4
  <2>2. a.color = k.color <=> \A u \in Nodes : a.color[u] = k.color[u]
    BY <1>4
  <2>3. (\A x \in Nodes : b.color[x] = m.color[x]) <=> \A u \in Nodes : a.color[u] = k.color[u]
    BY <1>1, <1>2 DEF Carries, IsRenaming
  <2> QED BY <2>1, <2>2, <2>3
<1>6. CASE s.stable
  <2>1. NextRound(g, s) = s /\ NextRound(h, r) = r
    BY <1>1, <1>6 DEF NextRound
  <2> QED BY <2>1
<1>7. CASE ~s.stable
  <2>1. /\ NextRound(g, s) = [coloring |-> a, stable |-> a.color = k.color]
        /\ NextRound(h, r) = [coloring |-> b, stable |-> b.color = m.color]
    BY <1>1, <1>7 DEF NextRound, a, b, k, m
  <2>2. (b.color = m.color) = (a.color = k.color)
    BY <1>5
  <2>3. StatesRenamed([coloring |-> a, stable |-> a.color = k.color],
                      [coloring |-> b, stable |-> b.color = m.color], p)
    BY <1>2, <2>2 DEF StatesRenamed
  <2> QED BY <2>1, <2>3
<1> QED BY <1>1, <1>6, <1>7

LEMMA RoundsRenamed ==
    ASSUME NEW g, NEW h, NEW p, AreRenamed(g, h, p),
           NEW k, InOrder(k), NEW m, InOrder(m), Carries(k.color, m.color, p),
           NEW w, AreRounds(g, k, w), NEW x, AreRounds(h, m, x), NEW i \in 0 .. N-1
    PROVE  StatesRenamed(w[i], x[i], p)
<1> DEFINE n == N-1
           T == {r \in 0 .. n : StatesRenamed(w[r], x[r], p)}
<1>1. n \in Nat
  BY NAssumption
<1>2. /\ w \in [0 .. n -> RoundStates] /\ x \in [0 .. n -> RoundStates]
      /\ w[0] = [coloring |-> k, stable |-> FALSE]
      /\ x[0] = [coloring |-> m, stable |-> FALSE]
      /\ \A r \in 1 .. n : w[r] = NextRound(g, w[r-1]) /\ x[r] = NextRound(h, x[r-1])
  BY DEF AreRounds
<1> HIDE DEF n
<1>3. 0 \in T
  <2>1. StatesRenamed(w[0], x[0], p)
    BY <1>2 DEF StatesRenamed
  <2> QED BY <1>1, <2>1
<1>4. ASSUME NEW r \in 1 .. n, r-1 \in T PROVE r \in T
  <2>1. r-1 \in 0 .. n /\ r \in 0 .. n
    BY <1>1
  <2>2. w[r-1] \in RoundStates /\ x[r-1] \in RoundStates /\ StatesRenamed(w[r-1], x[r-1], p)
    BY <1>2, <1>4, <2>1
  <2>3. StatesRenamed(NextRound(g, w[r-1]), NextRound(h, x[r-1]), p)
    BY <2>2, NextRenamed
  <2> QED BY <1>2, <2>1, <2>3
<1>5. \A r \in 0 .. n : r \in T
  <2> HIDE DEF T
  <2> QED BY <1>1, <1>3, <1>4, UpTo
<1> QED BY <1>5 DEF n

LEMMA NaiveRenamed ==
    ASSUME FewNodes, NEW g, NEW h, NEW p, AreRenamed(g, h, p),
           NEW k, InOrder(k), NEW m, InOrder(m), Carries(k.color, m.color, p)
    PROVE  Carries(NaiveRefine(g, k).color, NaiveRefine(h, m).color, p)
<1> DEFINE a == Hashing(g, k, 2)
           b == Hashing(h, m, 2)
           n == N-1
<1>1. g \in [Nodes -> SUBSET Nodes] /\ h \in [Nodes -> SUBSET Nodes]
  BY DEF AreRenamed
<1>2. InOrder(a) /\ InOrder(b)
  BY <1>1, HashingColors
<1>3. Carries(a.color, b.color, p)
  BY HashingRenamed
<1>4. NaiveRefine(g, k) = RefineRounds(g, a) /\ NaiveRefine(h, m) = RefineRounds(h, b)
  BY DEF NaiveRefine
<1> HIDE DEF a, b
<1>5. PICK w : AreRounds(g, a, w) /\ RefineRounds(g, a) = w[n].coloring
  BY <1>1, <1>2, RoundsTaken
<1>6. PICK x : AreRounds(h, b, x) /\ RefineRounds(h, b) = x[n].coloring
  BY <1>1, <1>2, RoundsTaken
<1>7. n \in 0 .. N-1
  BY NAssumption
<1> HIDE DEF n
<1>8. StatesRenamed(w[n], x[n], p)
  BY <1>2, <1>3, <1>5, <1>6, <1>7, RoundsRenamed
<1> QED BY <1>4, <1>5, <1>6, <1>8 DEF StatesRenamed

-----------------------------------------------------------------------------
LEMMA GraphRenamed ==
    ASSUME NEW g \in [Nodes -> SUBSET Nodes], NEW p, IsRenaming(p)
    PROVE  AreRenamed(g, RenamedGraph(g, p), p)
<1> DEFINE named(x) == CHOOSE u \in Nodes : p[u] = x
           h == RenamedGraph(g, p)
<1>1. p \in [Nodes -> Nodes] /\ \A u, v \in Nodes : p[u] = p[v] => u = v
  BY DEF IsRenaming
<1>2. \A x \in Nodes : named(x) \in Nodes /\ p[named(x)] = x
  <2> TAKE x \in Nodes
  <2>1. \E u \in Nodes : p[u] = x
    BY DEF IsRenaming
  <2> QED BY <2>1
<1>3. h = [x \in Nodes |-> {p[v] : v \in g[named(x)]}]
  BY DEF RenamedGraph
<1> HIDE DEF named, h
<1>4. h \in [Nodes -> SUBSET Nodes]
  <2>1. \A x \in Nodes : {p[v] : v \in g[named(x)]} \in SUBSET Nodes
    <3> TAKE x \in Nodes
    <3>1. g[named(x)] \in SUBSET Nodes
      BY <1>2
    <3> QED BY <1>1, <3>1
  <2> QED BY <1>3, <2>1
<1>5. CarriesGraph(g, h, p)
  <2>1. ASSUME NEW u \in Nodes PROVE h[p[u]] = {p[v] : v \in g[u]}
    <3>1. p[u] \in Nodes /\ named(p[u]) = u
      BY <1>1, <1>2
    <3> QED BY <1>3, <3>1
  <2> QED BY <2>1 DEF CarriesGraph
<1> QED BY <1>4, <1>5 DEF AreRenamed, h

LEMMA ColoringRenamed ==
    ASSUME NEW k, InOrder(k), NEW p, IsRenaming(p)
    PROVE  InOrder(RenamedColoring(k, p)) /\ Carries(k.color, RenamedColoring(k, p).color, p)
<1> DEFINE t == [i \in 1 .. N |-> p[i-1]]
           c == [i \in 1 .. N |-> k.color[i-1]]
           m == RenamedColoring(k, p)
<1>1. N \in Nat /\ Nodes = 0 .. N-1 /\ k.color \in [Nodes -> Nodes]
      /\ \A i \in 1 .. N : i-1 \in Nodes
  BY NAssumption DEF Nodes, InOrder, Enumerates, Colorings
<1>2. /\ p \in [Nodes -> Nodes]
      /\ \A u, v \in Nodes : p[u] = p[v] => u = v
      /\ \A x \in Nodes : \E u \in Nodes : p[u] = x
  BY DEF IsRenaming
<1>3. Numbers(c)
  <2>1. \A i \in 1 .. N : c[i] \in Nodes
    BY <1>1
  <2> QED BY <2>1 DEF Numbers
<1>4. EachOnce(t)
  <2>1. t \in [1 .. N -> Nodes]
    BY <1>1, <1>2
  <2>2. ASSUME NEW i \in 1 .. N, NEW j \in 1 .. N, t[i] = t[j] PROVE i = j
    <3>1. i-1 = j-1
      BY <1>1, <1>2, <2>2
    <3> QED BY <1>1, <3>1
  <2>3. ASSUME NEW u \in Nodes PROVE \E i \in 1 .. N : t[i] = u
    <3>1. PICK v \in Nodes : p[v] = u
      BY <1>2
    <3>2. v+1 \in 1 .. N /\ (v+1)-1 = v
      BY <1>1
    <3> QED BY <3>1, <3>2
  <2> HIDE DEF t
  <2> QED BY <2>1, <2>2, <2>3 DEF EachOnce
<1>5. m = Numbered(k, t, c)
  BY DEF RenamedColoring, Numbered
<1>6. \A u \in Nodes : u+1 \in 1 .. N /\ t[u+1] = p[u] /\ c[u+1] = k.color[u]
  BY <1>1
<1> HIDE DEF t, c, m
<1>7. InOrder(m) /\ \A i \in 1 .. N : m.color[t[i]] = c[i]
  BY <1>3, <1>4, <1>5, ColorsSet
<1>8. \A u \in Nodes : m.color[p[u]] = k.color[u]
  BY <1>6, <1>7
<1> QED BY <1>7, <1>8 DEF Carries, m

-----------------------------------------------------------------------------
(***************************************************************************)
(* Two runs on renamed nodes take the same rounds.                         *)
(***************************************************************************)
RunsMatch(s, r, p) ==
    /\ Carries(s.color, r.color, p)
    /\ r.starts = s.starts
    /\ r.done <=> s.done

LEMMA RanksUnique ==
    ASSUME NEW W, NEW starts, NEW r, RankColors(W, starts, r), NEW q, RankColors(W, starts, q)
    PROVE  r = q
<1>1. \A p \in LanesOf(W) : r[p] = q[p]
  <2> TAKE p \in LanesOf(W)
  <2>1. /\ r[p] \in 0 .. p /\ (r[p] = 0 \/ r[p] \in starts)
        /\ q[p] \in 0 .. p /\ (q[p] = 0 \/ q[p] \in starts)
    BY DEF RankColors
  <2>2. \A i \in starts : i <= p => i <= r[p] /\ i <= q[p]
    BY DEF RankColors
  <2>3. r[p] <= q[p]
    BY <2>1, <2>2
  <2>4. q[p] <= r[p]
    BY <2>1, <2>2
  <2> QED BY <2>1, <2>3, <2>4
<1>2. r \in [LanesOf(W) -> Int] /\ q \in [LanesOf(W) -> Int]
  BY DEF RankColors
<1> QED BY <1>1, <1>2

LEMMA LanesAlong ==
    ASSUME NEW W, Fits(W), NEW p, IsRenaming(p), NEW key, NEW name, Carries(key, name, p),
           NEW label, NEW starts, Sorts(W, key, label, starts),
           NEW tag, NEW others, Sorts(W, name, tag, others), NEW i \in 1 .. N
    PROVE  name[NodeRanks(tag)[i]] = key[NodeRanks(label)[i]]
<1> DEFINE less == HashLess(key)
           more == HashLess(name)
           t == NodeRanks(label)
           o == NodeRanks(tag)
<1>1. /\ Orders(less, key)
      /\ SortedNodes(less, t, N) /\ SortedNodes(more, o, N)
  BY KeysOrder DEF Sorts
<1>2. CarriesOrder(HashLess(key), HashLess(name), p)
  <2>1. p \in [Nodes -> Nodes]
    BY DEF IsRenaming
  <2> QED BY <2>1 DEF CarriesOrder, HashLess, Carries
<1>3. CarriesOrder(less, more, p)
  BY <1>2
<1> HIDE DEF less, more, t, o
<1>4. name[o[i]] = key[t[i]]
  BY <1>1, <1>3, KeysAlong
<1> QED BY <1>4 DEF t, o

LEMMA StartsCarried ==
    ASSUME NEW W, Fits(W), NEW p, IsRenaming(p), NEW key, NEW name, Carries(key, name, p),
           NEW label, NEW starts, Sorts(W, key, label, starts),
           NEW tag, NEW others, Sorts(W, name, tag, others)
    PROVE  others = starts
<1> DEFINE t == NodeRanks(label)
           o == NodeRanks(tag)
<1>1. \A i \in 1 .. N : name[o[i]] = key[t[i]]
  BY LanesAlong
<1>2. /\ starts \subseteq 1 .. W-1
      /\ \A q \in 1 .. W-1 : q \in starts <=> (q < N /\ key[t[q+1]] # key[t[q]]) \/ q = N
  BY DEF Sorts, StartsAt
<1>3. /\ others \subseteq 1 .. W-1
      /\ \A q \in 1 .. W-1 : q \in others <=> (q < N /\ name[o[q+1]] # name[o[q]]) \/ q = N
  BY DEF Sorts, StartsAt
<1> HIDE DEF t, o
<1>4. \A q \in 1 .. W-1 : q \in others <=> q \in starts
  <2> TAKE q \in 1 .. W-1
  <2>1. CASE q < N
    <3>1. q \in 1 .. N /\ q+1 \in 1 .. N
      BY <2>1, NAssumption DEF Fits, Widths
    <3>2. name[o[q+1]] = key[t[q+1]] /\ name[o[q]] = key[t[q]]
      BY <1>1, <3>1
    <3> QED BY <1>2, <1>3, <3>2
  <2>2. CASE ~(q < N)
    BY <1>2, <1>3, <2>2
  <2> QED BY <2>1, <2>2
<1> QED BY <1>2, <1>3, <1>4

LEMMA LaneColorsCarried ==
    ASSUME NEW W, Fits(W), NEW p, IsRenaming(p), NEW key, NEW name, Carries(key, name, p),
           NEW label, NEW starts, Sorts(W, key, label, starts),
           NEW tag, NEW others, Sorts(W, name, tag, others),
           NEW r, NEW c, \A i \in 1 .. N : c[label[i-1]] = r[i-1],
           NEW d, \A i \in 1 .. N : d[tag[i-1]] = r[i-1], SameColors(d, name)
    PROVE  Carries(c, d, p)
<1> DEFINE t == NodeRanks(label)
           o == NodeRanks(tag)
<1>1. EachOnce(t) /\ \A i \in 1 .. N : t[i] = label[i-1]
  BY NodesEnumerated DEF Sorts
<1>2. EachOnce(o) /\ \A i \in 1 .. N : o[i] = tag[i-1]
  BY NodesEnumerated DEF Sorts
<1>3. \A i \in 1 .. N : name[o[i]] = key[t[i]]
  BY LanesAlong
<1> HIDE DEF t, o
<1> SUFFICES ASSUME NEW u \in Nodes PROVE d[p[u]] = c[u]
  BY DEF Carries
<1>4. PICK i \in 1 .. N : t[i] = u
  BY <1>1 DEF EachOnce
<1>5. o[i] \in Nodes /\ p[u] \in Nodes
  BY <1>2 DEF EachOnce, IsRenaming
<1>6. name[p[u]] = key[u] /\ name[o[i]] = key[u]
  BY <1>3, <1>4 DEF Carries
<1>7. d[p[u]] = d[o[i]]
  BY <1>5, <1>6 DEF SameColors
<1>8. d[o[i]] = r[i-1] /\ c[u] = r[i-1]
  BY <1>1, <1>2, <1>4
<1> QED BY <1>7, <1>8

LEMMA TookMatches ==
    ASSUME NEW W, Fits(W), NEW p, IsRenaming(p), NEW key, NEW name, Carries(key, name, p),
           NEW s, NEW z, RunsMatch(s, z, p),
           NEW n, Took(W, s, key, n), NEW m, Took(W, z, name, m)
    PROVE  RunsMatch(n, m, p)
<1>1. PICK label, starts, r, d :
         /\ Sorts(W, key, label, starts)
         /\ RankColors(W, starts, r)
         /\ \/ /\ starts = s.starts
               /\ n.color = s.color /\ n.starts = s.starts /\ n.done
               /\ n.label \in {label, s.label}
            \/ /\ starts # s.starts
               /\ Recolored(W, n.color, label, r, d)
               /\ n.label = label /\ n.starts = starts
               /\ n.done <=> starts = EnabledRanks(W)
  BY DEF Took
<1>2. PICK tag, others, q, e :
         /\ Sorts(W, name, tag, others)
         /\ RankColors(W, others, q)
         /\ \/ /\ others = z.starts
               /\ m.color = z.color /\ m.starts = z.starts /\ m.done
               /\ m.label \in {tag, z.label}
            \/ /\ others # z.starts
               /\ Recolored(W, m.color, tag, q, e)
               /\ m.label = tag /\ m.starts = others
               /\ m.done <=> others = EnabledRanks(W)
  BY DEF Took
<1>3. others = starts
  BY <1>1, <1>2, StartsCarried
<1>4. q = r
  BY <1>1, <1>2, <1>3, RanksUnique
<1>5. Carries(s.color, z.color, p) /\ z.starts = s.starts
  BY DEF RunsMatch
<1>6. CASE starts = s.starts
  <2>1. n.color = s.color /\ m.color = z.color /\ n.starts = s.starts /\ m.starts = z.starts
        /\ n.done /\ m.done
    BY <1>1, <1>2, <1>3, <1>5, <1>6
  <2> QED BY <1>5, <2>1 DEF RunsMatch
<1>7. CASE starts # s.starts
  <2>1. /\ Recolored(W, n.color, label, r, d) /\ n.starts = starts
        /\ n.done <=> starts = EnabledRanks(W)
    BY <1>1, <1>7
  <2>2. /\ Recolored(W, m.color, tag, r, e) /\ m.starts = starts
        /\ m.done <=> starts = EnabledRanks(W)
    BY <1>2, <1>3, <1>4, <1>5, <1>7
  <2> DEFINE c == n.color
             b == m.color
  <2>3. Recolored(W, c, label, r, d) /\ Recolored(W, b, tag, r, e) /\ RankColors(W, others, r)
    BY <1>1, <1>3, <2>1, <2>2
  <2> HIDE DEF c, b
  <2>4. \A i \in 1 .. N : c[label[i-1]] = r[i-1]
    BY <1>1, <2>3, NewLaneColors
  <2>5. (\A i \in 1 .. N : b[tag[i-1]] = r[i-1]) /\ SameColors(b, name)
    BY <1>2, <2>3, NewLaneColors
  <2>6. Carries(c, b, p)
    BY <1>1, <1>2, <2>4, <2>5, LaneColorsCarried
  <2> QED BY <2>1, <2>2, <2>6 DEF RunsMatch, c, b
<1> QED BY <1>6, <1>7

-----------------------------------------------------------------------------
(***************************************************************************)
(* The packed counts are equal when all counts are, and only then if each  *)
(* fits in its three bits.                                                 *)
(***************************************************************************)
LEMMA PackedSame ==
    ASSUME NEW g \in [Nodes -> SUBSET Nodes], NEW color, NEW u \in Nodes,
           NEW h \in [Nodes -> SUBSET Nodes], NEW tint, NEW v \in Nodes,
           \A c \in 0 .. 7 : CountOf(color, g[u], c) = CountOf(tint, h[v], c)
    PROVE  ColorCounts(g, color, u) = ColorCounts(h, tint, v)
<1> DEFINE a == CountsOf(g, color, u)
           b == CountsOf(h, tint, v)
<1>1. a = b
  BY DEF CountsOf
<1>2. PICK w : Packs(a, w) /\ ColorCounts(g, color, u) = w[8]
  BY CountsPacked
<1>3. PICK x : Packs(b, x) /\ ColorCounts(h, tint, v) = x[8]
  BY CountsPacked
<1> HIDE DEF a, b
<1> DEFINE T == {i \in 0 .. 8 : w[i] = x[i]}
<1>4. 0 \in T
  BY <1>2, <1>3 DEF Packs
<1>5. ASSUME NEW i \in 1 .. 8, i-1 \in T PROVE i \in T
  <2>1. w[i] = 8 * w[i-1] + a[8-i] /\ x[i] = 8 * x[i-1] + a[8-i]
    BY <1>1, <1>2, <1>3 DEF Packs
  <2> QED BY <1>5, <2>1
<1>6. \A i \in 0 .. 8 : i \in T
  <2> HIDE DEF T
  <2> QED BY <1>4, <1>5, UpTo
<1> QED BY <1>2, <1>3, <1>6

LEMMA DigitsApart ==
    ASSUME NEW x \in Nat, NEW y \in Nat, NEW c \in 0 .. 7, NEW d \in 0 .. 7, 8 * x + c = 8 * y + d
    PROVE  x = y /\ c = d
OBVIOUS

LEMMA PackedApart ==
    ASSUME NEW g \in [Nodes -> SUBSET Nodes], NEW color, NEW u \in Nodes,
           NEW h \in [Nodes -> SUBSET Nodes], NEW tint, NEW v \in Nodes,
           \A c \in 0 .. 7 : CountOf(color, g[u], c) \in 0 .. 7 /\ CountOf(tint, h[v], c) \in 0 .. 7,
           ColorCounts(g, color, u) = ColorCounts(h, tint, v), NEW d \in 0 .. 7
    PROVE  CountOf(color, g[u], d) = CountOf(tint, h[v], d)
<1> DEFINE a == CountsOf(g, color, u)
           b == CountsOf(h, tint, v)
<1>1. \A c \in 0 .. 7 : /\ a[c] = CountOf(color, g[u], c) /\ b[c] = CountOf(tint, h[v], c)
                        /\ a[c] \in 0 .. 7 /\ b[c] \in 0 .. 7
  BY DEF CountsOf
<1>2. PICK w : Packs(a, w) /\ ColorCounts(g, color, u) = w[8]
  BY CountsPacked
<1>3. PICK x : Packs(b, x) /\ ColorCounts(h, tint, v) = x[8]
  BY CountsPacked
<1> HIDE DEF a, b
<1>4. ASSUME NEW i \in 1 .. 8, w[i] = x[i] PROVE w[i-1] = x[i-1] /\ a[8-i] = b[8-i]
  <2>1. 8-i \in 0 .. 7 /\ i-1 \in 0 .. 8
    OBVIOUS
  <2>2. /\ w[i] = 8 * w[i-1] + a[8-i] /\ w[i-1] \in Nat /\ w[i] \in Nat
        /\ x[i] = 8 * x[i-1] + b[8-i] /\ x[i-1] \in Nat
    BY <1>2, <1>3, <2>1 DEF Packs
  <2>3. a[8-i] \in 0 .. 7 /\ b[8-i] \in 0 .. 7
    BY <1>1, <2>1
  <2>4. 8 * w[i-1] + a[8-i] = 8 * x[i-1] + b[8-i]
    BY <1>4, <2>2
  <2> QED BY <2>2, <2>3, <2>4, DigitsApart
<1> DEFINE T == {j \in 0 .. 8 : w[8-j] = x[8-j]}
<1>5. 0 \in T
  <2>1. w[8] = x[8]
    BY <1>2, <1>3
  <2>2. 8-0 = 8 /\ 0 \in 0 .. 8
    OBVIOUS
  <2> QED BY <2>1, <2>2
<1>6. ASSUME NEW j \in 1 .. 8, j-1 \in T PROVE j \in T
  <2>1. 8-(j-1) \in 1 .. 8 /\ (8-(j-1))-1 = 8-j
    OBVIOUS
  <2>2. w[8-(j-1)] = x[8-(j-1)]
    BY <1>6
  <2>3. w[(8-(j-1))-1] = x[(8-(j-1))-1]
    BY <1>4, <2>1, <2>2
  <2> QED BY <2>1, <2>3
<1>7. \A j \in 0 .. 8 : j \in T
  <2> HIDE DEF T
  <2> QED BY <1>5, <1>6, UpTo
<1>8. 8-d \in 1 .. 8 /\ d \in 0 .. 8 /\ 8-(8-d) = d
  OBVIOUS
<1>9. w[8-d] = x[8-d]
  BY <1>7, <1>8
<1>10. a[8-(8-d)] = b[8-(8-d)]
  BY <1>4, <1>8, <1>9
<1> QED BY <1>1, <1>8, <1>10

LEMMA CountsFit ==
    ASSUME Fits(8), NEW g \in SimpleGraphs, NEW color, NEW u \in Nodes, NEW c
    PROVE  CountOf(color, g[u], c) \in 0 .. 7
<1> DEFINE S == {w \in g[u] : color[w] = c}
<1>1. S \in SUBSET (Nodes \ {u})
  BY DEF SimpleGraphs
<1>2. IsFiniteSet(Nodes) /\ Cardinality(Nodes) = N /\ N \in Nat /\ N <= 8
  BY SizeBelow, NAssumption DEF Nodes, Fits
<1>3. IsFiniteSet(Nodes \ {u}) /\ Cardinality(Nodes \ {u}) = N - 1
  BY <1>2, FS_RemoveElement
<1>4. IsFiniteSet(S) /\ Cardinality(S) <= N - 1
  BY <1>1, <1>3, FS_Subset
<1>5. Cardinality(S) \in Nat
  BY <1>4, FS_CardinalityType
<1> QED BY <1>2, <1>4, <1>5 DEF CountOf

-----------------------------------------------------------------------------
(***************************************************************************)
(* The 8-lane refinement stops at an equitable coloring, the coarsest one. *)
(***************************************************************************)
LEMMA AllRanksStart ==
    ASSUME NEW W, Fits(W), NEW f, Settled(W, f), f.starts = EnabledRanks(W),
           NEW u \in Nodes, NEW v \in Nodes, f.color[u] = f.color[v]
    PROVE  u = v
<1> DEFINE t == NodeRanks(f.label)
           m == NodeColoring(f.color, f.label)
<1>0. N \in Nat \ {0} /\ N <= W /\ W \in Nat /\ Nodes = 0 .. N-1 /\ Positions = 0 .. N-1
  BY NAssumption DEF Nodes, Positions, Fits, Widths
<1>1. \A p \in 1 .. W-1 : p \in f.starts <=> (p < N /\ f.color[t[p+1]] # f.color[t[p]]) \/ p = N
  BY DEF Settled, StartsAt
<1>2. EachOnce(t) /\ \A i \in 1 .. N : t[i] = f.label[i-1] /\ f.label[i-1] \in Nodes
  BY NodesEnumerated DEF Settled
<1>3. WellFormed(m)
  BY DEF Settled
<1>4. ASSUME NEW i \in 1 .. N
      PROVE  i-1 \in Positions /\ ColorAtLabel(m, i-1) = f.color[t[i]]
  <2>1. i-1 \in Positions
    BY <1>0
  <2>2. t[i] = f.label[i-1] /\ f.label[i-1] \in Nodes
    <3> HIDE DEF t
    <3> QED BY <1>2
  <2>3. m.label[i-1] = t[i] /\ m.color[t[i]] = f.color[t[i]]
    BY <2>1, <2>2 DEF NodeColoring
  <2> HIDE DEF m, t
  <2> QED BY <2>1, <2>3 DEF ColorAtLabel
<1> HIDE DEF m, t
<1>5. ColorAtLabel(m, 0) = 0 /\ \A p \in 1 .. N-1 : ColorAtLabel(m, p) \in {ColorAtLabel(m, p-1), p}
  BY <1>3 DEF WellFormed, ClassStarts
<1>6. ASSUME NEW i \in 1 .. N PROVE f.color[t[i]] = i-1
  <2>1. CASE i = 1
    BY <1>4, <1>5, <2>1
  <2>2. CASE i # 1
    <3> DEFINE p == i-1
    <3>1. /\ p \in 1 .. N-1 /\ p \in 1 .. W-1 /\ p < N /\ p <= N /\ p # N /\ p+1 = i
          /\ p \in 1 .. N /\ i-1 = p
      BY <1>0, <2>2
    <3> HIDE DEF p
    <3>2. p \in f.starts
      BY <3>1 DEF EnabledRanks
    <3>3. f.color[t[i]] # f.color[t[p]]
      BY <1>1, <3>1, <3>2
    <3>4. ColorAtLabel(m, p) = f.color[t[i]] /\ ColorAtLabel(m, p-1) = f.color[t[p]]
      BY <1>4, <3>1
    <3>5. ColorAtLabel(m, p) \in {ColorAtLabel(m, p-1), p}
      BY <1>5, <3>1
    <3> QED BY <3>1, <3>3, <3>4, <3>5
  <2> QED BY <2>1, <2>2
<1>7. PICK i \in 1 .. N : t[i] = u
  BY <1>2 DEF EachOnce
<1>8. PICK j \in 1 .. N : t[j] = v
  BY <1>2 DEF EachOnce
<1>9. i-1 = j-1
  BY <1>6, <1>7, <1>8
<1>10. i = j
  BY <1>0, <1>9
<1> QED BY <1>7, <1>8, <1>10

LEMMA Key8Parts ==
    ASSUME Fits(8), NEW g, NEW color, NEW u \in Nodes
    PROVE  Key8(g, color)[u] = <<color[u], ColorCounts(g, color, u)>>
<1>1. u \in LanesOf(8)
  BY NAssumption DEF LanesOf, Nodes, Fits
<1> QED BY <1>1 DEF Key8, NodeKeys, LaneCounts

LEMMA Ends8Equitable ==
    ASSUME Fits(8), NEW g \in SimpleGraphs, NEW k, NEW f, NEW s, Ended8(g, k, f, s),
           NEW m, \A u \in Nodes : m.color[u] = f.color[u]
    PROVE  Equitable(g, m.color)
<1>0. g \in [Nodes -> SUBSET Nodes]
  BY DEF SimpleGraphs
<1>1. /\ Settled(8, f) /\ SameColors(f.color, Key8(g, s.color))
      /\ (\A u \in Nodes : f.color[u] = s.color[u]) \/ f.starts = EnabledRanks(8)
  BY DEF Ended8, Stepped
<1>2. CASE f.starts = EnabledRanks(8)
  <2>1. \A u, v \in Nodes : m.color[u] = m.color[v] => u = v
    BY <1>1, <1>2, AllRanksStart
  <2> QED BY <2>1 DEF Equitable, Same
<1>3. CASE \A u \in Nodes : f.color[u] = s.color[u]
  <2>1. ASSUME NEW u \in Nodes, NEW v \in Nodes, m.color[u] = m.color[v], NEW c \in Nodes
        PROVE  CountOf(m.color, g[u], c) = CountOf(m.color, g[v], c)
    <3>1. Key8(g, s.color)[u] = Key8(g, s.color)[v]
      BY <1>1, <2>1 DEF SameColors
    <3>2. ColorCounts(g, s.color, u) = ColorCounts(g, s.color, v)
      BY <3>1, Key8Parts
    <3>3. \A d \in 0 .. 7 : CountOf(s.color, g[u], d) \in 0 .. 7 /\ CountOf(s.color, g[v], d) \in 0 .. 7
      BY CountsFit
    <3>4. c \in 0 .. 7
      BY NAssumption DEF Nodes, Fits
    <3>5. CountOf(s.color, g[u], c) = CountOf(s.color, g[v], c)
      BY <1>0, <3>2, <3>3, <3>4, PackedApart
    <3>6. \A x \in Nodes : m.color[x] = s.color[x]
      BY <1>3
    <3>7. g[u] \subseteq Nodes /\ g[v] \subseteq Nodes
      BY <1>0
    <3>8. /\ {w \in g[u] : m.color[w] = c} = {w \in g[u] : s.color[w] = c}
          /\ {w \in g[v] : m.color[w] = c} = {w \in g[v] : s.color[w] = c}
      BY <3>6, <3>7
    <3> QED BY <3>5, <3>8 DEF CountOf
  <2> QED BY <2>1 DEF Equitable, Same, CountOf
<1> QED BY <1>1, <1>2, <1>3

LEMMA Round8KeepsTogether ==
    ASSUME Fits(8), NEW g \in [Nodes -> SUBSET Nodes], NEW c \in [Nodes -> Nodes], Equitable(g, c),
           NEW s, SameWithin(c, s.color), NEW n, Stepped(8, s, Key8(g, s.color), n)
    PROVE  SameWithin(c, n.color)
<1> SUFFICES ASSUME NEW u \in Nodes, NEW v \in Nodes, c[u] = c[v] PROVE n.color[u] = n.color[v]
  BY DEF SameWithin
<1>1. s.color[u] = s.color[v]
  BY DEF SameWithin
<1>2. PICK p : Matches(s.color, s.color, g[u], g[v], p)
  BY NeighboursMatch
<1>3. \A d : CountOf(s.color, g[u], d) = CountOf(s.color, g[v], d)
  BY <1>2, MatchCounts
<1>4. ColorCounts(g, s.color, u) = ColorCounts(g, s.color, v)
  BY <1>3, PackedSame
<1>5. Key8(g, s.color)[u] = Key8(g, s.color)[v]
  BY <1>1, <1>4, Key8Parts
<1> QED BY <1>5 DEF Stepped, SameColors

LEMMA Avx8KeepsTogether ==
    ASSUME Fits(8), NEW g \in [Nodes -> SUBSET Nodes], NEW k \in Colorings,
           NEW c \in [Nodes -> Nodes], Equitable(g, c), SameWithin(c, k.color)
    PROVE  SameWithin(c, Avx8Final(g, k).color)
<1> DEFINE n == N+1
<1>0. n \in Nat /\ n \in 0 .. n
  BY NAssumption
<1>1. PICK w : Loop(n, States8, Opening8(k), Loop8(g), w) /\ Avx8Final(g, k) = w[n]
  BY Loop8Taken
<1>2. \A i \in 1 .. n : w[i-1] \in States8 /\ w[i] = Next8(g, w[i-1])
  BY <1>1, Loop8Walks
<1>3. w[0] = Opening8(k)
  BY <1>1 DEF Loop
<1> HIDE DEF n
<1> DEFINE T == {i \in 0 .. n : SameWithin(c, w[i].color)}
<1>4. 0 \in T
  <2>1. w[0].color = LaneColors(k.color, 8)
    BY <1>3 DEF Opening8
  <2>2. \A u \in Nodes : w[0].color[u] = k.color[u]
    BY <2>1, NodesColored
  <2> QED BY <1>0, <2>2 DEF SameWithin
<1>5. ASSUME NEW i \in 1 .. n, i-1 \in T PROVE i \in T
  <2> DEFINE s == w[i-1]
  <2>1. SameWithin(c, s.color) /\ s \in States8 /\ w[i] = Next8(g, s)
    BY <1>2, <1>5
  <2>2. i \in 0 .. n
    BY <1>0
  <2> HIDE DEF s
  <2>3. Stepped(8, s, Key8(g, s.color), Round8(g, s))
    BY <2>1, Round8Steps
  <2>4. SameWithin(c, Round8(g, s).color)
    BY <2>1, <2>3, Round8KeepsTogether
  <2>5. SameWithin(c, w[i].color)
    BY <2>1, <2>4 DEF Next8
  <2> QED BY <2>2, <2>5
<1>6. \A i \in 0 .. n : i \in T
  <2> HIDE DEF T
  <2> QED BY <1>0, <1>4, <1>5, UpTo
<1> QED BY <1>0, <1>1, <1>6

LEMMA Keys8Carried ==
    ASSUME Fits(8), NEW g, NEW h, NEW p, AreRenamed(g, h, p), NEW a, NEW b, Carries(a, b, p)
    PROVE  Carries(Key8(g, a), Key8(h, b), p)
<1> SUFFICES ASSUME NEW u \in Nodes PROVE Key8(h, b)[p[u]] = Key8(g, a)[u]
  BY DEF Carries
<1>1. /\ g \in [Nodes -> SUBSET Nodes] /\ h \in [Nodes -> SUBSET Nodes]
      /\ p[u] \in Nodes /\ b[p[u]] = a[u]
  BY DEF AreRenamed, IsRenaming, Carries
<1> DEFINE S == g[u]
           v == p[u]
           T == h[v]
<1>2. PICK q : Matches(a, b, S, T, q)
  BY NeighboursRenamed
<1>3. \A c : CountOf(a, S, c) = CountOf(b, T, c)
  <2> HIDE DEF S, T
  <2> QED BY <1>2, MatchCounts
<1> HIDE DEF v
<1>4. v \in Nodes /\ b[v] = a[u]
  BY <1>1 DEF v
<1>5. ColorCounts(g, a, u) = ColorCounts(h, b, v)
  BY <1>1, <1>3, <1>4, PackedSame
<1>6. Key8(g, a)[u] = <<a[u], ColorCounts(g, a, u)>> /\ Key8(h, b)[v] = <<b[v], ColorCounts(h, b, v)>>
  BY <1>4, Key8Parts
<1> QED BY <1>4, <1>5, <1>6 DEF v

LEMMA Avx8Renamed ==
    ASSUME Fits(8), NEW g, NEW h, NEW p, AreRenamed(g, h, p),
           NEW k \in Colorings, NEW m \in Colorings, Carries(k.color, m.color, p)
    PROVE  Carries(Avx8Final(g, k).color, Avx8Final(h, m).color, p)
<1> DEFINE n == N+1
<1>0. /\ n \in Nat /\ n \in 0 .. n
      /\ g \in [Nodes -> SUBSET Nodes] /\ h \in [Nodes -> SUBSET Nodes] /\ IsRenaming(p)
  BY NAssumption DEF AreRenamed
<1>1. PICK w : Loop(n, States8, Opening8(k), Loop8(g), w) /\ Avx8Final(g, k) = w[n]
  BY <1>0, Loop8Taken
<1>2. PICK x : Loop(n, States8, Opening8(m), Loop8(h), x) /\ Avx8Final(h, m) = x[n]
  BY <1>0, Loop8Taken
<1>3. \A i \in 1 .. n : w[i-1] \in States8 /\ w[i] = Next8(g, w[i-1])
  BY <1>0, <1>1, Loop8Walks
<1>4. \A i \in 1 .. n : x[i-1] \in States8 /\ x[i] = Next8(h, x[i-1])
  BY <1>0, <1>2, Loop8Walks
<1>5. w[0] = Opening8(k) /\ x[0] = Opening8(m)
  BY <1>1, <1>2 DEF Loop
<1> HIDE DEF n
<1> DEFINE T == {i \in 0 .. n : RunsMatch(w[i], x[i], p)}
<1>6. 0 \in T
  <2>1. \A u \in Nodes : LaneColors(k.color, 8)[u] = k.color[u] /\ LaneColors(m.color, 8)[u] = m.color[u]
    BY NodesColored
  <2>2. Carries(LaneColors(k.color, 8), LaneColors(m.color, 8), p)
    BY <1>0, <2>1 DEF Carries, IsRenaming
  <2>3. RunsMatch(w[0], x[0], p)
    BY <1>5, <2>2 DEF RunsMatch, Opening8
  <2> QED BY <1>0, <2>3
<1>7. ASSUME NEW i \in 1 .. n, i-1 \in T PROVE i \in T
  <2> DEFINE s == w[i-1]
             z == x[i-1]
  <2>1. /\ RunsMatch(s, z, p) /\ s \in States8 /\ z \in States8
        /\ w[i] = Next8(g, s) /\ x[i] = Next8(h, z)
    BY <1>3, <1>4, <1>7
  <2>2. i \in 0 .. n
    BY <1>0
  <2> HIDE DEF s, z
  <2>3. Took(8, s, Key8(g, s.color), Round8(g, s)) /\ Took(8, z, Key8(h, z.color), Round8(h, z))
    BY <1>0, <2>1, Round8Steps
  <2>4. Carries(Key8(g, s.color), Key8(h, z.color), p)
    BY <2>1, Keys8Carried DEF RunsMatch
  <2>5. RunsMatch(Round8(g, s), Round8(h, z), p)
    BY <1>0, <2>1, <2>3, <2>4, TookMatches
  <2>6. z.done <=> s.done
    BY <2>1 DEF RunsMatch
  <2>7. RunsMatch(w[i], x[i], p)
    BY <2>1, <2>5, <2>6 DEF Next8
  <2> QED BY <2>2, <2>7
<1>8. \A i \in 0 .. n : i \in T
  <2> HIDE DEF T
  <2> QED BY <1>0, <1>6, <1>7, UpTo
<1>9. RunsMatch(w[n], x[n], p)
  BY <1>0, <1>8
<1> QED BY <1>1, <1>2, <1>9 DEF RunsMatch

-----------------------------------------------------------------------------
(***************************************************************************)
(* The hashes of 16 lanes go along with a renaming.                        *)
(***************************************************************************)
LEMMA RenamedSimple ==
    ASSUME NEW g \in SimpleGraphs, NEW h, NEW p, AreRenamed(g, h, p)
    PROVE  h \in SimpleGraphs
<1>1. /\ h \in [Nodes -> SUBSET Nodes]
      /\ p \in [Nodes -> Nodes]
      /\ \A u, v \in Nodes : p[u] = p[v] => u = v
      /\ \A x \in Nodes : \E u \in Nodes : p[u] = x
      /\ \A u \in Nodes : h[p[u]] = {p[v] : v \in g[u]}
  BY DEF AreRenamed, IsRenaming, CarriesGraph
<1>2. \A u \in Nodes : g[u] \subseteq Nodes /\ u \notin g[u] /\ \A v \in g[u] : u \in g[v]
  BY DEF SimpleGraphs
<1>3. ASSUME NEW x \in Nodes PROVE x \notin h[x] /\ \A y \in h[x] : x \in h[y]
  <2>1. PICK u \in Nodes : p[u] = x
    BY <1>1
  <2>2. x \notin h[x]
    BY <1>1, <1>2, <2>1
  <2>3. ASSUME NEW y \in h[x] PROVE x \in h[y]
    <3>1. PICK v \in g[u] : p[v] = y
      BY <1>1, <2>1
    <3>2. v \in Nodes /\ u \in g[v]
      BY <1>2
    <3> QED BY <1>1, <2>1, <3>1, <3>2
  <2> QED BY <2>2, <2>3
<1> QED BY <1>1, <1>3 DEF SimpleGraphs

LEMMA DegreesCarried ==
    ASSUME NEW g, NEW h, NEW p, AreRenamed(g, h, p), NEW u \in Nodes
    PROVE  Cardinality(h[p[u]]) = Cardinality(g[u])
<1> DEFINE zero == [v \in Nodes |-> 0]
           S == g[u]
           T == h[p[u]]
<1>1. IsRenaming(p) /\ p[u] \in Nodes /\ S \subseteq Nodes /\ T \subseteq Nodes
  BY DEF AreRenamed, IsRenaming
<1>2. \A v \in Nodes : zero[v] = 0
  OBVIOUS
<1> HIDE DEF zero
<1>3. Carries(zero, zero, p)
  BY <1>1, <1>2 DEF Carries, IsRenaming
<1>4. PICK q : Matches(zero, zero, S, T, q)
  BY <1>3, NeighboursRenamed
<1> HIDE DEF S, T
<1>5. CountOf(zero, S, 0) = CountOf(zero, T, 0)
  BY <1>4, MatchCounts
<1>6. {v \in S : zero[v] = 0} = S /\ {v \in T : zero[v] = 0} = T
  BY <1>1, <1>2
<1>7. Cardinality(S) = Cardinality(T)
  BY <1>5, <1>6 DEF CountOf
<1> QED BY <1>7 DEF S, T

HashesMatch(a, b, p) == Carries(NodeHashes(a), NodeHashes(b), p)

LEMMA HashesMatched ==
    ASSUME NEW a, NEW b, NEW p, IsRenaming(p)
    PROVE  HashesMatch(a, b, p) <=> \A u \in Nodes : b[p[u]+1] = a[u+1]
BY DEF HashesMatch, Carries, NodeHashes, IsRenaming

LEMMA OpeningHashesMatch ==
    ASSUME Fits(16), NEW g \in SimpleGraphs, NEW h \in SimpleGraphs, NEW p, AreRenamed(g, h, p),
           NEW c, LaneColored(16, c), NEW d, LaneColored(16, d), Carries(c, d, p),
           NEW first \in BOOLEAN
    PROVE  HashesMatch(InitialHashes(g, c, first), InitialHashes(h, d, first), p)
<1> DEFINE a == InitialHashes(g, c, first)
           b == InitialHashes(h, d, first)
<1>1. /\ \A u \in Nodes : a[u+1] = FirstHash(c[u], Cardinality(g[u]), first)
      /\ \A u \in Nodes : b[u+1] = FirstHash(d[u], Cardinality(h[u]), first)
  BY OpeningHashes
<1> HIDE DEF a, b
<1>2. IsRenaming(p) /\ p \in [Nodes -> Nodes]
  BY DEF AreRenamed, IsRenaming
<1>3. ASSUME NEW u \in Nodes PROVE b[p[u]+1] = a[u+1]
  <2>1. Cardinality(h[p[u]]) = Cardinality(g[u])
    BY DegreesCarried
  <2>2. d[p[u]] = c[u] /\ p[u] \in Nodes
    BY <1>2 DEF Carries
  <2> QED BY <1>1, <2>1, <2>2
<1>4. HashesMatch(a, b, p)
  BY <1>2, <1>3, HashesMatched
<1> QED BY <1>4 DEF a, b

LEMMA NextHashesMatch ==
    ASSUME Fits(16), NEW g \in SimpleGraphs, NEW h \in SimpleGraphs, NEW p, AreRenamed(g, h, p),
           NEW a \in LaneHashes, NEW b \in LaneHashes, HashesMatch(a, b, p)
    PROVE  HashesMatch(NextHashes(g, a), NextHashes(h, b), p)
<1> DEFINE x == NextHashes(g, a)
           y == NextHashes(h, b)
           e == NodeHashes(a)
           f == NodeHashes(b)
<1>1. /\ \A u \in Nodes : x[u+1] = SumOf(e, g[u], HashFmix32(a[u+1]))
      /\ \A u \in Nodes : y[u+1] = SumOf(f, h[u], HashFmix32(b[u+1]))
  BY HashesAdvance
<1>2. IsRenaming(p) /\ p \in [Nodes -> Nodes]
  BY DEF AreRenamed, IsRenaming
<1>3. \A u \in Nodes : a[u+1] \in Words /\ b[u+1] \in Words
  <2>1. \A u \in Nodes : u+1 \in 1 .. 16
    BY NAssumption DEF Nodes, Fits
  <2> QED BY <2>1 DEF LaneHashes
<1>4. e \in Hashed /\ f \in Hashed
  BY <1>3 DEF NodeHashes, Hashed
<1>5. Carries(e, f, p)
  BY DEF HashesMatch
<1> HIDE DEF e, f, x, y
<1>6. ASSUME NEW u \in Nodes PROVE y[p[u]+1] = x[u+1]
  <2> DEFINE base == HashFmix32(a[u+1])
             S == g[u]
             T == h[p[u]]
  <2>1. p[u] \in Nodes /\ b[p[u]+1] = a[u+1]
    BY <1>2, HashesMatched
  <2>2. base \in Words
    BY <1>3, FinalizedWord
  <2>3. PICK q : Matches(e, f, S, T, q)
    BY <1>5, NeighboursRenamed
  <2>4. x[u+1] = SumOf(e, S, base) /\ y[p[u]+1] = SumOf(f, T, base)
    BY <1>1, <2>1
  <2> HIDE DEF base, S, T
  <2>5. SumOf(e, S, base) = SumOf(f, T, base)
    BY <1>4, <2>2, <2>3, SumCarries
  <2> QED BY <2>4, <2>5
<1>7. HashesMatch(x, y, p)
  BY <1>2, <1>6, HashesMatched
<1> QED BY <1>7 DEF x, y

LEMMA Keys16Carried ==
    ASSUME Fits(16), NEW p, IsRenaming(p), NEW a, NEW b, HashesMatch(a, b, p),
           NEW c, NEW d, Carries(c, d, p)
    PROVE  Carries(Key16(a, c), Key16(b, d), p)
<1>1. /\ \A u \in Nodes : b[p[u]+1] = a[u+1] /\ d[p[u]] = c[u]
      /\ p \in [Nodes -> Nodes]
  BY HashesMatched DEF Carries, IsRenaming
<1>2. \A u \in Nodes : u \in LanesOf(16)
  BY NAssumption DEF LanesOf, Nodes, Fits
<1> SUFFICES ASSUME NEW u \in Nodes PROVE Key16(b, d)[p[u]] = Key16(a, c)[u]
  BY DEF Carries
<1> DEFINE v == p[u]
<1>3. v \in Nodes /\ v \in LanesOf(16) /\ u \in LanesOf(16) /\ b[v+1] = a[u+1] /\ d[v] = c[u]
  BY <1>1, <1>2
<1> HIDE DEF v
<1>4. Key16(b, d)[v] = <<KeyHigh(b, d)[v], KeyLow(b)[v]>>
      /\ Key16(a, c)[u] = <<KeyHigh(a, c)[u], KeyLow(a)[u]>>
  BY <1>3 DEF Key16, NodeKeys
<1>5. KeyHigh(b, d)[v] = KeyHigh(a, c)[u] /\ KeyLow(b)[v] = KeyLow(a)[u]
  BY <1>3 DEF KeyHigh, KeyLow
<1> QED BY <1>4, <1>5 DEF v

\* What holds of two runs until they stop.
RunsMatch16(s, r, p) == RunsMatch(s, r, p) /\ (~s.done => HashesMatch(s.hash, r.hash, p))

LEMMA Next16Matches ==
    ASSUME Fits(16), NEW g \in SimpleGraphs, NEW h \in SimpleGraphs, NEW p, AreRenamed(g, h, p),
           NEW s \in States16, NEW z \in States16, RunsMatch16(s, z, p)
    PROVE  RunsMatch16(Next16(g, s), Next16(h, z), p)
<1> DEFINE x == NextHashes(g, s.hash)
           y == NextHashes(h, z.hash)
           n == Round16(g, s)
           m == Round16(h, z)
<1>1. RunsMatch(s, z, p) /\ Carries(s.color, z.color, p) /\ (z.done <=> s.done)
  BY DEF RunsMatch16, RunsMatch
<1>2. CASE s.done
  BY <1>1, <1>2 DEF Next16
<1>3. CASE ~s.done
  <2>1. Next16(g, s) = n /\ Next16(h, z) = m
    BY <1>1, <1>3 DEF Next16
  <2>2. s.hash \in LaneHashes /\ z.hash \in LaneHashes /\ IsRenaming(p)
    BY DEF States16, AreRenamed
  <2>3. HashesMatch(s.hash, z.hash, p)
    BY <1>3 DEF RunsMatch16
  <2>4. HashesMatch(x, y, p)
    BY <2>2, <2>3, NextHashesMatch
  <2>5. Carries(RoundKey16(g, s), RoundKey16(h, z), p)
    <3> HIDE DEF x, y
    <3>1. Carries(Key16(x, s.color), Key16(y, z.color), p)
      BY <1>1, <2>2, <2>4, Keys16Carried
    <3> QED BY <3>1 DEF RoundKey16, x, y
  <2>6. Took(16, s, RoundKey16(g, s), n) /\ Took(16, z, RoundKey16(h, z), m)
    BY Round16Steps
  <2>7. (~n.done => n.hash = x) /\ (~m.done => m.hash = y)
    BY Round16Steps
  <2> HIDE DEF n, m, x, y
  <2>8. RunsMatch(n, m, p)
    BY <1>1, <2>2, <2>5, <2>6, TookMatches
  <2>9. m.done <=> n.done
    BY <2>8 DEF RunsMatch
  <2>10. RunsMatch16(n, m, p)
    BY <2>4, <2>7, <2>8, <2>9 DEF RunsMatch16
  <2> QED BY <2>1, <2>10
<1> QED BY <1>2, <1>3

LEMMA Avx16Renamed ==
    ASSUME Fits(16), NEW g \in SimpleGraphs, NEW h, NEW p, AreRenamed(g, h, p),
           NEW k \in Colorings, NEW m \in Colorings, Carries(k.color, m.color, p),
           NEW first \in BOOLEAN
    PROVE  Carries(Avx16Final(g, k, first).color, Avx16Final(h, m, first).color, p)
<1> DEFINE n == N+1
<1>0. n \in Nat /\ n \in 0 .. n /\ h \in SimpleGraphs /\ IsRenaming(p)
  BY NAssumption, RenamedSimple DEF AreRenamed
<1>1. PICK w : Loop(n, States16, Opening16(g, k, first), Loop16(g), w)
               /\ Avx16Final(g, k, first) = w[n]
  BY <1>0, Loop16Taken
<1>2. PICK x : Loop(n, States16, Opening16(h, m, first), Loop16(h), x)
               /\ Avx16Final(h, m, first) = x[n]
  BY <1>0, Loop16Taken
<1>3. \A i \in 1 .. n : w[i-1] \in States16 /\ w[i] = Next16(g, w[i-1])
  BY <1>0, <1>1, Loop16Walks
<1>4. \A i \in 1 .. n : x[i-1] \in States16 /\ x[i] = Next16(h, x[i-1])
  BY <1>0, <1>2, Loop16Walks
<1>5. w[0] = Opening16(g, k, first) /\ x[0] = Opening16(h, m, first)
  BY <1>1, <1>2 DEF Loop
<1> HIDE DEF n
<1> DEFINE T == {i \in 0 .. n : RunsMatch16(w[i], x[i], p)}
<1>6. 0 \in T
  <2> DEFINE c == LaneColors(k.color, 16)
             d == LaneColors(m.color, 16)
  <2>1. /\ LaneColored(16, c) /\ LaneColored(16, d)
        /\ \A u \in Nodes : c[u] = k.color[u] /\ d[u] = m.color[u]
    BY NodesColored
  <2>2. Carries(c, d, p)
    BY <1>0, <2>1 DEF Carries, IsRenaming
  <2>3. /\ w[0].color = c /\ w[0].starts = {0} /\ ~w[0].done
        /\ w[0].hash = InitialHashes(g, c, first)
        /\ x[0].color = d /\ x[0].starts = {0} /\ ~x[0].done
        /\ x[0].hash = InitialHashes(h, d, first)
    BY <1>5 DEF Opening16
  <2> HIDE DEF c, d
  <2>4. HashesMatch(InitialHashes(g, c, first), InitialHashes(h, d, first), p)
    BY <1>0, <2>1, <2>2, OpeningHashesMatch
  <2>5. RunsMatch16(w[0], x[0], p)
    BY <2>2, <2>3, <2>4 DEF RunsMatch16, RunsMatch
  <2> QED BY <1>0, <2>5
<1>7. ASSUME NEW i \in 1 .. n, i-1 \in T PROVE i \in T
  <2>1. RunsMatch16(w[i-1], x[i-1], p) /\ i \in 0 .. n
    BY <1>0, <1>7
  <2>2. RunsMatch16(w[i], x[i], p)
    BY <1>0, <1>3, <1>4, <2>1, Next16Matches
  <2> QED BY <2>1, <2>2
<1>8. \A i \in 0 .. n : i \in T
  <2> HIDE DEF T
  <2> QED BY <1>0, <1>6, <1>7, UpTo
<1>9. RunsMatch16(w[n], x[n], p)
  BY <1>0, <1>8
<1> QED BY <1>1, <1>2, <1>9 DEF RunsMatch16, RunsMatch

-----------------------------------------------------------------------------
(***************************************************************************)
(* No hash of 16 lanes separates nodes that an equitable refinement of the *)
(* input keeps together.                                                   *)
(***************************************************************************)
HashesWithin(c, hash) == SameWithin(c, NodeHashes(hash))

LEMMA HashesTogether ==
    ASSUME NEW c, NEW hash
    PROVE  HashesWithin(c, hash)
              <=> \A u, v \in Nodes : c[u] = c[v] => hash[u+1] = hash[v+1]
BY DEF HashesWithin, SameWithin, NodeHashes

LEMMA DegreesTogether ==
    ASSUME NEW g \in [Nodes -> SUBSET Nodes], NEW c \in [Nodes -> Nodes], Equitable(g, c),
           NEW u \in Nodes, NEW v \in Nodes, c[u] = c[v]
    PROVE  Cardinality(g[u]) = Cardinality(g[v])
<1> DEFINE zero == [w \in Nodes |-> 0]
           S == g[u]
           T == g[v]
<1>1. S \subseteq Nodes /\ T \subseteq Nodes /\ \A w \in Nodes : zero[w] = 0
  OBVIOUS
<1> HIDE DEF zero
<1>2. SameWithin(c, zero)
  BY <1>1 DEF SameWithin
<1>3. PICK q : Matches(zero, zero, S, T, q)
  BY <1>2, NeighboursMatch
<1> HIDE DEF S, T
<1>4. CountOf(zero, S, 0) = CountOf(zero, T, 0)
  BY <1>3, MatchCounts
<1>5. {w \in S : zero[w] = 0} = S /\ {w \in T : zero[w] = 0} = T
  BY <1>1
<1>6. Cardinality(S) = Cardinality(T)
  BY <1>4, <1>5 DEF CountOf
<1> QED BY <1>6 DEF S, T

LEMMA OpeningHashesTogether ==
    ASSUME Fits(16), NEW g \in SimpleGraphs, NEW c \in [Nodes -> Nodes], Equitable(g, c),
           NEW color, LaneColored(16, color), SameWithin(c, color), NEW first \in BOOLEAN
    PROVE  HashesWithin(c, InitialHashes(g, color, first))
<1> DEFINE a == InitialHashes(g, color, first)
<1>1. \A u \in Nodes : a[u+1] = FirstHash(color[u], Cardinality(g[u]), first)
  BY OpeningHashes
<1> HIDE DEF a
<1>2. g \in [Nodes -> SUBSET Nodes]
  BY DEF SimpleGraphs
<1>3. ASSUME NEW u \in Nodes, NEW v \in Nodes, c[u] = c[v] PROVE a[u+1] = a[v+1]
  <2>1. Cardinality(g[u]) = Cardinality(g[v])
    BY <1>2, <1>3, DegreesTogether
  <2>2. color[u] = color[v]
    BY <1>3 DEF SameWithin
  <2> QED BY <1>1, <2>1, <2>2
<1>4. HashesWithin(c, a)
  BY <1>3, HashesTogether
<1> QED BY <1>4 DEF a

LEMMA NextHashesTogether ==
    ASSUME Fits(16), NEW g \in SimpleGraphs, NEW c \in [Nodes -> Nodes], Equitable(g, c),
           NEW a \in LaneHashes, HashesWithin(c, a)
    PROVE  HashesWithin(c, NextHashes(g, a))
<1> DEFINE x == NextHashes(g, a)
           e == NodeHashes(a)
<1>1. \A u \in Nodes : x[u+1] = SumOf(e, g[u], HashFmix32(a[u+1]))
  BY HashesAdvance
<1>2. \A u \in Nodes : a[u+1] \in Words
  <2>1. \A u \in Nodes : u+1 \in 1 .. 16
    BY NAssumption DEF Nodes, Fits
  <2> QED BY <2>1 DEF LaneHashes
<1>3. e \in Hashed /\ SameWithin(c, e)
  BY <1>2 DEF NodeHashes, Hashed, HashesWithin
<1>4. g \in [Nodes -> SUBSET Nodes]
  BY DEF SimpleGraphs
<1> HIDE DEF e, x
<1>5. ASSUME NEW u \in Nodes, NEW v \in Nodes, c[u] = c[v] PROVE x[u+1] = x[v+1]
  <2> DEFINE base == HashFmix32(a[u+1])
             S == g[u]
             T == g[v]
  <2>1. a[v+1] = a[u+1]
    BY <1>5, HashesTogether
  <2>2. base \in Words
    BY <1>2, FinalizedWord
  <2>3. PICK q : Matches(e, e, S, T, q)
    BY <1>3, <1>4, <1>5, NeighboursMatch
  <2>4. x[u+1] = SumOf(e, S, base) /\ x[v+1] = SumOf(e, T, base)
    BY <1>1, <2>1
  <2> HIDE DEF base, S, T
  <2>5. SumOf(e, S, base) = SumOf(e, T, base)
    BY <1>3, <2>2, <2>3, SumCarries
  <2> QED BY <2>4, <2>5
<1>6. HashesWithin(c, x)
  BY <1>5, HashesTogether
<1> QED BY <1>6 DEF x

LEMMA Keys16Together ==
    ASSUME Fits(16), NEW c, NEW hash, HashesWithin(c, hash), NEW color, SameWithin(c, color)
    PROVE  SameWithin(c, Key16(hash, color))
<1>1. \A u \in Nodes : u \in LanesOf(16)
  BY NAssumption DEF LanesOf, Nodes, Fits
<1> SUFFICES ASSUME NEW u \in Nodes, NEW v \in Nodes, c[u] = c[v]
             PROVE  Key16(hash, color)[u] = Key16(hash, color)[v]
  BY DEF SameWithin
<1>2. hash[u+1] = hash[v+1] /\ color[u] = color[v]
  BY HashesTogether DEF SameWithin
<1>3. KeyHigh(hash, color)[u] = KeyHigh(hash, color)[v] /\ KeyLow(hash)[u] = KeyLow(hash)[v]
  BY <1>1, <1>2 DEF KeyHigh, KeyLow
<1> QED BY <1>3 DEF Key16, NodeKeys

\* What holds of a run until it stops.
RunWithin16(c, s) == SameWithin(c, s.color) /\ (~s.done => HashesWithin(c, s.hash))

LEMMA Next16KeepsTogether ==
    ASSUME Fits(16), NEW g \in SimpleGraphs, NEW c \in [Nodes -> Nodes], Equitable(g, c),
           NEW s \in States16, RunWithin16(c, s)
    PROVE  RunWithin16(c, Next16(g, s))
<1> DEFINE x == NextHashes(g, s.hash)
           n == Round16(g, s)
<1>1. CASE s.done
  BY <1>1 DEF Next16
<1>2. CASE ~s.done
  <2>1. Next16(g, s) = n
    BY <1>2 DEF Next16
  <2>2. s.hash \in LaneHashes /\ HashesWithin(c, s.hash) /\ SameWithin(c, s.color)
    BY <1>2 DEF States16, RunWithin16
  <2>3. HashesWithin(c, x)
    BY <2>2, NextHashesTogether
  <2>4. SameWithin(c, RoundKey16(g, s))
    <3> HIDE DEF x
    <3>1. SameWithin(c, Key16(x, s.color))
      BY <2>2, <2>3, Keys16Together
    <3> QED BY <3>1 DEF RoundKey16, x
  <2>5. Stepped(16, s, RoundKey16(g, s), n) /\ (~n.done => n.hash = x)
    BY Round16Steps
  <2> HIDE DEF n, x
  <2>6. SameWithin(c, n.color)
    BY <2>4, <2>5 DEF Stepped, SameColors, SameWithin
  <2>7. RunWithin16(c, n)
    BY <2>3, <2>5, <2>6 DEF RunWithin16
  <2> QED BY <2>1, <2>7
<1> QED BY <1>1, <1>2

LEMMA Avx16KeepsTogether ==
    ASSUME Fits(16), NEW g \in SimpleGraphs, NEW k \in Colorings, NEW first \in BOOLEAN,
           NEW c \in [Nodes -> Nodes], Equitable(g, c), SameWithin(c, k.color)
    PROVE  SameWithin(c, Avx16Final(g, k, first).color)
<1> DEFINE n == N+1
<1>0. n \in Nat /\ n \in 0 .. n
  BY NAssumption
<1>1. PICK w : Loop(n, States16, Opening16(g, k, first), Loop16(g), w)
               /\ Avx16Final(g, k, first) = w[n]
  BY Loop16Taken
<1>2. \A i \in 1 .. n : w[i-1] \in States16 /\ w[i] = Next16(g, w[i-1])
  BY <1>1, Loop16Walks
<1>3. w[0] = Opening16(g, k, first)
  BY <1>1 DEF Loop
<1> HIDE DEF n
<1> DEFINE T == {i \in 0 .. n : RunWithin16(c, w[i])}
<1>4. 0 \in T
  <2> DEFINE d == LaneColors(k.color, 16)
  <2>1. LaneColored(16, d) /\ \A u \in Nodes : d[u] = k.color[u]
    BY NodesColored
  <2>2. w[0].color = d /\ w[0].hash = InitialHashes(g, d, first)
    BY <1>3 DEF Opening16
  <2> HIDE DEF d
  <2>3. SameWithin(c, d)
    BY <2>1 DEF SameWithin
  <2>4. HashesWithin(c, InitialHashes(g, d, first))
    BY <2>1, <2>3, OpeningHashesTogether
  <2>5. RunWithin16(c, w[0])
    BY <2>2, <2>3, <2>4 DEF RunWithin16
  <2> QED BY <1>0, <2>5
<1>5. ASSUME NEW i \in 1 .. n, i-1 \in T PROVE i \in T
  <2>1. RunWithin16(c, w[i-1]) /\ i \in 0 .. n
    BY <1>0, <1>5
  <2>2. RunWithin16(c, w[i])
    BY <1>2, <2>1, Next16KeepsTogether
  <2> QED BY <2>1, <2>2
<1>6. \A i \in 0 .. n : i \in T
  <2> HIDE DEF T
  <2> QED BY <1>0, <1>4, <1>5, UpTo
<1>7. RunWithin16(c, w[n])
  BY <1>0, <1>6
<1> QED BY <1>1, <1>7 DEF RunWithin16

-----------------------------------------------------------------------------
(***************************************************************************)
(* What each engine refines to.                                            *)
(***************************************************************************)
Suits(e, g) ==
    /\ e \in {"naive", "avx8", "avx16"}
    /\ FewNodes /\ (e = "avx8" => N <= 8)
    /\ g \in [Nodes -> SUBSET Nodes] /\ (e # "naive" => g \in SimpleGraphs)

Width(e) == CASE e = "naive" -> N [] e = "avx8" -> 8 [] e = "avx16" -> 16

LEMMA EngineRefines ==
    ASSUME NEW e, NEW g, Suits(e, g), NEW k, InOrder(k), NEW first \in BOOLEAN,
           NEW m, m = Refined(e, g, k, first)
    PROVE  WellFormed(m) /\ InOrder(m) /\ KeepsOrder(k, m)
<1>1. k \in Colorings /\ g \in [Nodes -> SUBSET Nodes]
  BY DEF InOrder, Enumerates, Suits
<1>2. CASE e = "naive"
  <2>1. m = NaiveRefine(g, k)
    BY <1>2 DEF Refined
  <2>2. WellFormed(m) /\ KeepsOrder(k, m)
    BY <1>1, <2>1, NaiveRefines DEF Suits
  <2> QED BY <2>2, WellFormedInOrder
<1>3. CASE e = "avx8"
  <2>1. m = Avx8Refine(g, k) /\ Fits(8)
    BY <1>3 DEF Refined, Suits, Fits, Widths
  <2> QED BY <1>1, <2>1, Avx8Refines
<1>4. CASE e = "avx16"
  <2>1. m = Avx16Refine(g, k, first) /\ Fits(16) /\ g \in SimpleGraphs
    BY <1>4 DEF Refined, Suits, Fits, Widths, FewNodes
  <2> QED BY <1>1, <2>1, Avx16Refines
<1> QED BY <1>2, <1>3, <1>4 DEF Suits

\* Behind the nodes the vectorised refinements store the disabled lanes in order.
LEMMA EngineLeaves ==
    ASSUME NEW e, NEW g, Suits(e, g), NEW k, InOrder(k), NEW first \in BOOLEAN,
           behind \in Paddings(Width(e))
    PROVE  Behind(e, g, k, first) \in Paddings(Width(e))
<1>1. k \in Colorings /\ g \in [Nodes -> SUBSET Nodes]
  BY DEF InOrder, Enumerates, Suits
<1>2. CASE e = "naive"
  BY <1>2 DEF Behind
<1>3. CASE e = "avx8"
  <2> DEFINE f == Avx8Final(g, k)
             b == LabelsBehindNodes(f, 8)
  <2>1. Behind(e, g, k, first) = b /\ Width(e) = 8
    BY <1>3 DEF Behind, Width
  <2>2. Fits(8)
    BY <1>3 DEF Suits, Fits, Widths
  <2>3. PICK s : Ended8(g, k, f, s)
    BY <1>1, <2>2, Avx8Ends
  <2> HIDE DEF f
  <2>4. f.done /\ Settled(8, f)
    BY <2>3 DEF Ended8
  <2>5. b = [p \in N .. 8-1 |-> p]
    BY <2>2, <2>4, FinalExported
  <2> QED BY <2>1, <2>5 DEF Paddings
<1>4. CASE e = "avx16"
  <2> DEFINE f == Avx16Final(g, k, first)
             b == LabelsBehindNodes(f, 16)
  <2>1. Behind(e, g, k, first) = b /\ Width(e) = 16
    BY <1>4 DEF Behind, Width
  <2>2. Fits(16) /\ g \in SimpleGraphs
    BY <1>4 DEF Suits, Fits, Widths, FewNodes
  <2>3. Ended16(k, f)
    BY <1>1, <2>2, Avx16Ends
  <2> HIDE DEF f
  <2>4. f.done /\ Settled(16, f)
    BY <2>3 DEF Ended16
  <2>5. b = [p \in N .. 16-1 |-> p]
    BY <2>2, <2>4, FinalExported
  <2> QED BY <2>1, <2>5 DEF Paddings
<1> QED BY <1>2, <1>3, <1>4 DEF Suits

LEMMA EngineKeepsTogether ==
    ASSUME NEW e, NEW g, Suits(e, g), NEW k, InOrder(k), NEW first \in BOOLEAN,
           NEW m, m = Refined(e, g, k, first),
           NEW c \in [Nodes -> Nodes], Equitable(g, c), SameWithin(c, k.color)
    PROVE  SameWithin(c, m.color)
<1>1. k \in Colorings /\ g \in [Nodes -> SUBSET Nodes]
  BY DEF InOrder, Enumerates, Suits
<1>2. CASE e = "naive"
  <2>1. m = NaiveRefine(g, k)
    BY <1>2 DEF Refined
  <2> QED BY <1>1, <2>1, NaiveRefines DEF Suits
<1>3. CASE e = "avx8"
  <2> DEFINE f == Avx8Final(g, k)
  <2>1. m = Exported(f)
    BY <1>3 DEF Refined, Avx8Refine
  <2>2. Fits(8)
    BY <1>3 DEF Suits, Fits, Widths
  <2>3. PICK s : Ended8(g, k, f, s)
    BY <1>1, <2>2, Avx8Ends
  <2>4. SameWithin(c, f.color)
    BY <1>1, <2>2, Avx8KeepsTogether
  <2> HIDE DEF f
  <2>5. f.done /\ Settled(8, f)
    BY <2>3 DEF Ended8
  <2>6. \A u \in Nodes : m.color[u] = f.color[u]
    BY <2>1, <2>2, <2>5, FinalExported
  <2> QED BY <2>4, <2>6 DEF SameWithin
<1>4. CASE e = "avx16"
  <2> DEFINE f == Avx16Final(g, k, first)
  <2>1. m = Exported(f)
    BY <1>4 DEF Refined, Avx16Refine
  <2>2. Fits(16) /\ g \in SimpleGraphs
    BY <1>4 DEF Suits, Fits, Widths, FewNodes
  <2>3. Ended16(k, f)
    BY <1>1, <2>2, Avx16Ends
  <2>4. SameWithin(c, f.color)
    BY <1>1, <2>2, Avx16KeepsTogether
  <2> HIDE DEF f
  <2>5. f.done /\ Settled(16, f)
    BY <2>3 DEF Ended16
  <2>6. \A u \in Nodes : m.color[u] = f.color[u]
    BY <2>1, <2>2, <2>5, FinalExported
  <2> QED BY <2>4, <2>6 DEF SameWithin
<1> QED BY <1>2, <1>3, <1>4 DEF Suits

\* Hashes of 16 lanes may collide; the other engines tell all classes apart.
LEMMA EngineReaches ==
    ASSUME NEW e, NEW g, Suits(e, g), e # "avx16", NEW k, InOrder(k), NEW first \in BOOLEAN,
           NEW m, m = Refined(e, g, k, first)
    PROVE  Equitable(g, m.color)
<1>1. k \in Colorings /\ g \in [Nodes -> SUBSET Nodes]
  BY DEF InOrder, Enumerates, Suits
<1>2. CASE e = "naive"
  <2>1. m = NaiveRefine(g, k)
    BY <1>2 DEF Refined
  <2> QED BY <1>1, <2>1, NaiveRefines DEF Suits
<1>3. CASE e = "avx8"
  <2> DEFINE f == Avx8Final(g, k)
  <2>1. m = Exported(f)
    BY <1>3 DEF Refined, Avx8Refine
  <2>2. Fits(8) /\ g \in SimpleGraphs
    BY <1>3 DEF Suits, Fits, Widths
  <2>3. PICK s : Ended8(g, k, f, s)
    BY <1>1, <2>2, Avx8Ends
  <2> HIDE DEF f
  <2>4. f.done /\ Settled(8, f)
    BY <2>3 DEF Ended8
  <2>5. \A u \in Nodes : m.color[u] = f.color[u]
    BY <2>1, <2>2, <2>4, FinalExported
  <2> QED BY <2>2, <2>3, <2>5, Ends8Equitable
<1> QED BY <1>2, <1>3 DEF Suits

LEMMA EngineSeparates ==
    ASSUME NEW e, NEW g, Suits(e, g), NEW k, InOrder(k), NEW first \in BOOLEAN,
           NEW m, m = Refined(e, g, k, first)
    PROVE  m.color \in [Nodes -> Nodes] /\ SameWithin(m.color, k.color)
<1>1. InOrder(m) /\ KeepsOrder(k, m)
  BY EngineRefines
<1>2. m.color \in [Nodes -> Nodes]
  BY <1>1 DEF InOrder, Enumerates, Colorings
<1>3. \A u \in Nodes : m.color[u] \in Int /\ k.color[u] \in Int
  BY <1>1, ColorsAreInts DEF InOrder, Enumerates
<1>4. SameWithin(m.color, k.color)
  BY <1>1, <1>3 DEF KeepsOrder, SameWithin
<1> QED BY <1>2, <1>4

(***************************************************************************)
(* The naive refinement and the 8-lane one, which naive.hpp and            *)
(* avx512intrin8.inc offer for the same graphs, reach the same classes of  *)
(* any coloring, whichever of their two entry points is called.  (They may *)
(* number the classes differently, as they split classes by other keys.)   *)
(***************************************************************************)
THEOREM EnginesReachSameClasses ==
    ASSUME NEW e \in {"naive", "avx8"}, NEW f \in {"naive", "avx8"},
           NEW g, Suits(e, g), Suits(f, g), NEW k, InOrder(k),
           NEW first \in BOOLEAN, NEW again \in BOOLEAN
    PROVE  \A u, v \in Nodes : Refined(e, g, k, first).color[u] = Refined(e, g, k, first).color[v]
                <=> Refined(f, g, k, again).color[u] = Refined(f, g, k, again).color[v]
<1> DEFINE a == Refined(e, g, k, first)
           b == Refined(f, g, k, again)
<1>1. Equitable(g, a.color) /\ Equitable(g, b.color)
  BY EngineReaches
<1>2. /\ a.color \in [Nodes -> Nodes] /\ SameWithin(a.color, k.color)
      /\ b.color \in [Nodes -> Nodes] /\ SameWithin(b.color, k.color)
  BY EngineSeparates
<1> HIDE DEF a, b
<1>3. SameWithin(a.color, b.color)
  BY <1>1, <1>2, EngineKeepsTogether DEF b
<1>4. SameWithin(b.color, a.color)
  BY <1>1, <1>2, EngineKeepsTogether DEF a
<1>5. \A u, v \in Nodes : a.color[u] = a.color[v] <=> b.color[u] = b.color[v]
  BY <1>3, <1>4 DEF SameWithin
<1> QED BY <1>5 DEF a, b

LEMMA EngineRenamed ==
    ASSUME NEW e, NEW g, Suits(e, g), NEW h, NEW p, AreRenamed(g, h, p),
           NEW k, InOrder(k), NEW m, InOrder(m), Carries(k.color, m.color, p),
           NEW first \in BOOLEAN
    PROVE  Carries(Refined(e, g, k, first).color, Refined(e, h, m, first).color, p)
<1> DEFINE a == Refined(e, g, k, first)
           b == Refined(e, h, m, first)
<1>1. /\ k \in Colorings /\ m \in Colorings /\ IsRenaming(p) /\ p \in [Nodes -> Nodes]
      /\ g \in [Nodes -> SUBSET Nodes] /\ h \in [Nodes -> SUBSET Nodes]
  BY DEF InOrder, Enumerates, AreRenamed, IsRenaming
<1>2. CASE e = "naive"
  <2>1. a = NaiveRefine(g, k) /\ b = NaiveRefine(h, m)
    BY <1>2 DEF Refined
  <2>2. FewNodes
    BY DEF Suits
  <2> QED BY <2>1, <2>2, NaiveRenamed
<1>3. CASE e = "avx8"
  <2> DEFINE x == Avx8Final(g, k)
             y == Avx8Final(h, m)
  <2>1. a = Exported(x) /\ b = Exported(y)
    BY <1>3 DEF Refined, Avx8Refine
  <2>2. Fits(8)
    BY <1>3 DEF Suits, Fits, Widths
  <2>3. (\E s : Ended8(g, k, x, s)) /\ (\E s : Ended8(h, m, y, s))
    BY <1>1, <2>2, Avx8Ends
  <2>4. Carries(x.color, y.color, p)
    BY <1>1, <2>2, Avx8Renamed
  <2> HIDE DEF a, b, x, y
  <2>5. x.done /\ Settled(8, x) /\ y.done /\ Settled(8, y)
    BY <2>3 DEF Ended8
  <2>6. (\A u \in Nodes : a.color[u] = x.color[u]) /\ (\A u \in Nodes : b.color[u] = y.color[u])
    BY <2>1, <2>2, <2>5, FinalExported
  <2>7. Carries(a.color, b.color, p)
    BY <1>1, <2>4, <2>6 DEF Carries
  <2> QED BY <2>7 DEF a, b
<1>4. CASE e = "avx16"
  <2> DEFINE x == Avx16Final(g, k, first)
             y == Avx16Final(h, m, first)
  <2>1. a = Exported(x) /\ b = Exported(y)
    BY <1>4 DEF Refined, Avx16Refine
  <2>2. Fits(16) /\ g \in SimpleGraphs /\ h \in SimpleGraphs
    BY <1>4, RenamedSimple DEF Suits, Fits, Widths, FewNodes
  <2>3. Ended16(k, x) /\ Ended16(m, y)
    BY <1>1, <2>2, Avx16Ends
  <2>4. Carries(x.color, y.color, p)
    BY <1>1, <2>2, Avx16Renamed
  <2> HIDE DEF a, b, x, y
  <2>5. x.done /\ Settled(16, x) /\ y.done /\ Settled(16, y)
    BY <2>3 DEF Ended16
  <2>6. (\A u \in Nodes : a.color[u] = x.color[u]) /\ (\A u \in Nodes : b.color[u] = y.color[u])
    BY <2>1, <2>2, <2>5, FinalExported
  <2>7. Carries(a.color, b.color, p)
    BY <1>1, <2>4, <2>6 DEF Carries
  <2> QED BY <2>7 DEF a, b
<1> QED BY <1>2, <1>3, <1>4 DEF Suits

\* The two renamings that generate all others.
LEMMA RenamingsRename ==
    ASSUME NEW p \in Renamings
    PROVE  IsRenaming(p)
<1>1. N \in Nat \ {0} /\ Nodes = 0 .. N-1
  BY NAssumption DEF Nodes
<1>2. CASE p = [u \in Nodes |-> (u + 1) % N]
  <2>1. \A u \in Nodes : p[u] = IF u = N-1 THEN 0 ELSE u+1
    <3> TAKE u \in Nodes
    <3>1. p[u] = (u+1) % N /\ u+1 \in Nat /\ u+1 <= N
      BY <1>1, <1>2
    <3>2. CASE u = N-1
      <4>1. u+1 = N /\ N = 1 * N + 0
        BY <1>1, <3>2
      <4>2. N % N = 0
        BY <1>1, <4>1, QuotientUnique
      <4> QED BY <3>1, <3>2, <4>1, <4>2
    <3>3. CASE u # N-1
      <4>1. u+1 < N /\ u+1 = 0 * N + (u+1) /\ u+1 \in 0 .. N-1
        BY <1>1, <3>3
      <4> DEFINE y == u+1
      <4>2. y \in Nat /\ y = 0 * N + y /\ y \in 0 .. N-1 /\ 0 \in Nat
        BY <1>1, <4>1
      <4>3. y % N = y
        <5> HIDE DEF y
        <5> QED BY <1>1, <4>2, QuotientUnique
      <4> QED BY <3>1, <3>3, <4>3
    <3> QED BY <3>2, <3>3
  <2>2. p \in [Nodes -> Nodes]
    <3>1. \A u \in Nodes : p[u] \in Nodes
      BY <1>1, <2>1
    <3> QED BY <1>2, <3>1
  <2>3. \A u, v \in Nodes : p[u] = p[v] => u = v
    BY <1>1, <2>1
  <2>4. ASSUME NEW x \in Nodes PROVE \E u \in Nodes : p[u] = x
    <3>1. CASE x = 0
      <4>1. N-1 \in Nodes /\ p[N-1] = x
        BY <1>1, <2>1, <3>1
      <4> QED BY <4>1
    <3>2. CASE x # 0
      <4>1. x-1 \in Nodes /\ p[x-1] = x
        BY <1>1, <2>1, <3>2
      <4> QED BY <4>1
    <3> QED BY <3>1, <3>2
  <2> QED BY <2>2, <2>3, <2>4 DEF IsRenaming
<1>3. CASE p = [u \in Nodes |-> IF u < 2 /\ N > 1 THEN 1 - u ELSE u]
  <2>1. \A u \in Nodes : p[u] = IF u < 2 /\ N > 1 THEN 1 - u ELSE u
    BY <1>3
  <2>2. p \in [Nodes -> Nodes]
    <3>1. \A u \in Nodes : p[u] \in Nodes
      BY <1>1, <2>1
    <3> QED BY <1>3, <3>1
  <2>3. \A u, v \in Nodes : p[u] = p[v] => u = v
    BY <1>1, <2>1
  <2>4. ASSUME NEW x \in Nodes PROVE \E u \in Nodes : p[u] = x
    <3>1. p[x] \in Nodes /\ p[p[x]] = x
      BY <1>1, <2>1
    <3> QED BY <3>1
  <2> QED BY <2>2, <2>3, <2>4 DEF IsRenaming
<1> QED BY <1>2, <1>3 DEF Renamings

-----------------------------------------------------------------------------
(***************************************************************************)
(* The calls.  The engines get colorings that set_color has prepared from  *)
(* a new one (SetColorSlidesRight), the vectorised ones simple graphs with *)
(* no more nodes than lanes.                                               *)
(***************************************************************************)
EnginesFit ==
    /\ Engines \subseteq {"naive", "avx8", "avx16"}
    /\ \A e \in Engines, g \in RefinedGraphs : Suits(e, g)
    /\ \A k \in PreColorings : InOrder(k)

RefineInv ==
    /\ engine \in Engines
    /\ graph \in RefinedGraphs
    /\ phase \in {"prepared", "refined", "individualized"}
    /\ InOrder(coloring)
    /\ phase = "refined" => WellFormed(coloring)
    /\ behind \in Paddings(Width(engine))

LEMMA RefineStarts == EnginesFit /\ Init => RefineInv
BY DEF EnginesFit, Init, RefineInv, Capacity, Width, Paddings

\* What a refinement step does, on the first call and on later ones.
LEMMA RefiningStep ==
    ASSUME EnginesFit, RefineInv, refine \/ refine_starting_at
    PROVE  \E first \in BOOLEAN :
              /\ first <=> phase = "prepared"
              /\ coloring' = Refined(engine, graph, coloring, first)
              /\ behind' = Behind(engine, graph, coloring, first)
              /\ UNCHANGED <<engine, graph>>
              /\ phase' = "refined"
<1>1. CASE refine
  <2>1. /\ TRUE <=> phase = "prepared"
        /\ coloring' = Refined(engine, graph, coloring, TRUE)
        /\ behind' = Behind(engine, graph, coloring, TRUE)
        /\ UNCHANGED <<engine, graph>>
        /\ phase' = "refined"
    BY <1>1 DEF refine
  <2> QED BY <2>1
<1>2. CASE refine_starting_at
  <2>1. /\ FALSE <=> phase = "prepared"
        /\ coloring' = Refined(engine, graph, coloring, FALSE)
        /\ behind' = Behind(engine, graph, coloring, FALSE)
        /\ UNCHANGED <<engine, graph>>
        /\ phase' = "refined"
    BY <1>2 DEF refine_starting_at
  <2> QED BY <2>1
<1> QED BY <1>1, <1>2

LEMMA RefiningResult ==
    ASSUME EnginesFit, RefineInv, refine \/ refine_starting_at
    PROVE  /\ WellFormed(coloring')
           /\ InOrder(coloring')
           /\ KeepsOrder(coloring, coloring')
           /\ behind' \in Paddings(Width(engine))
           /\ engine # "avx16" => Equitable(graph, coloring'.color)
           /\ \A c \in [Nodes -> Nodes] : Equitable(graph, c) /\ SameWithin(c, coloring.color)
                 => SameWithin(c, coloring'.color)
<1>1. PICK first \in BOOLEAN :
         /\ coloring' = Refined(engine, graph, coloring, first)
         /\ behind' = Behind(engine, graph, coloring, first)
  BY RefiningStep
<1> DEFINE m == Refined(engine, graph, coloring, first)
<1>2. Suits(engine, graph) /\ InOrder(coloring) /\ behind \in Paddings(Width(engine))
  BY DEF EnginesFit, RefineInv
<1>3. WellFormed(m) /\ InOrder(m) /\ KeepsOrder(coloring, m)
  BY <1>2, EngineRefines
<1>4. Behind(engine, graph, coloring, first) \in Paddings(Width(engine))
  BY <1>2, EngineLeaves
<1>5. engine # "avx16" => Equitable(graph, m.color)
  BY <1>2, EngineReaches
<1>6. \A c \in [Nodes -> Nodes] : Equitable(graph, c) /\ SameWithin(c, coloring.color)
         => SameWithin(c, m.color)
  BY <1>2, EngineKeepsTogether
<1> HIDE DEF m
<1>7. coloring' = m
  BY <1>1 DEF m
<1>8. KeepsOrder(coloring, coloring')
  BY <1>3, <1>7 DEF KeepsOrder
<1> QED BY <1>1, <1>3, <1>4, <1>5, <1>6, <1>7, <1>8

LEMMA RefineInvKept == EnginesFit /\ RefineInv /\ [Next]_vars => RefineInv'
<1> SUFFICES ASSUME EnginesFit, RefineInv, [Next]_vars PROVE RefineInv'
  OBVIOUS
<1>1. CASE refine \/ refine_starting_at
  <2>1. UNCHANGED <<engine, graph>> /\ phase' = "refined"
    BY <1>1, RefiningStep
  <2>2. WellFormed(coloring') /\ InOrder(coloring') /\ behind' \in Paddings(Width(engine))
    BY <1>1, RefiningResult
  <2>3. WellFormed(coloring)' /\ InOrder(coloring)'
    BY <2>2 DEF InOrder, WellFormed, Enumerates, LabelsPermutation, LabelsSorted, ClassStarts,
                ColorAtLabel
  <2>4. (behind \in Paddings(Width(engine)))'
    BY <2>1, <2>2 DEF Paddings, Width
  <2> QED BY <2>1, <2>3, <2>4 DEF RefineInv
<1>2. ASSUME NEW u \in Nodes, Selectable(u), individualize(u)
      PROVE  RefineInv'
  <2>1. WellFormed(coloring) /\ phase' = "individualized" /\ UNCHANGED <<engine, graph, behind>>
        /\ coloring' = Individualize(coloring, u)
    BY <1>2 DEF individualize, RefineInv
  <2>2. InOrder(Individualize(coloring, u))
    BY <2>1, IndividualizeInOrder
  <2>3. InOrder(coloring)'
    BY <2>1, <2>2 DEF InOrder, Enumerates, LabelsPermutation, LabelsSorted, ColorAtLabel
  <2>4. (behind \in Paddings(Width(engine)))'
    BY <2>1 DEF RefineInv, Paddings, Width
  <2> QED BY <2>1, <2>3, <2>4 DEF RefineInv
<1>3. CASE UNCHANGED vars
  BY <1>3 DEF vars, RefineInv, InOrder, WellFormed, Enumerates, LabelsPermutation, LabelsSorted,
              ClassStarts, ColorAtLabel, Paddings, Width
<1> QED BY <1>1, <1>2, <1>3 DEF Next

LEMMA RefineInvariance == EnginesFit => (Spec => []RefineInv)
<1> SUFFICES ASSUME EnginesFit PROVE Spec => []RefineInv
  OBVIOUS
<1>1. Init => RefineInv
  BY RefineStarts
<1>2. RefineInv /\ [Next]_vars => RefineInv'
  BY RefineInvKept
<1> QED BY <1>1, <1>2, PTL DEF Spec

-----------------------------------------------------------------------------
(***************************************************************************)
(* A refined coloring is what individualize and the selector expect, the   *)
(* assertion of ir.hpp:284 with the enumeration exactly; and no engine     *)
(* sorts a node behind a disabled lane (avx512intrin8.inc,                 *)
(* avx512intrin16.inc), so the labels behind the nodes are a padding that  *)
(* leaf construction can take.                                             *)
(***************************************************************************)
THEOREM RefinedIsConsistent == EnginesFit => (Spec => []RefinedConsistent)
<1> SUFFICES ASSUME EnginesFit PROVE Spec => []RefinedConsistent
  OBVIOUS
<1>1. RefineInv => RefinedConsistent
  <2> SUFFICES ASSUME RefineInv PROVE RefinedConsistent
    OBVIOUS
  <2>1. Suits(engine, graph) /\ N \in Nat \ {0}
    BY NAssumption DEF RefineInv, EnginesFit
  <2>2. Capacity = Width(engine)
    BY DEF Capacity, Width
  <2>3. behind \in Paddings(Capacity)
    BY <2>2 DEF RefineInv
  <2>4. behind \in [N .. Capacity-1 -> 0 .. Capacity-1]
    <3> DEFINE c == Capacity
    <3>1. c \in Nat
      BY <2>1, <2>2 DEF Suits, Width
    <3>2. behind = [p \in N .. c-1 |-> 0] \/ behind = [p \in N .. c-1 |-> p]
      BY <2>3 DEF Paddings
    <3> HIDE DEF c
    <3>3. \A p \in N .. c-1 : 0 \in 0 .. c-1 /\ p \in 0 .. c-1
      BY <2>1, <3>1
    <3>4. behind \in [N .. c-1 -> 0 .. c-1]
      BY <3>2, <3>3
    <3> QED BY <3>4 DEF c
  <2>5. coloring \in Colorings
    BY DEF RefineInv, InOrder, Enumerates
  <2>6. TypeOK
    BY <2>4, <2>5 DEF TypeOK, RefineInv
  <2>7. phase = "refined" => WellFormed(coloring)
    BY DEF RefineInv
  <2>8. phase = "refined" => /\ IsConsistent(coloring)
                             /\ {coloring.label[p] : p \in Positions} = Nodes
    BY <2>7, WellFormedConsistent
  <2> QED BY <2>3, <2>6, <2>8 DEF RefinedConsistent
<1> QED BY <1>1, RefineInvariance, PTL

LEMMA RefiningIsCall ==
    ASSUME [Next]_vars, Refining
    PROVE  refine \/ refine_starting_at
BY DEF Next, Refining, individualize, vars

(***************************************************************************)
(* Classes keep their order.  naive: the four bits of color in the hash    *)
(* keys (naive.hpp:60) tell the colors apart and come first, and a round   *)
(* keeps its input's color in front of the fingerprint.  The vectorised    *)
(* ones sort by the color in the top four bits of the fingerprint.         *)
(***************************************************************************)
THEOREM ClassesKeepOrder == EnginesFit => (Spec => ClassOrderKept)
<1> SUFFICES ASSUME EnginesFit PROVE Spec => ClassOrderKept
  OBVIOUS
<1>1. RefineInv /\ [Next]_vars =>
         [Refining => \A u, v \in Nodes :
             coloring.color[u] < coloring.color[v]
                => coloring'.color[u] < coloring'.color[v]]_vars
  BY RefiningIsCall, RefiningResult DEF KeepsOrder
<1> QED BY <1>1, RefineInvariance, PTL DEF Spec, ClassOrderKept

LEMMA RefinedWithin ==
    ASSUME EnginesFit, RefineInv, [Next]_vars, Refining
    PROVE  /\ Refines(coloring'.color, coloring.color)
           /\ \A c \in Partitions : Refines(c, coloring.color) /\ Equitable(graph, c)
                 => Refines(c, coloring'.color)
<1>1. refine \/ refine_starting_at
  BY RefiningIsCall
<1>2. /\ InOrder(coloring')
      /\ KeepsOrder(coloring, coloring')
      /\ \A c \in [Nodes -> Nodes] : Equitable(graph, c) /\ SameWithin(c, coloring.color)
            => SameWithin(c, coloring'.color)
  BY <1>1, RefiningResult
<1>3. Refines(coloring'.color, coloring.color)
  <2>1. \A u \in Nodes : coloring.color[u] \in Int /\ coloring'.color[u] \in Int
    BY <1>2, ColorsAreInts DEF RefineInv, InOrder, Enumerates
  <2> QED BY <1>2, <2>1 DEF KeepsOrder, Refines, Same
<1>4. ASSUME NEW c \in Partitions, Refines(c, coloring.color), Equitable(graph, c)
      PROVE  Refines(c, coloring'.color)
  BY <1>2, <1>4 DEF Partitions, Refines, Same, SameWithin
<1> QED BY <1>3, <1>4

(***************************************************************************)
(* Refinement reaches the coarsest equitable coloring that refines its     *)
(* input, unless it tells the nodes apart by hashes alone, as the 16-lane  *)
(* one does.  naive: the n-1 rounds of naive.hpp:85 suffice, since each    *)
(* either splits a class or was given an equitable coloring.  8 lanes: the *)
(* counts of neighbours fit three bits each, so the last round, which      *)
(* starts no class, saw equal counts within each.                          *)
(***************************************************************************)
THEOREM RefinesToCoarsest ==
    EnginesFit /\ "avx16" \notin Engines => (Spec => CoarsestEquitable)
<1> SUFFICES ASSUME EnginesFit, "avx16" \notin Engines PROVE Spec => CoarsestEquitable
  OBVIOUS
<1> DEFINE Reaches ==
             Refining =>
                /\ Refines(coloring'.color, coloring.color)
                /\ Equitable(graph, coloring'.color)
                /\ \A c \in Partitions :
                      Refines(c, coloring.color) /\ Equitable(graph, c)
                          => Refines(c, coloring'.color)
<1>1. RefineInv /\ [Next]_vars => Reaches
  <2> SUFFICES ASSUME RefineInv, [Next]_vars, Refining PROVE Reaches
    OBVIOUS
  <2>1. refine \/ refine_starting_at
    BY RefiningIsCall
  <2>2. engine # "avx16"
    BY DEF RefineInv
  <2>3. Equitable(graph, coloring'.color)
    BY <2>1, <2>2, RefiningResult
  <2> QED BY <2>3, RefinedWithin
<1>2. RefineInv /\ [Next]_vars => [Reaches]_vars
  BY <1>1
<1> QED BY <1>2, RefineInvariance, PTL DEF Spec, CoarsestEquitable

\* RefineApi!CoarsestEquitable without the claim that the result is equitable.
NoFinerThanNeeded ==
    [][Refining =>
          /\ Refines(coloring'.color, coloring.color)
          /\ \A c \in Partitions : Refines(c, coloring.color) /\ Equitable(graph, c)
                => Refines(c, coloring'.color)]_vars

(***************************************************************************)
(* All three refinements split classes and stay above every equitable      *)
(* coloring that refines their input: what the 16-lane one may do wrong,   *)
(* should hashes collide, is to stop early, never to separate nodes that   *)
(* belong together.                                                        *)
(***************************************************************************)
THEOREM StopsAboveEquitable == EnginesFit => (Spec => NoFinerThanNeeded)
<1> SUFFICES ASSUME EnginesFit PROVE Spec => NoFinerThanNeeded
  OBVIOUS
<1> DEFINE Stays ==
             Refining =>
                /\ Refines(coloring'.color, coloring.color)
                /\ \A c \in Partitions : Refines(c, coloring.color) /\ Equitable(graph, c)
                      => Refines(c, coloring'.color)
<1>1. RefineInv /\ [Next]_vars => Stays
  BY RefinedWithin
<1>2. RefineInv /\ [Next]_vars => [Stays]_vars
  BY <1>1
<1> QED BY <1>2, RefineInvariance, PTL DEF Spec, NoFinerThanNeeded

(***************************************************************************)
(* Refinement does not depend on the names of the nodes.  std::sort leaves *)
(* nodes with equal keys in an order that does, as the lane in the lowest  *)
(* bits of the vectorised fingerprints does, but the numbers along the     *)
(* sort (naive.hpp:70, 116), the starts of the classes and the sums of     *)
(* neighbours' hashes do not.                                              *)
(***************************************************************************)
THEOREM RefinementIsEquivariant == EnginesFit => (Spec => Equivariant)
<1> SUFFICES ASSUME EnginesFit PROVE Spec => Equivariant
  OBVIOUS
<1> DEFINE SameRenamed ==
             Refining => \A p \in Renamings :
                LET renamed == Refined(engine, RenamedGraph(graph, p),
                                       RenamedColoring(coloring, p), phase = "prepared")
                IN  \A u \in Nodes : renamed.color[p[u]] = coloring'.color[u]
<1>1. RefineInv /\ [Next]_vars => SameRenamed
  <2> SUFFICES ASSUME RefineInv, [Next]_vars, Refining, NEW p \in Renamings, NEW u \in Nodes
               PROVE  Refined(engine, RenamedGraph(graph, p), RenamedColoring(coloring, p),
                              phase = "prepared").color[p[u]] = coloring'.color[u]
    OBVIOUS
  <2> DEFINE e == engine
             g == graph
             k == coloring
             h == RenamedGraph(g, p)
             m == RenamedColoring(k, p)
             first == phase = "prepared"
  <2>1. first \in BOOLEAN
    OBVIOUS
  <2>2. coloring' = Refined(e, g, k, first)
    <3>1. PICK f \in BOOLEAN : /\ f <=> phase = "prepared"
                               /\ coloring' = Refined(e, g, k, f)
      BY RefiningIsCall, RefiningStep
    <3>2. f <=> first
      BY <3>1
    <3> HIDE DEF first
    <3>3. f = first
      BY <2>1, <3>2
    <3> QED BY <3>1, <3>3
  <2>3. Suits(e, g) /\ g \in [Nodes -> SUBSET Nodes] /\ InOrder(k) /\ IsRenaming(p)
    BY RenamingsRename DEF EnginesFit, RefineInv, Suits
  <2> HIDE DEF e, g, k, first
  <2>4. AreRenamed(g, h, p) /\ InOrder(m) /\ Carries(k.color, m.color, p)
    BY <2>3, GraphRenamed, ColoringRenamed
  <2> HIDE DEF h, m
  <2>5. Carries(Refined(e, g, k, first).color, Refined(e, h, m, first).color, p)
    BY <2>1, <2>3, <2>4, EngineRenamed
  <2>6. Refined(e, h, m, first).color[p[u]] = Refined(e, g, k, first).color[u]
    BY <2>5 DEF Carries
  <2> QED BY <2>2, <2>6 DEF h, m, e, g, k, first
<1>2. RefineInv /\ [Next]_vars => [SameRenamed]_vars
  BY <1>1
<1> QED BY <1>2, RefineInvariance, PTL DEF Spec, Equivariant
=============================================================================
