------------------------------- MODULE Naive -------------------------------
(***************************************************************************)
(* The reference color refinement (refine/naive.hpp) as a function of the  *)
(* graph and the coloring.  std::sort is used with keys that may tie; on   *)
(* at most 16 nodes it is an insertion sort, and ties stay in node order.  *)
(***************************************************************************)
EXTENDS Coloring, Hash32

\* One step of an insertion sort: x goes behind the last item it is not below.
Inserted(s, x, below(_, _)) ==
    InsertAt(s, 1 + Max({0} \cup {j \in 1 .. Len(s) : ~below(x.key, s[j].key)}), x)

\* The nodes with their keys, sorted by the keys.
Sorted(key, below(_, _)) ==
    LET after[i \in 0 .. N] ==
            IF i = 0 THEN <<>>
            ELSE Inserted(after[i-1], [key |-> key[i-1], node |-> i-1], below)
    IN  after[N]

\* Where the key differs from the one before.
Changes(sorted, upto) == {i \in 2 .. upto : sorted[i].key # sorted[i-1].key}

-----------------------------------------------------------------------------
(***************************************************************************)
(* hashing: rounds of hashed neighbourhood sums give an invariant of each  *)
(* node, prefixed by four bits of its color.                               *)
(***************************************************************************)
SumOf(hash, S, base) ==
    LET sum[i \in 0 .. N] ==
            IF i = 0 THEN base
            ELSE IF i-1 \in S THEN Add32(sum[i-1], hash[i-1]) ELSE sum[i-1]
    IN  sum[N]

\* A faulty form, for the mutants: sums read hashes that are already new.
HashRoundInPlace(g, hash) ==
    FoldLeft(LAMBDA h, i : [h EXCEPT ![i-1] = HashFmix32(SumOf(h, g[i-1], HashFmix32(@)))],
             hash, [i \in 1 .. N |-> i])

HashRound(g, hash) ==
    [u \in Nodes |-> HashFmix32(SumOf(hash, g[u], HashFmix32(hash[u])))]

Hashes(g, k, rounds) ==
    LET hash[r \in 0 .. rounds] ==
            IF r = 0 THEN [u \in Nodes |-> HashFmix32(Word(k.color[u]))]
            ELSE HashRound(g, hash[r-1])
    IN  hash[rounds]

\* A faulty form, for the mutants: without the four bits of the color.
HashKeysUnprefixed(g, k, rounds) == Hashes(g, k, rounds)

HashKeys(g, k, rounds) ==
    LET final == Hashes(g, k, rounds)
    IN  [u \in Nodes |-> ColorKey(final[u], k.color[u])]

\* In the order of the keys, each node gets the number of changes of the key so
\* far as color: the colors need not be positions.
Hashing(g, k, rounds) ==
    LET sorted == Sorted(HashKeys(g, k, rounds), Below)
    IN  IF rounds = 0 THEN k
        ELSE SetColors(k, [i \in 1 .. N |->
                 <<sorted[i].node, Cardinality(Changes(sorted, i))>>])

-----------------------------------------------------------------------------
(***************************************************************************)
(* One round of refine: sort the nodes by their color followed by the      *)
(* sorted colors of their neighbours; a node's new color is the position   *)
(* of the first node with an equal fingerprint.                            *)
(***************************************************************************)
Fingerprint(g, k, u) ==
    [own   |-> k.color[u],
     count |-> [c \in Nodes |-> Cardinality({v \in g[u] : k.color[v] = c})]]

\* Lexicographic order of the sorted sequences, read off the multiplicities: at
\* the first color with different counts the fingerprint with more of it has it
\* where the other has a larger color or has ended.
FingerprintBelow(f, h) ==
    \/ f.own < h.own
    \/ /\ f.own = h.own
       /\ \E c \in Nodes :
             /\ \A d \in 0 .. c-1 : f.count[d] = h.count[d]
             /\ \/ /\ f.count[c] > h.count[c]
                   /\ \E d \in c+1 .. N-1 : h.count[d] > 0
                \/ /\ f.count[c] < h.count[c]
                   /\ \A d \in c+1 .. N-1 : f.count[d] = 0

\* Faulty forms, for the mutants: classes numbered consecutively; the node left in
\* the fingerprint, so that all differ.
RefineRoundDense(g, k) ==
    LET sorted == Sorted([u \in Nodes |-> Fingerprint(g, k, u)], FingerprintBelow)
    IN  SetColors(k, [i \in 1 .. N |-> <<sorted[i].node, Cardinality(Changes(sorted, i))>>])
RefineRoundDiscrete(g, k) ==
    LET sorted == Sorted([u \in Nodes |-> Fingerprint(g, k, u)], FingerprintBelow)
    IN  SetColors(k, [i \in 1 .. N |-> <<sorted[i].node, i-1>>])

RefineRound(g, k) ==
    LET sorted == Sorted([u \in Nodes |-> Fingerprint(g, k, u)], FingerprintBelow)
    IN  SetColors(k, [i \in 1 .. N |->
            <<sorted[i].node, Max({1} \cup Changes(sorted, i)) - 1>>])

\* At most N-1 rounds, stopping after the first that changes no color.
RefineRounds(g, k) ==
    LET after[r \in 0 .. N-1] ==
            IF r = 0 THEN [coloring |-> k, stable |-> FALSE]
            ELSE LET s == after[r-1]
                     next == RefineRound(g, s.coloring)
                 IN  IF s.stable THEN s
                     ELSE [coloring |-> next, stable |-> next.color = s.coloring.color]
    IN  after[N-1].coloring

NaiveRefine(g, k) == RefineRounds(g, Hashing(g, k, 2))

-----------------------------------------------------------------------------
(***************************************************************************)
(* What a refinement is to reach.  A coloring is taken as a partition into *)
(* classes.                                                                *)
(***************************************************************************)
Same(color, u, v) == color[u] = color[v]

Refines(fine, coarse) ==
    \A u, v \in Nodes : Same(fine, u, v) => Same(coarse, u, v)

Equitable(g, color) ==
    \A u, v \in Nodes : Same(color, u, v) =>
        \A c \in Nodes : Cardinality({w \in g[u] : color[w] = c})
                          = Cardinality({w \in g[v] : color[w] = c})
=============================================================================
