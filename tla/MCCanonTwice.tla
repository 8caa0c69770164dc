---------------------------- MODULE MCCanonTwice ----------------------------
(***************************************************************************)
(* Instances of the invariance test with the naive refinement.             *)
(***************************************************************************)
EXTENDS CanonTwice, Naive

MCRefine(g, k) == NaiveRefine(g, k)

WithEdges(E) == [u \in Nodes |-> {v \in Nodes : <<u, v>> \in E \/ <<v, u>> \in E}]

\* One node keeps its name, the others go round.
Shuffle == [u \in Nodes |-> (3 * u + 1) % N]
Reversal == [u \in Nodes |-> N - 1 - u]
MCShuffle == {Shuffle}
MCReversal == {Reversal}

\* Every graph in at least one numbering: degrees do not grow with the number.
MCGraphs == {g \in SimpleGraphs :
                \A u \in 1 .. N-1 : Cardinality(g[u]) <= Cardinality(g[u-1])}

\* Colorings as set_color leaves them: one color; node 1 before all others; the
\* second half of the nodes before the first, in colors that are no positions.
ColoredBy(c) == SetColors(NewColoring, [i \in 1 .. N |-> <<i-1, c[i-1]>>])
MCUncolored == {NewColoring}
MCInputs ==
    MCUncolored \cup
    {ColoredBy(c) : c \in {[u \in Nodes |-> IF u = 1 THEN 0 ELSE 1],
                           [u \in Nodes |-> IF u < N \div 2 THEN N-1 ELSE 0]}}

\* Eighteen edges on 10 nodes, one of them isolated; eight automorphisms.
LostLeaf ==
    {WithEdges({<<0,1>>, <<0,2>>, <<0,3>>, <<1,4>>, <<2,4>>, <<3,4>>,
                <<3,5>>, <<4,5>>, <<1,6>>, <<2,6>>, <<5,6>>, <<0,8>>,
                <<1,8>>, <<6,8>>, <<2,9>>, <<3,9>>, <<5,9>>, <<8,9>>})}
=============================================================================
