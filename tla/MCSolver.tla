------------------------------ MODULE MCSolver ------------------------------
(***************************************************************************)
(* Instances of the solver with the naive and the 8-lane refinement.        *)
(***************************************************************************)
EXTENDS SolverProperties, Naive, Avx512

MCNaive(g, k) == NaiveRefine(g, k)
MCAvx8(g, k) == Avx8Refine(g, k)

MCUncolored == {NewColoring}

\* The graph with the given edges.
WithEdges(E) == [u \in Nodes |-> {v \in Nodes : <<u, v>> \in E \/ <<v, u>> \in E}]

\* The nodes on a circle, adjacent if their distance is one of the given.
Circulant(distances) ==
    [u \in Nodes |-> {v \in Nodes : \E d \in distances : v = (u + d) % N \/ u = (v + d) % N}]

\* Regular graphs on 8 nodes, where only individualization tells vertices apart: one
\* and two cycles, some with chords, a triangle beside a pentagon in two numberings,
\* and a cubic graph that is not transitive.
Regular8 ==
    {Circulant(D) : D \in {{1}, {2}, {1, 2}, {1, 4}}} \cup
    {WithEdges({<<0,1>>, <<1,2>>, <<0,2>>, <<3,4>>, <<4,5>>, <<5,6>>, <<6,7>>, <<3,7>>}),
     WithEdges({<<5,6>>, <<6,7>>, <<5,7>>, <<0,3>>, <<1,3>>, <<1,4>>, <<2,4>>, <<0,2>>}),
     WithEdges({<<0,1>>, <<0,2>>, <<0,3>>, <<1,2>>, <<1,4>>, <<2,5>>, <<3,6>>, <<3,7>>,
                <<4,6>>, <<4,7>>, <<5,6>>, <<5,7>>})}

\* The complement of a triangle beside a square, on 7 nodes: its automorphism group
\* has 6 * 8 elements.
LostGroup ==
    {WithEdges({<<0,1>>, <<0,2>>, <<1,2>>, <<1,3>>, <<2,3>>, <<0,4>>, <<3,4>>,
                <<0,5>>, <<3,5>>, <<4,5>>, <<1,6>>, <<2,6>>, <<4,6>>, <<5,6>>})}
-----------------------------------------------------------------------------
\* Classes are named by their colors; which class comes first is left open.
SamePartition(k0, k1) ==
    \A u, v \in Nodes : k0.color[u] = k0.color[v] <=> k1.color[u] = k1.color[v]

(***************************************************************************)
(* Wherever the search individualizes, all refinements reach the classes   *)
(* that its own has reached, with labels in the order of their colors:     *)
(* 8 nodes in 8 lanes, where no lane is disabled (avx512intrin8.inc:70-71),*)
(* 8 nodes in 16, and the naive one.                                       *)
(***************************************************************************)
EnginesAgree ==
    pc = "select" /\ stack # <<>> =>
        LET parent == Individualize(Top.coloring, Top.vertex - 1)
        IN  \A k \in {coloring, Avx16Refine(graph, parent, FALSE), NaiveRefine(graph, parent)} :
                IsConsistent(k) /\ SamePartition(k, coloring)
=============================================================================
