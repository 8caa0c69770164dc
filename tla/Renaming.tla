------------------------------ MODULE Renaming ------------------------------
(***************************************************************************)
(* Renaming the nodes of a graph and of a coloring, as AdjMatrix::permuted *)
(* and permute_graph of tests/canon.cpp do: p[u] is the new name of u.     *)
(***************************************************************************)
EXTENDS Leaves

RenamedGraph(g, p) ==
    [x \in Nodes |-> {p[v] : v \in g[CHOOSE u \in Nodes : p[u] = x]}]

\* A copy of k in which set_color gives p[u] the color u has in k, u = 0, 1, ...
RenamedColoring(k, p) ==
    SetColors(k, [i \in 1 .. N |-> <<p[i-1], k.color[i-1]>>])
=============================================================================
