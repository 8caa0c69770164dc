------------------------------- MODULE Leaves -------------------------------
(***************************************************************************)
(* The matrix a leaf of the search stands for (reorder.hpp) and the orders *)
(* in which two such matrices are compared (compare_leaves.hpp).  A graph  *)
(* is its adjacency matrix: g[u] is the row of u, the set of columns whose *)
(* bit is set.                                                             *)
(***************************************************************************)
EXTENDS Coloring

\* The loop-free undirected graphs on the nodes.
SimpleGraphs ==
    {g \in [Nodes -> SUBSET Nodes] :
        \A u \in Nodes : u \notin g[u] /\ \A v \in g[u] : u \in g[v]}

\* reorder_graph permutes the rows by the labels, transposes, permutes the rows
\* of the result and transposes again.  The forms of it for 8 and 16 nodes are in
\* LeafForms.
Transpose(g) == [u \in Nodes |-> {v \in Nodes : u \in g[v]}]
RowsByLabel(g, k) == [p \in Positions |-> g[k.label[p]]]
ReorderGraph(g, k) ==
    Transpose(RowsByLabel(Transpose(RowsByLabel(g, k)), k))

-----------------------------------------------------------------------------
Less == "less"
Equal == "equal"
Greater == "greater"

\* The order of two words given by their sets of one bits: the highest bit in
\* which they differ decides.
WordOrder(a, b) ==
    LET differ == (a \ b) \cup (b \ a)
    IN  IF differ = {} THEN Equal
        ELSE IF Max(differ) \in b THEN Less ELSE Greater

\* Storages of more than 64 columns: the lower triangle, row by row.
CompareTriangle(g0, g1) ==
    LET differ == {d \in Nodes \X Nodes :
                      d[2] < d[1] /\ (d[2] \in g0[d[1]]) # (d[2] \in g1[d[1]])}
        first  == CHOOSE d \in differ : \A e \in differ :
                      d[1] < e[1] \/ (d[1] = e[1] /\ d[2] <= e[2])
    IN  IF differ = {} THEN Equal
        ELSE IF first[2] \in g1[first[1]] THEN Less ELSE Greater

\* Storages of at most 64 columns, and the vectorised one for 16: the first
\* row that differs decides, as a number.
CompareRows(g0, g1) ==
    LET differ == {u \in Nodes : g0[u] # g1[u]}
    IN  IF differ = {} THEN Equal
        ELSE WordOrder(g0[Min(differ)], g1[Min(differ)])

\* The storage for 8 nodes: the whole matrix is one 64-bit number.
CompareWord(g0, g1) ==
    LET bits(g) == {8 * e[1] + e[2] : e \in {d \in Nodes \X Nodes : d[2] \in g[d[1]]}}
    IN  WordOrder(bits(g0), bits(g1))
=============================================================================
