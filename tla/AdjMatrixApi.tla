---------------------------- MODULE AdjMatrixApi ----------------------------
(***************************************************************************)
(* One matrix under its public mutators, with what the last call returned. *)
(* The code asserts that both ends of an edge are nodes and differ.        *)
(***************************************************************************)
EXTENDS AdjMatrix

VARIABLES buffer, returned

vars == <<buffer, returned>>

Init == buffer = NewBuffer /\ returned = 0

AsNumber(b) == IF b THEN 1 ELSE 0

add_edge(u, v) == /\ u # v
                  /\ buffer' = AddEdge(buffer, u, v)
                  /\ returned' = AsNumber(has_edge(buffer, u, v))

remove_edge(u, v) == /\ u # v
                     /\ buffer' = RemoveEdge(buffer, u, v)
                     /\ returned' = AsNumber(has_edge(buffer, u, v))

\* A range of edges: here a path over distinct nodes, walked up and back down.
PathRange(u, v, w) == <<<<u, v>>, <<v, w>>, <<w, v>>, <<v, u>>>>

add_edges(range) == LET result == AddEdges(buffer, range)
                    IN  buffer' = result.buffer /\ returned' = result.count

remove_edges(range) == LET result == RemoveEdges(buffer, range)
                       IN  buffer' = result.buffer /\ returned' = result.count

\* A rotation and a swap generate every renaming of the nodes.
Renamings == {[u \in Nodes |-> (u + 1) % N],
              [u \in Nodes |-> IF u < 2 /\ N > 1 THEN 1 - u ELSE u]}

\* The matrix is replaced by its rearranged copy.
permuted(p) == /\ buffer' = Permuted(buffer, p)
               /\ returned' = 0

Next == \/ \E u, v \in Nodes : add_edge(u, v)
        \/ \E u, v \in Nodes : remove_edge(u, v)
        \/ \E u, v, w \in Nodes :
              Cardinality({u, v, w}) = 3 /\ add_edges(PathRange(u, v, w))
        \/ \E u, v, w \in Nodes :
              Cardinality({u, v, w}) = 3 /\ remove_edges(PathRange(u, v, w))
        \/ \E p \in Renamings : permuted(p)

Spec == Init /\ [][Next]_vars

-----------------------------------------------------------------------------
\* The graph the buffer stands for.
EdgeSet == {{e[1], e[2]} : e \in {d \in Nodes \X Nodes : has_edge(buffer, d[1], d[2])}}

(***************************************************************************)
(* Whatever the calls, the buffer keeps its size and its words their       *)
(* width, and the words behind the nodes' rows and columns stay zero: the  *)
(* vectorised code and the degree count read whole rows, and the           *)
(* refinement requires it (naive.hpp:78).                                  *)
(***************************************************************************)
NothingBeyondNodes ==
    /\ buffer \in [Indices -> SUBSET (0 .. Word-1)] /\ returned \in Nat
    /\ \A u, v \in 0 .. Capacity-1 : get_bit(buffer, u, v) => u \in Nodes /\ v \in Nodes

(***************************************************************************)
(* The two bits of an edge always agree (the assertions adj_matrix.hpp:157 *)
(* and 170), no node is its own neighbour, and the degree is that of the   *)
(* graph.                                                                  *)
(***************************************************************************)
Symmetric ==
    \A u, v \in Nodes :
        /\ has_edge(buffer, u, v) = has_edge(buffer, v, u)
        /\ ~has_edge(buffer, u, u)
        /\ count_ones(buffer, u) = Cardinality({e \in EdgeSet : u \in e})

(***************************************************************************)
(* edges() yields each edge exactly once, which needs the neighbours in    *)
(* ascending order: the loop breaks at the first larger one, and permuted  *)
(* and the hashing count on it.                                            *)
(***************************************************************************)
EdgesOnce ==
    LET seq == edges(buffer)
    IN  /\ Len(seq) = Cardinality(EdgeSet)
        /\ {{seq[i][1], seq[i][2]} : i \in DOMAIN seq} = EdgeSet

(***************************************************************************)
(* permuted is the isomorphic copy: u, v are adjacent before exactly if    *)
(* their new names are afterwards.                                         *)
(***************************************************************************)
PermutedIsomorphic ==
    [][\A p \in Renamings : permuted(p) =>
          \A u, v \in Nodes :
             has_edge(buffer, u, v) = has_edge(buffer', p[u], p[v])]_vars

(***************************************************************************)
(* The buffer of words implements the set of edges: every call changes the *)
(* set and returns what the graph it stands for requires, wherever the     *)
(* bits of an edge fall in the words.                                      *)
(***************************************************************************)
Graph == INSTANCE GraphCalls WITH present <- EdgeSet

ImplementsGraph == Graph!Spec
=============================================================================
