-------------------------- MODULE SolverProperties --------------------------
(***************************************************************************)
(* What canonize must get right, against the unpruned search tree and the  *)
(* automorphism group, both defined here without reference to the search.  *)
(***************************************************************************)
EXTENDS Solver, LeafForms

TypeOK ==
    /\ graph \in Graphs
    /\ input \in InputColorings
    /\ coloring \in Colorings
    /\ stack \in Seq(Frames)
    /\ best \in [has_value : BOOLEAN, leaf : Colorings,
                 graph : [Nodes -> SUBSET Nodes], path : Seq(0 .. N),
                 orbits : Orbits, group_size : Nat]
    /\ lca \in 0 .. N
    /\ group_size \in Nat
    /\ pc \in {"start", "select", "scan", "done"}

-----------------------------------------------------------------------------
(***************************************************************************)
(* The reference: the search tree without pruning, and automorphisms.      *)
(***************************************************************************)
Root == Refine(graph, input)

Child(k, v) == Refine(graph, Individualize(k, v))

Children(k) ==
    {Child(k, v) : v \in {u \in Nodes : k.color[u] = SelectFirst(k)}}

\* The nodes at depth d, and the leaves above them.
TreeLeaves ==
    LET Level[d \in 0 .. N] ==
            IF d = 0 THEN {Root}
            ELSE UNION {IF IsDiscrete(k) THEN {k} ELSE Children(k) : k \in Level[d-1]}
    IN  Level[N]

TreeGraphs == {ReorderGraph(graph, k) : k \in TreeLeaves}

\* p, defined on some of the nodes, tells them apart and keeps colors and edges.
KeepsColoredGraph(p) ==
    \A u, v \in DOMAIN p :
        /\ p[u] = p[v] => u = v
        /\ input.color[p[u]] = input.color[u]
        /\ p[v] \in graph[p[u]] <=> v \in graph[u]

IsAutomorphism(p) == DOMAIN p = Nodes /\ KeepsColoredGraph(p)

\* q, a map of the nodes below i, that also takes i to v.
Extended(q, i, v) == [u \in 0 .. i |-> IF u < i THEN q[u] ELSE v]

\* All of them: maps of the first nodes, extended by one node at a time.
Automorphisms ==
    LET maps[i \in 0 .. N] ==
            IF i = 0 THEN {<<>>}
            ELSE {p \in {Extended(q, i-1, v) : q \in maps[i-1], v \in Nodes} :
                     KeepsColoredGraph(p)}
    IN  maps[N]

-----------------------------------------------------------------------------
(***************************************************************************)
(* The frames are always a root-to-node path of the tree and `coloring' is *)
(* the node at its end: backtracking (ir.hpp:230-235, 265-272) and the     *)
(* jump restore the coloring a frame saved, never a descendant's, and the  *)
(* pointer of a frame is one past the vertex that leads to the next.       *)
(***************************************************************************)
FramesArePath ==
    /\ \A i \in 1 .. Len(stack) :
          /\ stack[i].coloring =
                IF i = 1 THEN Root
                ELSE Child(stack[i-1].coloring, stack[i-1].vertex - 1)
          /\ ~IsDiscrete(stack[i].coloring)
          /\ stack[i].col = SelectFirst(stack[i].coloring)
    /\ pc = "scan" => coloring = Top.coloring
    /\ pc = "select" =>
          coloring = IF stack = <<>> THEN Root ELSE Child(Top.coloring, Top.vertex - 1)

(***************************************************************************)
(* The stack keeps below its capacity, so that the assertion of            *)
(* SearchStack::push (ir.hpp:83) holds and the frames never move.          *)
(***************************************************************************)
StackFits == Len(stack) < N

\* Frame i is on the path to the best leaf: the pointers above it agree.
SharedWithBest(i) ==
    /\ i <= Len(best.path)
    /\ \A j \in 1 .. i-1 : stack[j].vertex = best.path[j]

(***************************************************************************)
(* best_leaf_lca is the number of frames the stack shares with the path to *)
(* the best leaf: frame i is shared if the vertices above it agree.  It is *)
(* only ever assigned, decremented and compared with stack.size(), never   *)
(* recomputed (ir.hpp:194, 212, 245, 262).                                 *)
(***************************************************************************)
LcaExact ==
    best.has_value =>
        lca = Cardinality({i \in 1 .. Len(stack) : SharedWithBest(i)})

\* Where the pointers lead: one node of the tree.
NodesAlong(path) ==
    LET Node[i \in 0 .. Len(path)] ==
            IF i = 0 THEN {Root} ELSE {Child(k, path[i] - 1) : k \in Node[i-1]}
    IN  Node[Len(path)]

(***************************************************************************)
(* The parts of best_leaf belong together: following its path from the     *)
(* root leads to its coloring, and its matrix is the graph in that         *)
(* coloring's order.                                                       *)
(***************************************************************************)
BestLeafReplays ==
    best.has_value =>
        /\ {best.leaf} = NodesAlong(best.path)
        /\ IsDiscrete(best.leaf)
        /\ best.graph = ReorderGraph(graph, best.leaf)

\* p fixes the vertices individualized above the last shared frame.
FixSharedPath(p) ==
    \A i \in 1 .. lca-1 : p[best.path[i] - 1] = best.path[i] - 1

(***************************************************************************)
(* Pruning only ever skips a vertex for an equivalent one: two vertices in *)
(* one class of best_leaf.orbits are exchanged by an automorphism of the   *)
(* colored graph that fixes every vertex on the shared path (ir.hpp:27).   *)
(***************************************************************************)
OrbitsSound ==
    best.has_value =>
        LET rep     == [v \in Nodes |-> Representative(best.orbits, v)]
            fixing  == {p \in Automorphisms : FixSharedPath(p)}
        IN  \A v \in Nodes : \E p \in fixing : p[v] = rep[v]

(***************************************************************************)
(* When leaves compare equal the map from the best leaf to the current one *)
(* is an automorphism that fixes the shared path and takes the vertex the  *)
(* best path individualized below it to the one the stack did.  This is    *)
(* what justifies to abandon everything below the shared frame             *)
(* (ir.hpp:204): it is the image of what was searched.                     *)
(***************************************************************************)
JumpJustified ==
    [][EqualLeaf =>
          LET p == [u \in Nodes |-> coloring.label[LabelPosition(best.leaf, u)]]
              vertex(path, i) == path[i] - 1
          IN  /\ IsAutomorphism(p)
              /\ \A i \in 1 .. lca : p[vertex(best.path, i)] = vertex(Path, i)
              /\ \A i \in 1 .. lca-1 : vertex(best.path, i) = vertex(Path, i)]_vars

(***************************************************************************)
(* canonize returns the least leaf of the unpruned tree, although it skips *)
(* vertices and abandons subtrees, and discards the orbits it has skipped  *)
(* by whenever a better leaf is found.                                     *)
(***************************************************************************)
FindsLeastLeaf ==
    pc = "done" =>
        /\ best.has_value
        /\ {g \in TreeGraphs : Compare(best.graph, g) # Less} = {best.graph}

(***************************************************************************)
(* stats.group_size, a product of orbit sizes (ir.hpp:263), is the order   *)
(* of the automorphism group of the colored graph.                         *)
(***************************************************************************)
GroupOrder == pc = "done" => group_size = Cardinality(Automorphisms)

(***************************************************************************)
(* At every leaf the forms of reorder_graph for 8 and 16 nodes, which work *)
(* on the whole storage and leave out the last transposition               *)
(* (reorder.hpp:144, 164), yield the matrix of the generic one in the rows *)
(* and columns of the nodes; the comparisons for 8 and 16 nodes mask       *)
(* exactly the stray bits behind them and order the leaf and the best one  *)
(* as the clean matrices are (compare_leaves.hpp:50-90), whatever is in    *)
(* the label buffer behind the nodes.                                      *)
(***************************************************************************)
LeafFormsAgree ==
    AtLeaf => /\ ReorderedAlike(graph, coloring)
              /\ best.has_value => ComparedAlike(graph, best.leaf, coloring)
=============================================================================
