------------------------------- MODULE Solver -------------------------------
(***************************************************************************)
(* Solver::canonize (ir.hpp): depth-first search of the                    *)
(* individualization-refinement tree for the least leaf, with automorphism *)
(* pruning.  One action per branch of the loop body; the loop that advances*)
(* the pointer of the top frame takes one step per vertex.                 *)
(*                                                                         *)
(* The template parameters are operator constants: Refine(g, k) is         *)
(* refine_t::refine on the graph g (refine_starting_at is the same call),  *)
(* Compare(g0, g1) is compare_leaves for the storage type.  Of Stats only  *)
(* the group size is kept: the other members are counters for print().     *)
(***************************************************************************)
EXTENDS Orbits, Leaves

CONSTANTS Graphs,               \* the graphs the solver may be given
          InputColorings,       \* the colorings canonize may be called with
          Refine(_, _),
          Compare(_, _)

VARIABLES graph,        \* the solver's copy of its graph
          input,        \* the coloring of the call (history, for properties)
          coloring,     \* the coloring of the current node
          stack,        \* SearchStack: frames of coloring, next vertex, color
          best,         \* best_leaf
          lca,          \* best_leaf_lca
          group_size,   \* stats.group_size
          pc            \* "start", "select" (is_backtrack = false),
                        \* "scan" (after a push or a backtrack), "done"

vars == <<graph, input, coloring, stack, best, lca, group_size, pc>>

-----------------------------------------------------------------------------
Frames == [coloring : Colorings, vertex : 0 .. N, col : Nodes]

NoLeaf == [has_value |-> FALSE, leaf |-> NewColoring,
           graph |-> [u \in Nodes |-> {}], path |-> <<>>,
           orbits |-> ClearOrbits, group_size |-> 1]

Top == stack[Len(stack)]

\* Raised to v, the pointer of the top frame.
WithTopVertex(v) == [stack EXCEPT ![Len(stack)].vertex = v]

\* copy_path_into: the pointers, one past the individualized vertices.
Path == [i \in 1 .. Len(stack) |-> stack[i].vertex]

Init == /\ graph \in Graphs
        /\ input \in InputColorings
        /\ coloring = input
        /\ stack = <<>>
        /\ best = NoLeaf
        /\ lca = 0
        /\ group_size = 1
        /\ pc = "start"

InitialRefine ==
    /\ pc = "start"
    /\ coloring' = Refine(graph, coloring)
    /\ pc' = "select"
    /\ UNCHANGED <<graph, input, stack, best, lca, group_size>>

\* A faulty form, for the mutants: the coloring is not restored.
BacktrackKeepingColoring(level) ==
    /\ stack' = SubSeq(stack, 1, level)
    /\ pc' = IF level = 0 THEN "done" ELSE "scan"
    /\ UNCHANGED coloring

\* Pop to the given number of frames and resume there, or leave the loop.
BacktrackTo(level) ==
    /\ stack' = SubSeq(stack, 1, level)
    /\ IF level = 0
       THEN pc' = "done" /\ UNCHANGED coloring
       ELSE pc' = "scan" /\ coloring' = stack[level].coloring

\* The group size is published when the loop is left.
Publish == group_size' = IF pc' = "done" THEN best'.group_size ELSE group_size

-----------------------------------------------------------------------------
(***************************************************************************)
(* A leaf: the coloring is discrete.                                       *)
(***************************************************************************)
AtLeaf == pc = "select" /\ IsDiscrete(coloring)

LeafGraph == ReorderGraph(graph, coloring)

\* Faulty forms, for the mutants: lca, the path or the orbits are left over.
ReplaceBestKeepingLca ==
    /\ best' = [has_value |-> TRUE, leaf |-> coloring, graph |-> LeafGraph,
                path |-> Path, orbits |-> ClearOrbits, group_size |-> 1]
    /\ UNCHANGED lca
ReplaceBestKeepingPath ==
    /\ best' = [best EXCEPT !.has_value = TRUE, !.leaf = coloring, !.graph = LeafGraph,
                            !.orbits = ClearOrbits, !.group_size = 1]
    /\ lca' = Len(stack)
ReplaceBestKeepingOrbits ==
    /\ best' = [best EXCEPT !.has_value = TRUE, !.leaf = coloring, !.graph = LeafGraph,
                            !.path = Path, !.group_size = 1]
    /\ lca' = Len(stack)

ReplaceBest ==
    /\ best' = [has_value |-> TRUE, leaf |-> coloring, graph |-> LeafGraph,
                path |-> Path, orbits |-> ClearOrbits, group_size |-> 1]
    /\ lca' = Len(stack)

FirstLeaf ==
    /\ AtLeaf
    /\ ~best.has_value
    /\ ReplaceBest
    /\ BacktrackTo(Len(stack))
    /\ Publish
    /\ UNCHANGED <<graph, input>>

\* The map between equal leaves is an automorphism: record it and resume at
\* the frame the two leaves share.
EqualLeaf ==
    /\ AtLeaf
    /\ best.has_value
    /\ Compare(best.graph, LeafGraph) = Equal
    /\ best' = [best EXCEPT !.orbits =
                   RecordIsomorphicColorings(@, best.leaf.label, coloring.label)]
    /\ BacktrackTo(lca)
    /\ Publish
    /\ UNCHANGED <<graph, input, lca>>

BetterLeaf ==
    /\ AtLeaf
    /\ best.has_value
    /\ Compare(best.graph, LeafGraph) = Greater
    /\ ReplaceBest
    /\ BacktrackTo(Len(stack))
    /\ Publish
    /\ UNCHANGED <<graph, input>>

WorseLeaf ==
    /\ AtLeaf
    /\ best.has_value
    /\ Compare(best.graph, LeafGraph) = Less
    /\ BacktrackTo(Len(stack))
    /\ Publish
    /\ UNCHANGED <<graph, input, best, lca>>

-----------------------------------------------------------------------------
(***************************************************************************)
(* An inner node: push a frame for its first non-trivial color, then try   *)
(* the vertices of that color in increasing order.                         *)
(***************************************************************************)
Push ==
    /\ pc = "select"
    /\ ~IsDiscrete(coloring)
    /\ stack' = Append(stack, [coloring |-> coloring, vertex |-> 0,
                               col |-> SelectFirst(coloring)])
    /\ pc' = "scan"
    /\ UNCHANGED <<graph, input, coloring, best, lca, group_size>>

\* on_best_leaf_path
OnBestPath == best.has_value /\ Len(stack) = lca

HasTopColor(v) == coloring.color[v] = Top.col

\* A faulty form, for the mutants: any frame is pruned.
PrunedAnywhere(v) == best.has_value /\ ~IsRepresentative(best.orbits, v)

\* On the best leaf's path one vertex per known orbit is enough.
Pruned(v) == OnBestPath /\ ~IsRepresentative(best.orbits, v)

\* A faulty form, for the mutants: the pointer advances by two.
SkipTwoVertices ==
    /\ pc = "scan"
    /\ Top.vertex < N
    /\ ~HasTopColor(Top.vertex) \/ Pruned(Top.vertex)
    /\ stack' = WithTopVertex(Top.vertex + 2)
    /\ UNCHANGED <<graph, input, coloring, best, lca, group_size, pc>>

\* Looking a vertex up compresses its pointer.
SkipVertex ==
    /\ pc = "scan"
    /\ Top.vertex < N
    /\ \/ ~HasTopColor(Top.vertex) /\ UNCHANGED best
       \/ /\ HasTopColor(Top.vertex)
          /\ Pruned(Top.vertex)
          /\ best' = [best EXCEPT !.orbits = Compress(@, Top.vertex)]
    /\ stack' = WithTopVertex(Top.vertex + 1)
    /\ UNCHANGED <<graph, input, coloring, lca, group_size, pc>>

\* Faulty forms, for the mutants: nothing is individualized; the pointer stays.
RefineVertex ==
    /\ pc = "scan"
    /\ Top.vertex < N
    /\ HasTopColor(Top.vertex)
    /\ ~Pruned(Top.vertex)
    /\ coloring' = Refine(graph, Top.coloring)
    /\ stack' = WithTopVertex(Top.vertex + 1)
    /\ pc' = "select"
    /\ UNCHANGED <<graph, input, best, lca, group_size>>
IndividualizeSameVertex ==
    /\ pc = "scan"
    /\ Top.vertex < N
    /\ HasTopColor(Top.vertex)
    /\ ~Pruned(Top.vertex)
    /\ coloring' = Refine(graph, Individualize(Top.coloring, Top.vertex))
    /\ pc' = "select"
    /\ UNCHANGED <<graph, input, stack, best, lca, group_size>>

IndividualizeVertex ==
    /\ pc = "scan"
    /\ Top.vertex < N
    /\ HasTopColor(Top.vertex)
    /\ ~Pruned(Top.vertex)
    /\ coloring' = Refine(graph, Individualize(Top.coloring, Top.vertex))
    /\ stack' = WithTopVertex(Top.vertex + 1)
    /\ pc' = "select"
    /\ UNCHANGED <<graph, input, best, lca, group_size>>

\* A faulty form, for the mutants: lca is not decremented.
PopFrameKeepingLca ==
    /\ pc = "scan"
    /\ Top.vertex = N
    /\ BacktrackTo(Len(stack) - 1)
    /\ Publish
    /\ UNCHANGED <<graph, input, best, lca>>

\* Leaving a node of the best leaf's path: by the orbit-stabilizer theorem the
\* group grows by the orbit of the vertex that path individualized there.
PopFrame ==
    /\ pc = "scan"
    /\ Top.vertex = N
    /\ IF OnBestPath
       THEN /\ lca' = lca - 1
            /\ best' = [best EXCEPT
                          !.group_size = @ * OrbitSize(best.orbits, best.path[lca] - 1),
                          !.orbits = Compress(@, best.path[lca] - 1)]
       ELSE UNCHANGED <<lca, best>>
    /\ BacktrackTo(Len(stack) - 1)
    /\ Publish
    /\ UNCHANGED <<graph, input>>

Returned == pc = "done" /\ UNCHANGED vars

Next == \/ InitialRefine
        \/ FirstLeaf
        \/ EqualLeaf
        \/ BetterLeaf
        \/ WorseLeaf
        \/ Push
        \/ SkipVertex
        \/ IndividualizeVertex
        \/ PopFrame
        \/ Returned

Spec == Init /\ [][Next]_vars

\* canonize is a plain loop: it goes on until it breaks out.  This is
\* WF_vars(Next) with ENABLED <<Next>>_vars replaced by what it amounts to.
Progress == []<>(pc = "done") \/ []<><<Next>>_vars

FairSpec == Spec /\ Progress
=============================================================================
