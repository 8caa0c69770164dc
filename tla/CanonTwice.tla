----------------------------- MODULE CanonTwice -----------------------------
(***************************************************************************)
(* The invariance test of tests/canon.cpp: one solver canonizes a colored  *)
(* graph, a second one the same colored graph with its nodes renamed.  The *)
(* variables of SolverProperties are those of the first solver.            *)
(***************************************************************************)
EXTENDS SolverProperties, Renaming

CONSTANT Mappings       \* the renamings of the nodes

VARIABLES graph2, input2, coloring2, stack2, best2, lca2, group_size2, pc2

Second == INSTANCE Solver
            WITH graph <- graph2, input <- input2, coloring <- coloring2,
                 stack <- stack2, best <- best2, lca <- lca2,
                 group_size <- group_size2, pc <- pc2

secondVars == <<graph2, input2, coloring2, stack2, best2, lca2, group_size2, pc2>>

TwiceInit ==
    /\ Init
    /\ \E p \in Mappings :
          /\ graph2 = RenamedGraph(graph, p)
          /\ input2 = RenamedColoring(input, p)
    /\ coloring2 = input2
    /\ stack2 = <<>>
    /\ best2 = Second!NoLeaf
    /\ lca2 = 0
    /\ group_size2 = 1
    /\ pc2 = "start"

\* solver.canonize(coloring)
CanonizeFirst == /\ pc # "done"
                 /\ Next
                 /\ UNCHANGED secondVars

\* solver_shuffled.canonize(shuffled_coloring)
CanonizeSecond == /\ pc = "done"
                  /\ Second!Next
                  /\ UNCHANGED vars

TwiceNext == CanonizeFirst \/ CanonizeSecond

TwiceSpec == TwiceInit /\ [][TwiceNext]_<<vars, secondVars>>

\* Both calls go on until they return; compare Progress.
TwiceProgress == []<>(pc2 = "done") \/ []<><<TwiceNext>>_<<vars, secondVars>>

FairTwiceSpec == TwiceSpec /\ TwiceProgress

-----------------------------------------------------------------------------
\* canonical_adjacency of the test: the edges between the colors of the leaf.
CanonicalAdjacency(g, leaf) ==
    {<<leaf.color[u], leaf.color[v]>> : <<u, v>> \in {e \in Nodes \X Nodes : e[2] \in g[e[1]]}}

BothDone == pc = "done" /\ pc2 = "done"

(***************************************************************************)
(* tests/canon.cpp:119-121 and 183-185: both leaves are discrete and give  *)
(* one and the same canonical adjacency, however the nodes were renamed.   *)
(***************************************************************************)
SameCanonicalForm ==
    BothDone =>
        /\ \A u, v \in Nodes : best.leaf.color[u] = best.leaf.color[v] => u = v
        /\ CanonicalAdjacency(graph, best.leaf) = CanonicalAdjacency(graph2, best2.leaf)

(***************************************************************************)
(* Both calls of canonize return (ir.hpp:172-293): every frame runs out of *)
(* vertices and every jump is to a frame that still exists, also for a     *)
(* graph whose nodes were renamed.                                         *)
(***************************************************************************)
Terminates == <>BothDone
=============================================================================
