----------------------------- MODULE RefineApi -----------------------------
(***************************************************************************)
(* How a refinement is used: a coloring prepared with set_color is refined *)
(* once, then nodes are individualized one at a time, with a refinement    *)
(* (refine_starting_at) after each.  The refinement is a template argument *)
(* of the solver; here it is chosen at the start.                          *)
(***************************************************************************)
EXTENDS Naive, Avx512, LeafForms, Renaming

CONSTANTS Engines,          \* among "naive", "avx8" and "avx16"
          RefinedGraphs,    \* graphs to refine on
          PreColorings      \* colorings prepared with set_color

VARIABLES engine, graph, coloring, phase,
          behind        \* the label buffer behind the nodes

vars == <<engine, graph, coloring, phase, behind>>

\* The capacity of the coloring that goes with the engine.
Capacity == CASE engine = "naive" -> N [] engine = "avx8" -> 8 [] engine = "avx16" -> 16

Init == /\ engine \in Engines
        /\ graph \in RefinedGraphs
        /\ coloring \in PreColorings
        /\ phase = "prepared"
        /\ behind = [p \in N .. Capacity-1 |-> 0]

\* `first' holds for refine, and not for refine_starting_at.
Refined(e, g, k, first) ==
    CASE e = "naive" -> NaiveRefine(g, k)
      [] e = "avx8"  -> Avx8Refine(g, k)
      [] e = "avx16" -> Avx16Refine(g, k, first)

\* What it leaves behind the nodes.
Behind(e, g, k, first) ==
    CASE e = "naive" -> behind
      [] e = "avx8"  -> LabelsBehindNodes(Avx8Final(g, k), 8)
      [] e = "avx16" -> LabelsBehindNodes(Avx16Final(g, k, first), 16)

refine == /\ phase = "prepared"
          /\ coloring' = Refined(engine, graph, coloring, TRUE)
          /\ behind' = Behind(engine, graph, coloring, TRUE)
          /\ phase' = "refined"
          /\ UNCHANGED <<engine, graph>>

individualize(u) == /\ phase = "refined"
                    /\ coloring' = Individualize(coloring, u)
                    /\ phase' = "individualized"
                    /\ UNCHANGED <<engine, graph, behind>>

refine_starting_at == /\ phase = "individualized"
                      /\ coloring' = Refined(engine, graph, coloring, FALSE)
                      /\ behind' = Behind(engine, graph, coloring, FALSE)
                      /\ phase' = "refined"
                      /\ UNCHANGED <<engine, graph>>

\* The selector only hands out classes of two or more nodes.
Selectable(u) == \E v \in Nodes \ {u} : coloring.color[v] = coloring.color[u]

Next == \/ refine
        \/ \E u \in Nodes : Selectable(u) /\ individualize(u)
        \/ refine_starting_at

Spec == Init /\ [][Next]_vars

-----------------------------------------------------------------------------
TypeOK == /\ engine \in Engines
          /\ graph \in RefinedGraphs
          /\ coloring \in Colorings
          /\ phase \in {"prepared", "refined", "individualized"}
          /\ behind \in [N .. Capacity-1 -> 0 .. Capacity-1]

\* Every partition once: a node's class is named by its least member.
Partitions == {c \in [Nodes -> Nodes] : \A u \in Nodes : c[u] <= u /\ c[c[u]] = c[u]}

Refining == phase # "refined" /\ phase' = "refined"

(***************************************************************************)
(* Refinement reaches the coarsest equitable coloring that refines its     *)
(* input: every equitable refinement of the input refines the result.      *)
(* The n-1 rounds of naive.hpp:85 suffice although the first one may only  *)
(* renumber the colors left by hashing, and the hash prefix never merges   *)
(* classes of the input.                                                   *)
(***************************************************************************)
CoarsestEquitable ==
    [][Refining =>
          /\ Refines(coloring'.color, coloring.color)
          /\ Equitable(graph, coloring'.color)
          /\ \A c \in Partitions :
                Refines(c, coloring.color) /\ Equitable(graph, c)
                    => Refines(c, coloring'.color)]_vars

(***************************************************************************)
(* Classes keep their order: a node of a smaller color has a smaller color *)
(* afterwards.  hashing orders by the top four bits first (naive.hpp:60),  *)
(* so the four bits must tell the colors of up to 16 nodes apart.          *)
(***************************************************************************)
ClassOrderKept ==
    [][Refining => \A u, v \in Nodes :
          coloring.color[u] < coloring.color[v]
              => coloring'.color[u] < coloring'.color[v]]_vars

(***************************************************************************)
(* A refined coloring is what individualize and the selector expect:       *)
(* labels enumerate the nodes in color order and each class has its start  *)
(* position as color, whatever set_color calls came before.  This is the   *)
(* assertion of ir.hpp:284, with the enumeration checked exactly.  Behind  *)
(* the nodes there is one of the paddings that LeafForms is checked with:  *)
(* no node is sorted behind a disabled lane.                               *)
(***************************************************************************)
RefinedConsistent ==
    /\ TypeOK
    /\ behind \in Paddings(Capacity)
    /\ phase = "refined" =>
          /\ IsConsistent(coloring)
          /\ {coloring.label[p] : p \in Positions} = Nodes

\* A swap and a rotation generate every renaming.
Renamings == {[u \in Nodes |-> (u + 1) % N],
              [u \in Nodes |-> IF u < 2 /\ N > 1 THEN 1 - u ELSE u]}

(***************************************************************************)
(* Refinement does not depend on the names of the nodes: renaming nodes of *)
(* graph and coloring renames the result.  Otherwise two numberings of one *)
(* graph would search different trees.                                     *)
(***************************************************************************)
Equivariant ==
    [][Refining => \A p \in Renamings :
          LET renamed == Refined(engine, RenamedGraph(graph, p), RenamedColoring(coloring, p),
                                 phase = "prepared")
          IN  \A u \in Nodes : renamed.color[p[u]] = coloring'.color[u]]_vars
=============================================================================
