---------------------------- MODULE ColoringApi ----------------------------
(***************************************************************************)
(* One coloring object under arbitrary sequences of its public mutators,   *)
(* which the code guards only by 0 <= u, c < num_nodes().                  *)
(***************************************************************************)
EXTENDS Coloring

VARIABLE coloring

Init == coloring = NewColoring

set_color(u, c) == coloring' = SetColor(coloring, u, c)

individualize(u) == coloring' = Individualize(coloring, u)

Next == \/ \E u \in Nodes, c \in Nodes : set_color(u, c)
        \/ \E u \in Nodes : individualize(u)

Spec == Init /\ [][Next]_coloring

-----------------------------------------------------------------------------
TypeOK == coloring \in Colorings

ClassOf(k, u) == {v \in Nodes : k.color[v] = k.color[u]}
Classes(k) == {ClassOf(k, u) : u \in Nodes}

(***************************************************************************)
(* Whatever the calls, colors stay below num_nodes() and labels() an       *)
(* enumeration of the nodes, so the search of label_position               *)
(* (coloring.hpp:46-54) never reaches its assert(false): the in-place      *)
(* slides and the swap lose no node.                                       *)
(***************************************************************************)
EnumerationKept == TypeOK /\ LabelsPermutation(coloring)

(***************************************************************************)
(* set_color on labels in color order leaves them in color order: the      *)
(* slide of coloring.hpp:130-140 stops at the right place in both          *)
(* directions, for every old and new color.                                *)
(***************************************************************************)
SetColorKeepsOrder ==
    [][\A u, c \in Nodes :
          /\ LabelsSorted(coloring)
          /\ set_color(u, c)
          => LabelsSorted(coloring')]_coloring

(***************************************************************************)
(* On a coloring that satisfies the documented class invariant,            *)
(* individualize(u) splits {u} off its class, leaves every other class     *)
(* alone, keeps the class invariant (so is_consistent still accepts) and   *)
(* puts u behind the remainder of its class.                               *)
(***************************************************************************)
IndividualizeSplits ==
    [][\A u \in Nodes :
          /\ ClassStarts(coloring)
          /\ individualize(u)
          => /\ ClassStarts(coloring')
             /\ IsConsistent(coloring')
             /\ Classes(coloring')
                  = (Classes(coloring) \ {ClassOf(coloring, u)})
                      \cup ({ClassOf(coloring, u) \ {u}, {u}} \ {{}})
             /\ \A v \in ClassOf(coloring, u) \ {u} :
                   coloring'.color[v] < coloring'.color[u]]_coloring
=============================================================================
