----------------------------- MODULE OrbitSteps -----------------------------
(***************************************************************************)
(* The calls of orbits.hpp taken apart: get_representative follows one     *)
(* parent pointer per step and compresses when it has arrived, and         *)
(* union_orbits makes two such searches before it merges.                  *)
(***************************************************************************)
EXTENDS Integers, FiniteSets

CONSTANT N

ASSUME SizeAssumption == N \in Nat \ {0}

Nodes == 0 .. N-1

VARIABLES partition,    \* parent pointers
          size,         \* partition_sz
          pc,           \* "idle", or whose search it is: "query" for a call
                        \* from outside, "first", "second" for union_orbits
          node,         \* the argument of the search
          repr,         \* where the search is
          repr1,        \* union_orbits: result of its first search
          other,        \* union_orbits: argument of its second search
          recorded      \* history: the equivalence generated by the pairs
                        \* passed to union_orbits since the last clear()

vars == <<partition, size, pc, node, repr, repr1, other, recorded>>

Init == /\ partition = [v \in Nodes |-> v]
        /\ size = [v \in Nodes |-> 1]
        /\ pc = "idle"
        /\ node = 0 /\ repr = 0 /\ repr1 = 0 /\ other = 0
        /\ recorded = {<<v, v>> : v \in Nodes}

\* The least equivalence that contains the equivalence R and relates a and b.
Joined(R, a, b) ==
    {p \in Nodes \X Nodes :
        \/ p \in R
        \/ <<p[1], a>> \in R /\ <<b, p[2]>> \in R
        \/ <<p[1], b>> \in R /\ <<a, p[2]>> \in R}

-----------------------------------------------------------------------------
\* Faulty forms, for the mutants: pointers to the next node; only the sizes.
clearFromOne == /\ pc = "idle"
                /\ partition' = [v \in Nodes |-> v + 1]
                /\ size' = [v \in Nodes |-> 1]
                /\ recorded' = {<<v, v>> : v \in Nodes}
                /\ UNCHANGED <<pc, node, repr, repr1, other>>
clearSizes == /\ pc = "idle"
              /\ size' = [v \in Nodes |-> 1]
              /\ recorded' = {<<v, v>> : v \in Nodes}
              /\ UNCHANGED <<partition, pc, node, repr, repr1, other>>

clear == /\ pc = "idle"
         /\ partition' = [v \in Nodes |-> v]
         /\ size' = [v \in Nodes |-> 1]
         /\ recorded' = {<<v, v>> : v \in Nodes}
         /\ UNCHANGED <<pc, node, repr, repr1, other>>

get_representative(v) ==
    /\ pc = "idle"
    /\ pc' = "query"
    /\ node' = v
    /\ repr' = v
    /\ UNCHANGED <<partition, size, repr1, other, recorded>>

\* record_isomorphic_colorings never passes a node with itself.
union_orbits(v1, v2) ==
    /\ pc = "idle"
    /\ v1 # v2
    /\ pc' = "first"
    /\ node' = v1
    /\ repr' = v1
    /\ other' = v2
    /\ recorded' = Joined(recorded, v1, v2)
    /\ UNCHANGED <<partition, size, repr1>>

Arrived == pc # "idle" /\ partition[repr] = repr

\* A faulty form, for the mutants: repr = partition[v].
WalkFromNode == /\ pc # "idle"
                /\ partition[repr] # repr
                /\ repr' = partition[node]
                /\ UNCHANGED <<partition, size, pc, node, repr1, other, recorded>>

Walk == /\ pc # "idle"
        /\ partition[repr] # repr
        /\ repr' = partition[repr]
        /\ UNCHANGED <<partition, size, pc, node, repr1, other, recorded>>

\* A faulty form, for the mutants: partition[v] = v.
ReturnQueryDetached ==
    /\ Arrived
    /\ pc = "query"
    /\ partition' = [partition EXCEPT ![node] = node]
    /\ pc' = "idle"
    /\ UNCHANGED <<size, node, repr, repr1, other, recorded>>

\* partition[v] = repr; return repr;
ReturnQuery ==
    /\ Arrived
    /\ pc = "query"
    /\ partition' = [partition EXCEPT ![node] = repr]
    /\ pc' = "idle"
    /\ UNCHANGED <<size, node, repr, repr1, other, recorded>>

ReturnFirst ==
    /\ Arrived
    /\ pc = "first"
    /\ partition' = [partition EXCEPT ![node] = repr]
    /\ repr1' = repr
    /\ pc' = "second"
    /\ node' = other
    /\ repr' = other
    /\ UNCHANGED <<size, other, recorded>>

\* Faulty forms, for the mutants: sizes are not added; one node is counted for
\* the whole class; the argument is not compressed.
MergePointers(child, root) ==
    /\ partition' = [partition EXCEPT ![node] = repr, ![child] = root]
    /\ UNCHANGED size
MergeCountingOne(child, root) ==
    /\ partition' = [partition EXCEPT ![node] = repr, ![child] = root]
    /\ size' = [size EXCEPT ![root] = @ + 1]
MergeUncompressed(child, root) ==
    /\ partition' = [partition EXCEPT ![child] = root]
    /\ size' = [size EXCEPT ![root] = @ + size[child]]

\* Both roots are known: attach one to the other, or neither.
Merge(child, root) ==
    /\ partition' = [partition EXCEPT ![node] = repr, ![child] = root]
    /\ size' = [size EXCEPT ![root] = @ + size[child]]

ReturnSecond ==
    /\ Arrived
    /\ pc = "second"
    /\ \/ size[repr1] < size[repr] /\ Merge(repr, repr1)
       \/ size[repr1] >= size[repr] /\ repr > repr1 /\ Merge(repr1, repr)
       \/ /\ size[repr1] >= size[repr] /\ repr <= repr1
          /\ partition' = [partition EXCEPT ![node] = repr]
          /\ UNCHANGED size
    /\ pc' = "idle"
    /\ UNCHANGED <<node, repr, repr1, other, recorded>>

Next == \/ clear
        \/ \E v \in Nodes : get_representative(v)
        \/ \E v1, v2 \in Nodes : union_orbits(v1, v2)
        \/ Walk
        \/ ReturnQuery
        \/ ReturnFirst
        \/ ReturnSecond

Spec == Init /\ [][Next]_vars

\* A call that was entered is executed: the code is sequential.
FairSpec == /\ Spec
            /\ WF_vars(Walk)
            /\ WF_vars(ReturnQuery)
            /\ WF_vars(ReturnFirst)
            /\ WF_vars(ReturnSecond)

-----------------------------------------------------------------------------
TypeOK == /\ partition \in [Nodes -> Nodes]
          /\ size \in [Nodes -> Nat]
          /\ pc \in {"idle", "query", "first", "second"}
          /\ node \in Nodes /\ repr \in Nodes /\ repr1 \in Nodes /\ other \in Nodes
          /\ recorded \subseteq Nodes \X Nodes

(***************************************************************************)
(* Along every parent pointer the class size grows, although union_orbits  *)
(* hangs the larger class below the smaller one (orbits.hpp:53-55) and the *)
(* sizes of former roots go stale: hence the pointers form no cycle and    *)
(* the loop of get_representative (orbits.hpp:31) ends.                    *)
(***************************************************************************)
SizesGrow ==
    \A v \in Nodes : partition[v] # v => size[v] < size[partition[v]]

(***************************************************************************)
(* Only nodes that recorded automorphisms relate are ever in one class, at *)
(* every step of every call: pruning by the classes loses no orbit.        *)
(***************************************************************************)
PointersRecorded ==
    \A v \in Nodes : <<v, partition[v]>> \in recorded

(***************************************************************************)
(* Once a node has ceased to represent its class it does not represent one *)
(* again until clear(): the search, which passes each vertex once, may     *)
(* skip it for good.                                                       *)
(***************************************************************************)
NoReturningRoot ==
    [][\/ clear
       \/ \A v \in Nodes : partition[v] # v => partition'[v] # v]_vars

\* Where following the pointers from v ends.
Root(v) == LET walk[i \in 0 .. N] == IF i = 0 THEN v ELSE partition[walk[i-1]]
           IN  walk[N]

(***************************************************************************)
(* The size at a root is the number of nodes in its class: orbit_size, a   *)
(* factor of the group size, is exact whatever was merged or skipped.      *)
(***************************************************************************)
RootSizesExact ==
    \A r \in Nodes :
        partition[r] = r => size[r] = Cardinality({v \in Nodes : Root(v) = r})

(***************************************************************************)
(* Every call returns.                                                     *)
(***************************************************************************)
CallsReturn == pc # "idle" ~> pc = "idle"
=============================================================================
