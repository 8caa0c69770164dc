------------------------------- MODULE Orbits -------------------------------
(***************************************************************************)
(* The orbit partition of a leaf (orbits.hpp) as pure operators, one per   *)
(* call: a forest of parent pointers with the size of each class kept at   *)
(* its root.  OrbitSteps.tla takes the same calls apart into the steps of  *)
(* their loops.                                                            *)
(***************************************************************************)
EXTENDS Coloring

Orbits == [partition : [Nodes -> Nodes], size : [Nodes -> Nat]]

\* clear(): every node is the root of its own class.
ClearOrbits == [partition |-> [v \in Nodes |-> v], size |-> [v \in Nodes |-> 1]]

\* The root of v: N pointer steps reach it, as paths of a forest are shorter.
Representative(o, v) ==
    LET walk[i \in 0 .. N] == IF i = 0 THEN v ELSE o.partition[walk[i-1]]
    IN  walk[N]

\* What get_representative(v) leaves behind: only v itself is compressed.
Compress(o, v) == [o EXCEPT !.partition[v] = Representative(o, v)]

IsRepresentative(o, v) == v = Representative(o, v)

\* A faulty form, for the mutants: the size kept at v itself.
OrbitSizeAtNode(o, v) == o.size[v]

OrbitSize(o, v) == o.size[Representative(o, v)]

\* Class `child' becomes part of the class with root `root'.
Attach(o, child, root) ==
    [o EXCEPT !.partition[child] = root, !.size[root] = @ + o.size[child]]

\* Equal sizes, or a larger first class, merge only towards the larger node.
UnionOrbits(o, v1, v2) ==
    LET repr1 == Representative(o, v1)
        repr2 == Representative(o, v2)
        found == Compress(Compress(o, v1), v2)
    IN  CASE o.size[repr1] < o.size[repr2] -> Attach(found, repr2, repr1)
          [] o.size[repr1] >= o.size[repr2] /\ repr2 > repr1
                -> Attach(found, repr1, repr2)
          [] OTHER -> found

\* record_isomorphic_colorings on the labels of two leaves.
RecordIsomorphicColorings(o, label1, label2) ==
    LET after[i \in 0 .. N] ==
            IF i = 0 THEN o
            ELSE IF label1[i-1] = label2[i-1] THEN after[i-1]
            ELSE UnionOrbits(after[i-1], label1[i-1], label2[i-1])
    IN  after[N]
=============================================================================
