----------------------------- MODULE GraphCalls -----------------------------
(***************************************************************************)
(* What an adjacency matrix promises: a set of edges.  Calls return        *)
(* whether the edge was there, or how many edges the range has changed.    *)
(***************************************************************************)
EXTENDS Integers, FiniteSets

CONSTANT N

VARIABLES present, returned

Nodes == 0 .. N-1

\* The names of the nodes may be exchanged.
NewNames == {p \in [Nodes -> Nodes] : \A u, v \in Nodes : p[u] = p[v] => u = v}

Pairs == {e \in SUBSET Nodes : Cardinality(e) = 2}

Init == present = {} /\ returned = 0

add_edge(e) == /\ present' = present \cup {e}
               /\ returned' = IF e \in present THEN 1 ELSE 0

remove_edge(e) == /\ present' = present \ {e}
                  /\ returned' = IF e \in present THEN 1 ELSE 0

add_edges(E) == /\ present' = present \cup E
                /\ returned' = Cardinality(E \ present)

remove_edges(E) == /\ present' = present \ E
                   /\ returned' = Cardinality(E \cap present)

permuted(p) == /\ present' = {{p[u] : u \in e} : e \in present}
               /\ returned' = 0

Next == \/ \E e \in Pairs : add_edge(e)
        \/ \E e \in Pairs : remove_edge(e)
        \/ \E E \in SUBSET Pairs : add_edges(E)
        \/ \E E \in SUBSET Pairs : remove_edges(E)
        \/ \E p \in NewNames : permuted(p)

Spec == Init /\ [][Next]_<<present, returned>>
=============================================================================
