----------------------------- MODULE OrbitCalls -----------------------------
(***************************************************************************)
(* An Orbits object under its calls, each atomic: what the solver sees.    *)
(***************************************************************************)
EXTENDS Orbits

VARIABLE orbits

Init == orbits = ClearOrbits

\* is_representative(v) and orbit_size(v) leave the same trace.
get_representative(v) == orbits' = Compress(orbits, v)

union_orbits(v1, v2) == orbits' = UnionOrbits(orbits, v1, v2)

clear == orbits' = ClearOrbits

Next == \/ \E v \in Nodes : get_representative(v)
        \/ \E v1, v2 \in Nodes : union_orbits(v1, v2)
        \/ clear

Spec == Init /\ [][Next]_orbits
=============================================================================
