-------------------------- MODULE OrbitRefinement --------------------------
EXTENDS OrbitSteps

(***************************************************************************)
(* The steps implement the atomic calls: a search compresses when it       *)
(* returns, and the step in which union_orbits returns is the whole call   *)
(* (its first search has compressed before, as a query would).             *)
(***************************************************************************)
Calls == INSTANCE OrbitCalls WITH orbits <- [partition |-> partition, size |-> size]

ImplementsCalls == Calls!Spec

(***************************************************************************)
(* Each return is the call of its own arguments: a finished search has     *)
(* compressed its argument and nothing else, and the last step of          *)
(* union_orbits is the union of the two classes found, although the second *)
(* search has changed pointers since the first.                            *)
(***************************************************************************)
ReturnsItsCall ==
    [][/\ ReturnQuery \/ ReturnFirst => Calls!get_representative(node)
       /\ ReturnSecond => Calls!union_orbits(repr1, node)]_vars
=============================================================================
