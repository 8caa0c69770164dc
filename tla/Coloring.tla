------------------------------ MODULE Coloring ------------------------------
(***************************************************************************)
(* Vertex colorings (coloring.hpp) as pure operators.                      *)
(*                                                                         *)
(* A coloring holds two buffers of N entries: color[u] is the color of     *)
(* node u, label[p] the node at position p of the enumeration of the nodes *)
(* in nondecreasing color order.  Positions, nodes and colors all range    *)
(* over 0 .. N-1.                                                          *)
(***************************************************************************)
EXTENDS Integers, FiniteSets, FiniteSetsExt, SequencesExt

CONSTANT N              \* num_nodes(); the storage has room for it

ASSUME NAssumption == N \in Nat \ {0}

Nodes == 0 .. N-1
Positions == 0 .. N-1

Colorings == [color : [Nodes -> Nodes], label : [Positions -> Nodes]]

\* The constructor: every node has color 0, labels in node order.
NewColoring == [color |-> [u \in Nodes |-> 0], label |-> [p \in Positions |-> p]]

ColorAtLabel(k, p) == k.color[k.label[p]]

\* label_position: the first position that holds u.
LabelPosition(k, u) ==
    CHOOSE p \in Positions : /\ k.label[p] = u
                             /\ \A q \in 0 .. p-1 : k.label[q] # u

-----------------------------------------------------------------------------
(***************************************************************************)
(* set_color                                                               *)
(***************************************************************************)

\* A faulty form, for the mutants: the passed entries stay.
MoveLabelOverwriting(label, from, to) == (to :> label[from]) @@ label

\* The entry at `from' moves to `to'; the entries passed over make room.
MoveLabel(label, from, to) ==
    [p \in Positions |-> CASE p = to            -> label[from]
                           [] p \in to+1 .. from -> label[p-1]
                           [] p \in from .. to-1 -> label[p+1]
                           [] OTHER              -> label[p]]

\* A faulty form, for the mutants: position 0 is never reached.
SlideDownToOne(k, pos, c) ==
    CHOOSE p \in Min({1, pos}) .. pos :
        /\ \A q \in p .. pos-1 : ColorAtLabel(k, q) >= c
        /\ p > 1 => ColorAtLabel(k, p-1) < c

\* Where the scan to the left stops: past every neighbour of color >= c.
SlideDown(k, pos, c) ==
    CHOOSE p \in 0 .. pos :
        /\ \A q \in p .. pos-1 : ColorAtLabel(k, q) >= c
        /\ p > 0 => ColorAtLabel(k, p-1) < c

\* Where the scan to the right stops: past every neighbour of color <= c.
SlideUp(k, pos, c) ==
    CHOOSE p \in pos .. N-1 :
        /\ \A q \in pos+1 .. p : ColorAtLabel(k, q) <= c
        /\ p < N-1 => ColorAtLabel(k, p+1) > c

SetColor(k, u, c) ==
    LET prev == k.color[u]
        pos  == LabelPosition(k, u)
        to   == IF c < prev THEN SlideDown(k, pos, c) ELSE SlideUp(k, pos, c)
    IN  IF c = prev
        THEN k
        ELSE [color |-> [k.color EXCEPT ![u] = c],
              label |-> MoveLabel(k.label, pos, to)]

\* A run of set_color calls, one per <<node, color>> of the sequence.
SetColors(k, calls) ==
    LET after[i \in 0 .. Len(calls)] ==
            IF i = 0 THEN k ELSE SetColor(after[i-1], calls[i][1], calls[i][2])
    IN  after[Len(calls)]

-----------------------------------------------------------------------------
(***************************************************************************)
(* individualize                                                           *)
(***************************************************************************)

\* The last position whose node has color c.
EndOfColor(k, c) ==
    CHOOSE p \in Positions : /\ ColorAtLabel(k, p) = c
                             /\ \A q \in p+1 .. N-1 : ColorAtLabel(k, q) # c

\* A faulty form, for the mutants: labels stay.
IndividualizeInPlace(k, u) == [k EXCEPT !.color[u] = EndOfColor(k, k.color[u])]

\* u swaps places with the last node of its class and takes that position as
\* its color.
Individualize(k, u) ==
    LET last == EndOfColor(k, k.color[u])
        own  == LabelPosition(k, u)
    IN  [color |-> [k.color EXCEPT ![u] = last],
         label |-> [k.label EXCEPT ![own] = k.label[last], ![last] = u]]

-----------------------------------------------------------------------------
(***************************************************************************)
(* is_consistent, and the selector of selector.hpp                         *)
(***************************************************************************)

\* The duplicate check is the code's heuristic: only the sum of the labels.
IsConsistent(k) ==
    /\ \A u \in Nodes : k.color[u] < N
    /\ \A p \in Positions : k.label[p] < N
    /\ MapThenSumSet(LAMBDA p : k.label[p], Positions) = (N * (N-1)) \div 2
    /\ \A p \in Positions :
          LET prev == IF p = 0 THEN 0 ELSE ColorAtLabel(k, p-1)
          IN  ColorAtLabel(k, p) \in {prev, p}

\* Positions whose node shares the color of the position before.
Ties(k) == {p \in 1 .. N-1 : ColorAtLabel(k, p) = ColorAtLabel(k, p-1)}

IsDiscrete(k) == Ties(k) = {}

\* select_first on a coloring that is not discrete.
SelectFirst(k) == ColorAtLabel(k, Min(Ties(k)))

-----------------------------------------------------------------------------
(***************************************************************************)
(* What the class documentation says of a coloring.                        *)
(***************************************************************************)
LabelsPermutation(k) == \A p, q \in Positions : k.label[p] = k.label[q] => p = q

LabelsSorted(k) ==
    \A p \in 1 .. N-1 : ColorAtLabel(k, p-1) <= ColorAtLabel(k, p)

\* The class documentation: the first label has color 0, every other label
\* has the color of its predecessor or its own position as color.
ClassStarts(k) ==
    /\ ColorAtLabel(k, 0) = 0
    /\ \A p \in 1 .. N-1 : ColorAtLabel(k, p) \in {ColorAtLabel(k, p-1), p}
=============================================================================
