--------------------------- MODULE ColoringProofs ---------------------------
(***************************************************************************)
(* For every number of nodes: set_color and individualize keep the labels  *)
(* an enumeration of the nodes.  The invariant is EnumerationKept with the *)
(* other half of a bijection, that every node has a label; it is what the  *)
(* searches for a label and for the end of a class rest on.                *)
(***************************************************************************)
EXTENDS ColoringApi, RefineLemmas, TLAPS

Inv == Enumerates(coloring)

-----------------------------------------------------------------------------
LEMMA Invariance == Spec => []Inv
<1>1. Init => Inv
  BY InitEnumerates DEF Init, Inv
<1>2. Inv /\ [Next]_coloring => Inv'
  BY SetColorEnumerates, IndividualizeEnumerates DEF Next, set_color, individualize, Inv
<1> QED BY <1>1, <1>2, PTL DEF Spec

(***************************************************************************)
(* Whatever the calls, colors stay below num_nodes() and labels() an       *)
(* enumeration of the nodes (coloring.hpp:46-54, 116-174).                 *)
(***************************************************************************)
THEOREM LabelsEnumerate == Spec => []EnumerationKept
<1>1. Inv => EnumerationKept
  BY DEF Inv, Enumerates, EnumerationKept, TypeOK
<1> QED BY <1>1, Invariance, PTL

(***************************************************************************)
(* set_color on labels in color order leaves them in color order           *)
(* (coloring.hpp:130-140).                                                 *)
(***************************************************************************)
THEOREM SetColorSlidesRight == Spec => SetColorKeepsOrder
<1>1. Inv /\ [Next]_coloring =>
         [\A u, c \in Nodes :
             /\ LabelsSorted(coloring)
             /\ set_color(u, c)
             => LabelsSorted(coloring')]_coloring
  BY SetColorSorted, EnumeratedIsLabelled, NAssumption DEF Inv, set_color, Nodes
<1> QED BY <1>1, Invariance, PTL DEF Spec, SetColorKeepsOrder

(***************************************************************************)
(* Also for colors above the nodes, which devtool may read from a file     *)
(* (devtool.cpp:65-70): a new coloring has color 0 everywhere, set_color   *)
(* gives its node the color and keeps the others', labels still enumerate  *)
(* the nodes, and in color order if they were (coloring.hpp:116-145).      *)
(***************************************************************************)
THEOREM ColoringKeepsColors ==
    /\ Labelled(NewColoring)
    /\ NewColoring.color = [u \in Nodes |-> 0]
    /\ \A k : Labelled(k) => \A u \in Nodes : \A c \in Nat :
          /\ Labelled(SetColor(k, u, c))
          /\ SetColor(k, u, c).color = [k.color EXCEPT ![u] = c]
          /\ LabelsSorted(k) => LabelsSorted(SetColor(k, u, c))
<1>1. Labelled(NewColoring)
  BY InitEnumerates, EnumeratedIsLabelled
<1>2. NewColoring.color = [u \in Nodes |-> 0]
  BY DEF NewColoring
<1> QED BY <1>1, <1>2, SetColorLabels, SetColorSorted

-----------------------------------------------------------------------------
\* A class of one node stays as it is.
LEMMA AloneStays ==
    ASSUME NEW k, WellFormed(k), NEW u \in Nodes, Alone(k, u)
    PROVE  Individualize(k, u).color = k.color
<1> DEFINE c == k.color[u]
           last == EndOfColor(k, c)
<1>0. /\ Enumerates(k) /\ k.color \in [Nodes -> Nodes]
      /\ \A p, q \in Positions : k.label[p] = k.label[q] => p = q
  BY DEF WellFormed, Enumerates, Colorings, LabelsPermutation
<1>1. last \in Positions /\ ColorAtLabel(k, last) = c
  BY <1>0, EndOfColorFound
<1>2. c \in Positions /\ ColorAtLabel(k, c) = c
  <2>1. c \in 0 .. last /\ ColorAtLabel(k, c) = c
    BY <1>1, ColorsAreStarts
  <2>2. c \in Nodes
    BY <1>0
  <2> QED BY <2>1, <2>2 DEF Nodes, Positions
<1>3. k.label[last] = u /\ k.label[c] = u
  <2>1. k.label[last] \in Nodes /\ k.label[c] \in Nodes
    BY <1>0, <1>1, <1>2, ColorsAreNodes
  <2> QED BY <1>1, <1>2, <2>1 DEF Alone, ColorAtLabel
<1>4. last = c
  BY <1>0, <1>1, <1>2, <1>3
<1>5. Individualize(k, u).color = [k.color EXCEPT ![u] = last]
  BY DEF Individualize
<1> HIDE DEF last
<1> QED BY <1>0, <1>4, <1>5

\* Only the class of u is split.
LEMMA ClassesSplit ==
    ASSUME NEW k, WellFormed(k), NEW u \in Nodes
    PROVE  Classes(Individualize(k, u))
             = (Classes(k) \ {ClassOf(k, u)}) \cup ({ClassOf(k, u) \ {u}, {u}} \ {{}})
<1> DEFINE m == Individualize(k, u)
           own == ClassOf(k, u)
           rest == own \ {u}
<1>0. u \in own /\ k.color \in [Nodes -> Nodes]
  BY DEF ClassOf, WellFormed, Enumerates, Colorings
<1>1. CASE Alone(k, u)
  <2>1. m.color = k.color
    BY <1>1, AloneStays
  <2>2. Classes(m) = Classes(k)
    BY <2>1 DEF Classes, ClassOf
  <2>3. own = {u} /\ rest = {}
    BY <1>0, <1>1 DEF Alone, ClassOf
  <2>4. own \in Classes(k)
    BY DEF Classes
  <2> HIDE DEF own
  <2>5. {rest, {u}} \ {{}} = {own}
    BY <2>3
  <2>6. Classes(k) = (Classes(k) \ {own}) \cup {own}
    BY <2>4
  <2>7. Classes(m) = (Classes(k) \ {own}) \cup ({rest, {u}} \ {{}})
    BY <2>2, <2>5, <2>6
  <2> QED BY <2>7 DEF own
<1>2. CASE ~Alone(k, u)
  <2>1. /\ Alone(m, u)
        /\ m.color = [k.color EXCEPT ![u] = EndOfColor(k, k.color[u])]
    BY <1>2, IndividualizedApart
  <2>2. \A v \in Nodes \ {u} : m.color[v] = k.color[v] /\ m.color[v] # m.color[u]
    BY <1>0, <2>1 DEF Alone
  <2> HIDE DEF m
  <2>3. ClassOf(m, u) = {u}
    BY <2>2 DEF ClassOf
  <2>4. ASSUME NEW v \in Nodes \ {u}
        PROVE  ClassOf(m, v) = IF v \in own THEN rest ELSE ClassOf(k, v)
    <3>1. ClassOf(m, v) = ClassOf(k, v) \ {u}
      BY <2>2 DEF ClassOf
    <3>2. v \in own => ClassOf(k, v) = own
      BY DEF ClassOf
    <3>3. v \notin own => u \notin ClassOf(k, v)
      BY DEF ClassOf
    <3> QED BY <3>1, <3>2, <3>3
  <2>5. PICK w \in Nodes \ {u} : w \in own
    BY <1>2 DEF Alone, ClassOf
  <2>6. rest # {} /\ {rest, {u}} \ {{}} = {rest, {u}}
    BY <2>5
  <2>7. ASSUME NEW v \in Nodes
        PROVE  (ClassOf(k, v) = own) <=> v \in own
    BY DEF ClassOf
  <2> HIDE DEF own, rest
  <2>8. ASSUME NEW C \in Classes(m)
        PROVE  C \in (Classes(k) \ {own}) \cup {rest, {u}}
    <3>1. PICK v \in Nodes : C = ClassOf(m, v)
      BY DEF Classes
    <3>2. CASE v = u
      BY <2>3, <3>1, <3>2
    <3>3. CASE v # u /\ v \in own
      BY <2>4, <3>1, <3>3
    <3>4. CASE v # u /\ v \notin own
      <4>1. C = ClassOf(k, v) /\ C # own
        BY <2>4, <2>7, <3>1, <3>4
      <4> QED BY <4>1 DEF Classes
    <3> QED BY <3>2, <3>3, <3>4
  <2>9. ASSUME NEW C \in (Classes(k) \ {own}) \cup {rest, {u}}
        PROVE  C \in Classes(m)
    <3>1. CASE C = {u}
      BY <2>3, <3>1 DEF Classes
    <3>2. CASE C = rest
      <4>1. ClassOf(m, w) = C
        BY <2>4, <2>5, <3>2
      <4> QED BY <4>1 DEF Classes
    <3>3. CASE C \in Classes(k) /\ C # own
      <4>1. PICK v \in Nodes : C = ClassOf(k, v)
        BY <3>3 DEF Classes
      <4>2. v \notin own /\ v # u
        BY <1>0, <2>7, <3>3, <4>1
      <4>3. C = ClassOf(m, v)
        BY <2>4, <4>1, <4>2
      <4> QED BY <4>3 DEF Classes
    <3> QED BY <3>1, <3>2, <3>3
  <2> QED BY <2>6, <2>8, <2>9 DEF m, own, rest
<1> QED BY <1>1, <1>2

LEMMA SplitOffLast ==
    ASSUME NEW k, WellFormed(k), NEW u \in Nodes, NEW v \in ClassOf(k, u) \ {u}
    PROVE  Individualize(k, u).color[v] < Individualize(k, u).color[u]
<1>1. k.color \in [Nodes -> Nodes]
  BY DEF WellFormed, Enumerates, Colorings
<1>2. v \in Nodes /\ v # u /\ k.color[v] = k.color[u] /\ ~Alone(k, u)
  BY DEF ClassOf, Alone
<1> DEFINE last == EndOfColor(k, k.color[u])
           h == Individualize(k, u).color
<1>3. h = [k.color EXCEPT ![u] = last] /\ k.color[u] < last
  BY <1>2, IndividualizedApart
<1> HIDE DEF last, h
<1>4. h[u] = last /\ h[v] = k.color[v]
  BY <1>1, <1>2, <1>3
<1>5. h[v] < h[u]
  BY <1>2, <1>3, <1>4
<1> QED BY <1>5 DEF h

(***************************************************************************)
(* On a coloring with the documented classes, individualize splits the     *)
(* node off its class, behind the rest of it, leaves every other class     *)
(* alone and keeps what is_consistent asks (coloring.hpp:161-173).         *)
(***************************************************************************)
THEOREM IndividualizeSplitsOff == Spec => IndividualizeSplits
<1>1. ASSUME Inv, NEW u \in Nodes, ClassStarts(coloring), individualize(u)
      PROVE  /\ ClassStarts(coloring')
             /\ IsConsistent(coloring')
             /\ Classes(coloring')
                  = (Classes(coloring) \ {ClassOf(coloring, u)})
                      \cup ({ClassOf(coloring, u) \ {u}, {u}} \ {{}})
             /\ \A v \in ClassOf(coloring, u) \ {u} :
                   coloring'.color[v] < coloring'.color[u]
  <2> DEFINE k == coloring
             m == Individualize(coloring, u)
  <2>1. WellFormed(k)
    BY <1>1 DEF Inv, WellFormed
  <2>2. coloring' = m
    BY <1>1 DEF individualize
  <2> HIDE DEF k
  <2>3. WellFormed(Individualize(k, u))
    BY <2>1, IndividualizeWellFormed
  <2>4. ClassStarts(m) /\ IsConsistent(m)
    BY <2>3, WellFormedConsistent DEF WellFormed, k
  <2>5. Classes(m) = (Classes(coloring) \ {ClassOf(coloring, u)})
                        \cup ({ClassOf(coloring, u) \ {u}, {u}} \ {{}})
    BY <2>1, ClassesSplit DEF k
  <2>6. \A v \in ClassOf(coloring, u) \ {u} : m.color[v] < m.color[u]
    BY <2>1, SplitOffLast DEF k
  <2> HIDE DEF m
  <2> QED BY <2>2, <2>4, <2>5, <2>6
<1>2. Inv /\ [Next]_coloring =>
         [\A u \in Nodes :
             /\ ClassStarts(coloring)
             /\ individualize(u)
             => /\ ClassStarts(coloring')
                /\ IsConsistent(coloring')
                /\ Classes(coloring')
                     = (Classes(coloring) \ {ClassOf(coloring, u)})
                         \cup ({ClassOf(coloring, u) \ {u}, {u}} \ {{}})
                /\ \A v \in ClassOf(coloring, u) \ {u} :
                      coloring'.color[v] < coloring'.color[u]]_coloring
  BY <1>1
<1> QED BY <1>2, Invariance, PTL DEF Spec, IndividualizeSplits
=============================================================================
