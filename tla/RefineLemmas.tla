---------------------------- MODULE RefineLemmas ----------------------------
(***************************************************************************)
(* What the calls of a coloring (coloring.hpp) leave, and what the         *)
(* refinements compute with them: the reference (refine/naive.hpp) and the *)
(* vectorised ones (refine/avx512intrin8.inc, avx512intrin16.inc), which   *)
(* rest on the sorting networks and on one argument about rounds that sort *)
(* lanes by keys.                                                          *)
(*                                                                         *)
(* Colorings whose labels enumerate the nodes, and those that also are     *)
(* what the class documentation says.                                      *)
(***************************************************************************)
EXTENDS Avx512, Renaming, InductionLemmas, SequenceTheorems

Enumerates(k) ==
    /\ k \in Colorings
    /\ LabelsPermutation(k)
    /\ \A u \in Nodes : \E p \in Positions : k.label[p] = u

\* The same with any numbers as colors, as devtool may pass them.
Labelled(k) ==
    /\ k \in [color : [Nodes -> Nat], label : [Positions -> Nodes]]
    /\ LabelsPermutation(k)
    /\ \A u \in Nodes : \E p \in Positions : k.label[p] = u

LEMMA EnumeratedIsLabelled ==
    ASSUME NEW k
    PROVE  Enumerates(k) <=> Labelled(k) /\ k.color \in [Nodes -> Nodes]
BY NAssumption DEF Enumerates, Labelled, Colorings, Nodes

\* label_position finds the node (coloring.hpp:46-54).
LEMMA LabelFound ==
    ASSUME NEW k, Labelled(k), NEW u \in Nodes
    PROVE  LabelPosition(k, u) \in Positions /\ k.label[LabelPosition(k, u)] = u
<1> DEFINE S == {p \in Positions : k.label[p] = u}
<1>1. S \subseteq Nat /\ S # {}
  <2>1. PICK p \in Positions : k.label[p] = u
    BY DEF Labelled
  <2> QED BY <2>1, NAssumption DEF Positions
<1>2. PICK p \in S : \A q \in S : p <= q
  <2> HIDE DEF S
  <2> QED BY <1>1, HasLeast
<1>3. \A q \in 0 .. p-1 : k.label[q] # u
  BY <1>2, NAssumption DEF Positions
<1> QED BY <1>2, <1>3 DEF LabelPosition

LEMMA LabelPositionFound ==
    ASSUME NEW k, Enumerates(k), NEW u \in Nodes
    PROVE  LabelPosition(k, u) \in Positions /\ k.label[LabelPosition(k, u)] = u
BY LabelFound, EnumeratedIsLabelled

LEMMA ColorsAreNumbers ==
    ASSUME NEW k, Labelled(k), NEW p \in Positions
    PROVE  k.label[p] \in Nodes /\ ColorAtLabel(k, p) \in Nat
BY DEF Labelled, ColorAtLabel

LEMMA ColorsAreNodes ==
    ASSUME NEW k, Enumerates(k), NEW p \in Positions
    PROVE  k.label[p] \in Nodes /\ ColorAtLabel(k, p) \in Nodes
BY DEF Enumerates, Colorings, ColorAtLabel

-----------------------------------------------------------------------------
\* Both slides stop within the labels (coloring.hpp:130-140).
LEMMA SlideDownStops ==
    ASSUME NEW k, Labelled(k), NEW pos \in Positions, NEW c \in Nat
    PROVE  /\ SlideDown(k, pos, c) \in 0 .. pos
           /\ \A q \in SlideDown(k, pos, c) .. pos-1 : ColorAtLabel(k, q) >= c
           /\ SlideDown(k, pos, c) > 0 => ColorAtLabel(k, SlideDown(k, pos, c) - 1) < c
<1> DEFINE Passed(p) == \A q \in p .. pos-1 : ColorAtLabel(k, q) >= c
           S == {p \in 0 .. pos : Passed(p)}
<1>1. pos \in S /\ S \subseteq Nat
  BY NAssumption DEF Positions
<1>2. PICK p \in S : \A q \in S : p <= q
  <2> HIDE DEF S
  <2> QED BY <1>1, HasLeast
<1>3. ASSUME p > 0 PROVE ColorAtLabel(k, p-1) < c
  <2>1. p-1 \in 0 .. pos /\ p \in Nat /\ p-1 \in Positions
    BY <1>3, NAssumption DEF Positions
  <2>2. \A q \in p-1 .. pos-1 : q = p-1 \/ q \in p .. pos-1
    BY NAssumption, <2>1 DEF Positions
  <2>3. ~(ColorAtLabel(k, p-1) >= c)
    <3> SUFFICES ASSUME ColorAtLabel(k, p-1) >= c PROVE FALSE
      OBVIOUS
    <3>1. p-1 \in S
      BY <2>1, <2>2
    <3> QED BY <1>2, <2>1, <3>1
  <2> QED BY <2>1, <2>3, ColorsAreNumbers
<1>4. /\ p \in 0 .. pos
      /\ \A q \in p .. pos-1 : ColorAtLabel(k, q) >= c
  OBVIOUS
<1> QED BY <1>3, <1>4 DEF SlideDown

LEMMA SlideUpStops ==
    ASSUME NEW k, Labelled(k), NEW pos \in Positions, NEW c \in Nat
    PROVE  /\ SlideUp(k, pos, c) \in pos .. N-1
           /\ \A q \in pos+1 .. SlideUp(k, pos, c) : ColorAtLabel(k, q) <= c
           /\ SlideUp(k, pos, c) < N-1 => ColorAtLabel(k, SlideUp(k, pos, c) + 1) > c
<1> DEFINE Passed(p) == \A q \in pos+1 .. p : ColorAtLabel(k, q) <= c
           S == {p \in pos .. N-1 : Passed(p)}
<1>1. pos \in S /\ S \subseteq 0 .. N-1 /\ N-1 \in Nat
  BY NAssumption DEF Positions
<1>2. PICK p \in S : \A q \in S : q <= p
  <2> HIDE DEF S
  <2> QED BY <1>1, HasGreatest
<1>3. ASSUME p < N-1 PROVE ColorAtLabel(k, p+1) > c
  <2>1. p+1 \in pos .. N-1 /\ p \in Nat /\ p+1 \in Positions
    BY <1>3, NAssumption DEF Positions
  <2>2. \A q \in pos+1 .. p+1 : q = p+1 \/ q \in pos+1 .. p
    BY NAssumption, <2>1 DEF Positions
  <2>3. ~(ColorAtLabel(k, p+1) <= c)
    <3> SUFFICES ASSUME ColorAtLabel(k, p+1) <= c PROVE FALSE
      OBVIOUS
    <3>1. p+1 \in S
      BY <2>1, <2>2
    <3> QED BY <1>2, <2>1, <3>1
  <2> QED BY <2>1, <2>3, ColorsAreNumbers
<1>4. /\ p \in pos .. N-1
      /\ \A q \in pos+1 .. p : ColorAtLabel(k, q) <= c
  OBVIOUS
<1> QED BY <1>3, <1>4 DEF SlideUp

-----------------------------------------------------------------------------
(***************************************************************************)
(* What the slide and the swap do to the labels: the entry now at p was at *)
(* Source(p), and every position is the source of one.                     *)
(***************************************************************************)
Source(from, to, p) == CASE p = to             -> from
                         [] p \in to+1 .. from -> p-1
                         [] p \in from .. to-1 -> p+1
                         [] OTHER              -> p

LEMMA SourcesRotate ==
    ASSUME NEW from \in Positions, NEW to \in Positions
    PROVE  /\ \A p \in Positions : Source(from, to, p) \in Positions
           /\ \A p, q \in Positions : Source(from, to, p) = Source(from, to, q) => p = q
           /\ \A p \in Positions : \E q \in Positions : Source(from, to, q) = p
<1>1. from \in 0 .. N-1 /\ to \in 0 .. N-1 /\ N \in Nat
  BY NAssumption DEF Positions
<1>2. \A p \in Positions : Source(from, to, p) \in Positions
  BY <1>1 DEF Source, Positions
<1>3. \A p, q \in Positions : Source(from, to, p) = Source(from, to, q) => p = q
  BY <1>1 DEF Source, Positions
<1>4. \A p \in Positions : Source(from, to, Source(to, from, p)) = p
  BY <1>1 DEF Source, Positions
<1>5. \A p \in Positions : Source(to, from, p) \in Positions
  BY <1>1 DEF Source, Positions
<1> QED BY <1>2, <1>3, <1>4, <1>5

LEMMA MovedLabel ==
    ASSUME NEW label \in [Positions -> Nodes], NEW from \in Positions, NEW to \in Positions
    PROVE  MoveLabel(label, from, to) = [p \in Positions |-> label[Source(from, to, p)]]
BY NAssumption DEF MoveLabel, Source, Positions

-----------------------------------------------------------------------------
(***************************************************************************)
(* The two mutators                                                        *)
(***************************************************************************)
LEMMA InitEnumerates == Enumerates(NewColoring)
BY NAssumption DEF Enumerates, NewColoring, Colorings, LabelsPermutation, Positions, Nodes

LEMMA SetColorLabels ==
    ASSUME NEW k, Labelled(k), NEW u \in Nodes, NEW c \in Nat
    PROVE  /\ Labelled(SetColor(k, u, c))
           /\ SetColor(k, u, c).color = [k.color EXCEPT ![u] = c]
<1> DEFINE pos == LabelPosition(k, u)
           to == IF c < k.color[u] THEN SlideDown(k, pos, c) ELSE SlideUp(k, pos, c)
           moved == MoveLabel(k.label, pos, to)
<1>1. CASE c = k.color[u]
  BY <1>1 DEF SetColor, Labelled
<1>2. CASE c # k.color[u]
  <2>1. /\ k.color \in [Nodes -> Nat]
        /\ k.label \in [Positions -> Nodes]
    BY DEF Labelled
  <2>2. pos \in Positions
    BY LabelFound
  <2>3. to \in Positions
    <3> HIDE DEF pos
    <3>1. SlideDown(k, pos, c) \in 0 .. pos /\ SlideUp(k, pos, c) \in pos .. N-1
      BY <2>2, SlideDownStops, SlideUpStops
    <3> QED BY <2>2, <3>1, NAssumption DEF Positions
  <2>4. SetColor(k, u, c) = [color |-> [k.color EXCEPT ![u] = c], label |-> moved]
    BY <1>2 DEF SetColor
  <2> HIDE DEF pos, to
  <2>5. moved = [p \in Positions |-> k.label[Source(pos, to, p)]]
    BY <2>1, <2>2, <2>3, MovedLabel
  <2> HIDE DEF moved
  <2>6. /\ moved \in [Positions -> Nodes]
        /\ \A p, q \in Positions : moved[p] = moved[q] => p = q
    <3>1. \A p \in Positions : Source(pos, to, p) \in Positions
      BY <2>2, <2>3, SourcesRotate
    <3>2. \A p, q \in Positions : Source(pos, to, p) = Source(pos, to, q) => p = q
      BY <2>2, <2>3, SourcesRotate
    <3>3. \A p, q \in Positions : k.label[p] = k.label[q] => p = q
      BY DEF Labelled, LabelsPermutation
    <3>4. ASSUME NEW p \in Positions, NEW q \in Positions, moved[p] = moved[q]
          PROVE  p = q
      <4>1. k.label[Source(pos, to, p)] = k.label[Source(pos, to, q)]
        BY <2>5, <3>4
      <4> QED BY <3>1, <3>2, <3>3, <4>1
    <3> QED BY <2>1, <2>5, <3>1, <3>4
  <2>7. \A v \in Nodes : \E p \in Positions : moved[p] = v
    <3> TAKE v \in Nodes
    <3>1. PICK p \in Positions : k.label[p] = v
      BY DEF Labelled
    <3>2. PICK q \in Positions : Source(pos, to, q) = p
      BY <2>2, <2>3, SourcesRotate
    <3> QED BY <2>5, <3>1, <3>2
  <2> QED BY <2>1, <2>4, <2>6, <2>7 DEF Labelled, LabelsPermutation
<1> QED BY <1>1, <1>2

LEMMA SetColorEnumerates ==
    ASSUME NEW k, Enumerates(k), NEW u \in Nodes, NEW c \in Nodes
    PROVE  Enumerates(SetColor(k, u, c))
<1>1. Labelled(k) /\ k.color \in [Nodes -> Nodes] /\ c \in Nat
  BY EnumeratedIsLabelled, NAssumption DEF Nodes
<1>2. [k.color EXCEPT ![u] = c] \in [Nodes -> Nodes]
  BY <1>1
<1>3. Labelled(SetColor(k, u, c)) /\ SetColor(k, u, c).color = [k.color EXCEPT ![u] = c]
  BY <1>1, SetColorLabels
<1> QED BY <1>2, <1>3, EnumeratedIsLabelled

-----------------------------------------------------------------------------
(***************************************************************************)
(* The order of colors.  `col' is the colors along the labels before the   *)
(* call; behind it they are those of the sources, except at `to'.          *)
(***************************************************************************)
ColorsAlong(k) == [p \in Positions |-> ColorAtLabel(k, p)]

LEMMA SlidDownSorted ==
    ASSUME NEW col \in [Positions -> Nat], NEW c \in Nat,
           NEW pos \in Positions, NEW to \in 0 .. pos, c < col[pos],
           \A p \in 1 .. N-1 : col[p-1] <= col[p],
           \A q \in to .. pos-1 : col[q] >= c,
           to > 0 => col[to-1] < c,
           NEW p \in 1 .. N-1
    PROVE  (IF p-1 = to THEN c ELSE col[Source(pos, to, p-1)])
             <= (IF p = to THEN c ELSE col[Source(pos, to, p)])
<1>1. /\ pos \in 0 .. N-1 /\ N \in Nat /\ c \in Nat /\ to \in Nat
      /\ \A q \in 0 .. N-1 : col[q] \in Nat
  BY NAssumption DEF Positions
<1>2. CASE p < to
  BY <1>1, <1>2 DEF Source
<1>3. CASE p = to
  BY <1>1, <1>3 DEF Source
<1>4. CASE p = to+1
  BY <1>1, <1>4 DEF Source
<1>5. CASE p > to+1 /\ p <= pos
  <2>1. col[p-2] <= col[p-1]
    BY <1>1, <1>5
  <2> QED BY <1>1, <1>5, <2>1 DEF Source
<1>6. CASE p > to+1 /\ p = pos+1
  <2>1. col[pos-1] <= col[pos] /\ col[pos] <= col[pos+1]
    BY <1>1, <1>6
  <2>2. Source(pos, to, p-1) = pos-1 /\ Source(pos, to, p) = pos+1
    BY <1>1, <1>6 DEF Source
  <2> QED BY <1>1, <1>6, <2>1, <2>2
<1>7. CASE p > to+1 /\ p > pos+1
  BY <1>1, <1>7 DEF Source
<1> QED BY <1>1, <1>2, <1>3, <1>4, <1>5, <1>6, <1>7

LEMMA SlidUpSorted ==
    ASSUME NEW col \in [Positions -> Nat], NEW c \in Nat,
           NEW pos \in Positions, NEW to \in pos .. N-1, c > col[pos],
           \A p \in 1 .. N-1 : col[p-1] <= col[p],
           \A q \in pos+1 .. to : col[q] <= c,
           to < N-1 => col[to+1] > c,
           NEW p \in 1 .. N-1
    PROVE  (IF p-1 = to THEN c ELSE col[Source(pos, to, p-1)])
             <= (IF p = to THEN c ELSE col[Source(pos, to, p)])
<1>1. /\ pos \in 0 .. N-1 /\ N \in Nat /\ c \in Nat /\ to \in Nat
      /\ \A q \in 0 .. N-1 : col[q] \in Nat
  BY NAssumption DEF Positions
<1>2. CASE p < pos
  BY <1>1, <1>2 DEF Source
<1>3. CASE p = pos /\ p < to
  <2>1. col[pos-1] <= col[pos] /\ col[pos] <= col[pos+1]
    BY <1>1, <1>3
  <2>2. Source(pos, to, p-1) = pos-1 /\ Source(pos, to, p) = pos+1
    BY <1>1, <1>3 DEF Source
  <2> QED BY <1>1, <1>3, <2>1, <2>2
<1>4. CASE p > pos /\ p < to
  <2>1. col[p] <= col[p+1]
    BY <1>1, <1>4
  <2> QED BY <1>1, <1>4, <2>1 DEF Source
<1>5. CASE p = to
  <2>1. p > pos => col[p] <= c
    BY <1>1, <1>5
  <2> QED BY <1>1, <1>5, <2>1 DEF Source
<1>6. CASE p = to+1
  BY <1>1, <1>6 DEF Source
<1>7. CASE p > to+1
  BY <1>1, <1>7 DEF Source
<1> QED BY <1>1, <1>2, <1>3, <1>4, <1>5, <1>6, <1>7

LEMMA SetColorSorted ==
    ASSUME NEW k, Labelled(k), LabelsSorted(k), NEW u \in Nodes, NEW c \in Nat
    PROVE  LabelsSorted(SetColor(k, u, c))
<1> DEFINE pos == LabelPosition(k, u)
           to == IF c < k.color[u] THEN SlideDown(k, pos, c) ELSE SlideUp(k, pos, c)
           col == ColorsAlong(k)
<1>1. CASE c = k.color[u]
  BY <1>1 DEF SetColor
<1>2. CASE c # k.color[u]
  <2>1. pos \in Positions /\ k.label[pos] = u /\ col[pos] = k.color[u]
    BY LabelFound DEF ColorsAlong, ColorAtLabel
  <2>2. SetColor(k, u, c) = [color |-> [k.color EXCEPT ![u] = c],
                             label |-> MoveLabel(k.label, pos, to)]
    BY <1>2 DEF SetColor
  <2>3. /\ col \in [Positions -> Nat]
        /\ \A p \in Positions : col[p] = ColorAtLabel(k, p)
        /\ \A p \in 1 .. N-1 : col[p-1] <= col[p]
    BY ColorsAreNumbers, NAssumption DEF ColorsAlong, LabelsSorted, Positions
  <2>4. k.label \in [Positions -> Nodes] /\ k.color \in [Nodes -> Nat]
    BY DEF Labelled
  <2> HIDE DEF pos
  <2>5. SlideDown(k, pos, c) \in 0 .. pos /\ SlideUp(k, pos, c) \in pos .. N-1
    BY <2>1, SlideDownStops, SlideUpStops
  <2>6. to \in Positions
    BY <2>1, <2>5, NAssumption DEF Positions
  <2>7. \A p \in 1 .. N-1 :
           (IF p-1 = to THEN c ELSE col[Source(pos, to, p-1)])
             <= (IF p = to THEN c ELSE col[Source(pos, to, p)])
    <3> TAKE p \in 1 .. N-1
    <3>1. c \in Nat /\ k.color[u] \in Nat /\ pos \in Nat /\ N \in Nat
      BY <2>1, <2>4, NAssumption DEF Nodes, Positions
    <3>2. CASE c < k.color[u]
      <4>1. /\ to \in 0 .. pos
            /\ \A q \in to .. pos-1 : col[q] >= c
            /\ to > 0 => col[to-1] < c
        <5>1. to = SlideDown(k, pos, c) /\ to \in 0 .. pos
          BY <2>5, <3>2
        <5>2. /\ \A q \in to .. pos-1 : ColorAtLabel(k, q) >= c
              /\ to > 0 => ColorAtLabel(k, to-1) < c
          BY <2>1, <5>1, SlideDownStops
        <5> HIDE DEF to, col
        <5>3. \A q \in to-1 .. pos-1 : q >= 0 => q \in Positions
          BY <2>1, <5>1, NAssumption DEF Positions
        <5> QED BY <2>3, <3>1, <5>1, <5>2, <5>3
      <4> HIDE DEF to, col
      <4> QED BY <2>1, <2>3, <3>2, <4>1, SlidDownSorted
    <3>3. CASE c > k.color[u]
      <4>1. /\ to \in pos .. N-1
            /\ \A q \in pos+1 .. to : col[q] <= c
            /\ to < N-1 => col[to+1] > c
        <5>1. to = SlideUp(k, pos, c) /\ to \in pos .. N-1
          BY <2>5, <3>1, <3>3
        <5>2. /\ \A q \in pos+1 .. to : ColorAtLabel(k, q) <= c
              /\ to < N-1 => ColorAtLabel(k, to+1) > c
          BY <2>1, <5>1, SlideUpStops
        <5> HIDE DEF to, col
        <5>3. \A q \in pos .. N-1 : q \in Positions
          BY <2>1, NAssumption DEF Positions
        <5> QED BY <2>3, <3>1, <5>1, <5>2, <5>3
      <4> HIDE DEF to, col
      <4> QED BY <2>1, <2>3, <3>3, <4>1, SlidUpSorted
    <3> QED BY <1>2, <3>1, <3>2, <3>3
  <2> HIDE DEF to, col
  <2>8. \A p \in Positions : ColorAtLabel(SetColor(k, u, c), p)
                               = IF p = to THEN c ELSE col[Source(pos, to, p)]
    <3> TAKE p \in Positions
    <3>1. MoveLabel(k.label, pos, to)[p] = k.label[Source(pos, to, p)]
      BY <2>1, <2>4, <2>6, MovedLabel
    <3>2. Source(pos, to, p) \in Positions /\ Source(pos, to, to) = pos
      <4>1. Source(pos, to, p) \in Positions
        BY <2>1, <2>6, SourcesRotate
      <4> QED BY <2>6, <4>1, NAssumption DEF Source, Positions
    <3>3. p # to => Source(pos, to, p) # pos
      BY <2>1, <2>6, <3>2, SourcesRotate
    <3>4. p # to => k.label[Source(pos, to, p)] # u
      BY <2>1, <3>2, <3>3 DEF Labelled, LabelsPermutation
    <3> QED BY <2>1, <2>2, <2>3, <2>4, <3>1, <3>2, <3>4 DEF ColorAtLabel
  <2> QED BY <2>7, <2>8, NAssumption DEF LabelsSorted, Positions
<1> QED BY <1>1, <1>2

-----------------------------------------------------------------------------
\* individualize finds the end of the node's class.
LEMMA EndOfColorFound ==
    ASSUME NEW k, Enumerates(k), NEW u \in Nodes
    PROVE  /\ EndOfColor(k, k.color[u]) \in Positions
           /\ ColorAtLabel(k, EndOfColor(k, k.color[u])) = k.color[u]
           /\ \A q \in EndOfColor(k, k.color[u]) + 1 .. N-1 :
                 ColorAtLabel(k, q) # k.color[u]
<1> DEFINE S == {p \in Positions : ColorAtLabel(k, p) = k.color[u]}
<1>1. S \subseteq 0 .. N-1 /\ N-1 \in Nat
  BY NAssumption DEF Positions
<1>2. S # {}
  <2>1. PICK p \in Positions : k.label[p] = u
    BY DEF Enumerates
  <2> QED BY <2>1 DEF ColorAtLabel
<1>3. PICK p \in S : \A q \in S : q <= p
  <2> HIDE DEF S
  <2> QED BY <1>1, <1>2, HasGreatest
<1>4. \A q \in p+1 .. N-1 : ColorAtLabel(k, q) # k.color[u]
  <2> TAKE q \in p+1 .. N-1
  <2>1. p \in Nat /\ q \in Positions /\ ~(q <= p)
    BY NAssumption DEF Positions
  <2> QED BY <1>3, <2>1
<1> QED BY <1>3, <1>4 DEF EndOfColor

-----------------------------------------------------------------------------
\* individualize keeps the enumeration: it swaps two labels.
LEMMA IndividualizeEnumerates ==
    ASSUME NEW k, Enumerates(k), NEW u \in Nodes
    PROVE  Enumerates(Individualize(k, u))
<1> DEFINE last == EndOfColor(k, k.color[u])
           own == LabelPosition(k, u)
           swapped == [k.label EXCEPT ![own] = k.label[last], ![last] = u]
<1>1. /\ k \in Colorings
      /\ k.color \in [Nodes -> Nodes]
      /\ k.label \in [Positions -> Nodes]
  BY DEF Enumerates, Colorings
<1>2. last \in Positions /\ last \in Nodes
  BY EndOfColorFound DEF Positions, Nodes
<1>3. own \in Positions /\ k.label[own] = u
  BY LabelPositionFound
<1>4. Individualize(k, u) = [color |-> [k.color EXCEPT ![u] = last], label |-> swapped]
  BY <1>1 DEF Individualize, Colorings
<1> HIDE DEF last, own
<1>5. /\ swapped \in [Positions -> Nodes]
      /\ \A p \in Positions : swapped[p] = IF p = last THEN u
                                           ELSE IF p = own THEN k.label[last] ELSE k.label[p]
  BY <1>1, <1>2, <1>3
<1> HIDE DEF swapped
<1>6. \A p, q \in Positions : swapped[p] = swapped[q] => p = q
  BY <1>2, <1>3, <1>5 DEF Enumerates, LabelsPermutation
<1>7. \A v \in Nodes : \E p \in Positions : swapped[p] = v
  <2> TAKE v \in Nodes
  <2>1. PICK p \in Positions : k.label[p] = v
    BY DEF Enumerates
  <2>2. swapped[last] = u /\ (own # last => swapped[own] = k.label[last])
    BY <1>2, <1>3, <1>5
  <2>3. p # own /\ p # last => swapped[p] = v
    BY <1>5, <2>1
  <2> QED BY <1>2, <1>3, <2>1, <2>2, <2>3
<1> QED BY <1>1, <1>2, <1>4, <1>5, <1>6, <1>7 DEF Enumerates, LabelsPermutation, Colorings

-----------------------------------------------------------------------------
(***************************************************************************)
(* Colorings with the documented classes: what follows for the colors      *)
(* along the labels.                                                       *)
(***************************************************************************)
WellFormed(k) == Enumerates(k) /\ ClassStarts(k)

\* A color is the position at which its class starts.
LEMMA ColorsAreStarts ==
    ASSUME NEW k, WellFormed(k), NEW p \in Positions
    PROVE  /\ ColorAtLabel(k, p) \in 0 .. p
           /\ ColorAtLabel(k, ColorAtLabel(k, p)) = ColorAtLabel(k, p)
<1> DEFINE col(q) == ColorAtLabel(k, q)
           T == {q \in 0 .. N-1 : col(q) \in 0 .. q /\ col(col(q)) = col(q)}
<1>1. N-1 \in Nat /\ Positions = 0 .. N-1
  BY NAssumption DEF Positions
<1>2. col(0) = 0 /\ \A q \in 1 .. N-1 : col(q) \in {col(q-1), q}
  BY DEF WellFormed, ClassStarts
<1> HIDE DEF col
<1>3. 0 \in T
  BY <1>1, <1>2
<1>4. \A q \in 1 .. N-1 : q-1 \in T => q \in T
  BY <1>1, <1>2
<1>5. \A q \in 0 .. N-1 : q \in T
  <2> HIDE DEF T
  <2> QED BY <1>1, <1>3, <1>4, UpTo
<1> QED BY <1>1, <1>5 DEF col

\* The labels are in color order.
LEMMA ColorsAscend ==
    ASSUME NEW k, WellFormed(k), NEW p \in Positions, NEW q \in 0 .. p
    PROVE  ColorAtLabel(k, q) <= ColorAtLabel(k, p)
<1> DEFINE col(r) == ColorAtLabel(k, r)
           T == {d \in 0 .. p - q : col(q) <= col(q + d)}
<1>1. N-1 \in Nat /\ Positions = 0 .. N-1
  BY NAssumption DEF Positions
<1>2. \A r \in 1 .. N-1 : col(r) \in {col(r-1), r}
  BY DEF WellFormed, ClassStarts
<1>3. \A r \in 0 .. N-1 : col(r) \in 0 .. r
  BY <1>1, ColorsAreStarts
<1> HIDE DEF col
<1>4. 0 \in T
  BY <1>1, <1>3
<1>5. ASSUME NEW d \in 1 .. p - q, d-1 \in T PROVE d \in T
  <2>1. q + d \in 1 .. N-1 /\ (q + d) - 1 = q + (d-1)
    BY <1>1
  <2>2. col(q + d) \in {col(q + (d-1)), q + d}
    BY <1>2, <2>1
  <2>3. col(q + (d-1)) \in 0 .. (q + (d-1)) /\ col(q) \in Nat
    BY <1>1, <1>3, <2>1
  <2> QED BY <1>1, <1>5, <2>2, <2>3
<1>6. p - q \in T
  <2>1. p - q \in Nat
    BY <1>1
  <2>2. \A d \in 0 .. p - q : d \in T
    <3> HIDE DEF T
    <3> QED BY <1>4, <1>5, <2>1, UpTo
  <2> QED BY <2>1, <2>2
<1>7. q + (p - q) = p
  BY <1>1
<1> QED BY <1>6, <1>7 DEF col

\* In a discrete coloring the color of a node is its position.
LEMMA DiscretePositions ==
    ASSUME NEW k, WellFormed(k), IsDiscrete(k), NEW p \in Positions
    PROVE  ColorAtLabel(k, p) = p
<1>1. p = 0 \/ p \in 1 .. N-1
  BY NAssumption DEF Positions
<1> QED BY <1>1 DEF WellFormed, ClassStarts, IsDiscrete, Ties

\* What a refinement is given: the labels enumerate the nodes in color order.
InOrder(k) == Enumerates(k) /\ LabelsSorted(k)

LEMMA WellFormedInOrder ==
    ASSUME NEW k, WellFormed(k)
    PROVE  InOrder(k)
<1>1. ASSUME NEW p \in 1 .. N-1
      PROVE  ColorAtLabel(k, p-1) <= ColorAtLabel(k, p)
  <2>1. p \in Positions /\ p-1 \in 0 .. p
    BY NAssumption DEF Positions
  <2> QED BY <2>1, ColorsAscend
<1> QED BY <1>1 DEF InOrder, LabelsSorted, WellFormed

\* individualize puts the node at the end of its class, with that position as
\* its color: colors still are class starts.
LEMMA IndividualizeWellFormed ==
    ASSUME NEW k, WellFormed(k), NEW u \in Nodes
    PROVE  WellFormed(Individualize(k, u))
<1> DEFINE c == k.color[u]
           last == EndOfColor(k, c)
           own == LabelPosition(k, u)
           m == Individualize(k, u)
<1>0. /\ Enumerates(k)
      /\ k \in Colorings
      /\ k.color \in [Nodes -> Nodes]
      /\ k.label \in [Positions -> Nodes]
      /\ \A p, q \in Positions : k.label[p] = k.label[q] => p = q
      /\ N-1 \in Nat
      /\ Nodes = 0 .. N-1 /\ Positions = 0 .. N-1
  <2>1. k \in Colorings /\ LabelsPermutation(k) /\ Enumerates(k)
    BY DEF WellFormed, Enumerates
  <2>2. k.color \in [Nodes -> Nodes] /\ k.label \in [Positions -> Nodes]
    BY <2>1 DEF Colorings
  <2>3. N-1 \in Nat /\ Nodes = 0 .. N-1 /\ Positions = 0 .. N-1
    BY NAssumption DEF Nodes, Positions
  <2> QED BY <2>1, <2>2, <2>3 DEF LabelsPermutation
<1>1. /\ last \in Positions /\ ColorAtLabel(k, last) = c
      /\ \A q \in last+1 .. N-1 : ColorAtLabel(k, q) # c
  BY <1>0, EndOfColorFound
<1>2. own \in Positions /\ k.label[own] = u
  BY <1>0, LabelPositionFound
<1>3. /\ m.color = [k.color EXCEPT ![u] = last]
      /\ m.label = [k.label EXCEPT ![own] = k.label[last], ![last] = u]
  BY DEF Individualize
<1>4. Enumerates(m)
  BY <1>0, IndividualizeEnumerates
<1>5. c = ColorAtLabel(k, own) /\ ColorAtLabel(k, last) = k.color[k.label[last]]
  BY <1>2 DEF ColorAtLabel
<1> HIDE DEF last, own, m, c
<1>6. \A p \in Positions : m.label[p] = IF p = last THEN u
                                       ELSE IF p = own THEN k.label[last] ELSE k.label[p]
  BY <1>0, <1>1, <1>2, <1>3
<1>7. \A v \in Nodes : m.color[v] = IF v = u THEN last ELSE k.color[v]
  BY <1>0, <1>3
<1>8. ASSUME NEW p \in Positions
      PROVE  ColorAtLabel(m, p) = IF p = last THEN last ELSE ColorAtLabel(k, p)
  <2>1. CASE p = last
    BY <1>6, <1>7, <2>1 DEF ColorAtLabel
  <2>2. CASE p # last /\ p = own
    <3>1. m.label[p] = k.label[last] /\ k.label[last] \in Nodes /\ k.label[last] # u
      BY <1>0, <1>1, <1>2, <1>6, <2>2
    <3> QED BY <1>1, <1>5, <1>7, <2>2, <3>1 DEF ColorAtLabel
  <2>3. CASE p # last /\ p # own
    <3>1. m.label[p] = k.label[p] /\ k.label[p] \in Nodes /\ k.label[p] # u
      BY <1>0, <1>2, <1>6, <2>3
    <3> QED BY <1>7, <2>3, <3>1 DEF ColorAtLabel
  <2> QED BY <2>1, <2>2, <2>3
<1>9. ASSUME NEW p \in 1 .. N-1
      PROVE  ColorAtLabel(m, p) \in {ColorAtLabel(m, p-1), p}
  <2>1. p \in Positions /\ p-1 \in Positions
    BY <1>0
  <2>2. ColorAtLabel(k, p) \in {ColorAtLabel(k, p-1), p}
    BY DEF WellFormed, ClassStarts
  <2>3. p-1 = last => ColorAtLabel(k, p) # c
    <3>1. p-1 = last => p \in last+1 .. N-1
      BY <1>0, <1>1
    <3> QED BY <1>1, <3>1
  <2>4. ColorAtLabel(m, p-1) = (IF p-1 = last THEN last ELSE ColorAtLabel(k, p-1))
        /\ ColorAtLabel(m, p) = (IF p = last THEN last ELSE ColorAtLabel(k, p))
    BY <1>8, <2>1
  <2>5. p-1 = last => ColorAtLabel(k, p-1) = c
    BY <1>1
  <2> QED BY <2>2, <2>3, <2>4, <2>5
<1>10. ColorAtLabel(m, 0) = 0
  <2>1. 0 \in Positions /\ ColorAtLabel(k, 0) = 0
    BY <1>0 DEF WellFormed, ClassStarts
  <2> QED BY <1>8, <2>1
<1> QED BY <1>4, <1>9, <1>10 DEF WellFormed, ClassStarts, m

LEMMA IndividualizeInOrder ==
    ASSUME NEW k, WellFormed(k), NEW u \in Nodes
    PROVE  InOrder(Individualize(k, u))
BY IndividualizeWellFormed, WellFormedInOrder

\* The selected class has two nodes at least.
LEMMA SelectedTwice ==
    ASSUME NEW k, Enumerates(k), ~IsDiscrete(k)
    PROVE  \E u, v \in Nodes : /\ u # v
                               /\ k.color[u] = SelectFirst(k)
                               /\ k.color[v] = SelectFirst(k)
<1>1. Ties(k) \subseteq Nat /\ Ties(k) # {}
  BY NAssumption DEF Ties, IsDiscrete
<1>2. PICK t \in Ties(k) : \A y \in Ties(k) : t <= y
  BY <1>1, HasLeast
<1>3. Min(Ties(k)) \in Ties(k)
  BY <1>2 DEF Min
<1> DEFINE m == Min(Ties(k))
<1>4. /\ m \in 1 .. N-1
      /\ ColorAtLabel(k, m) = ColorAtLabel(k, m-1)
  BY <1>3 DEF Ties
<1>5. SelectFirst(k) = ColorAtLabel(k, m)
  BY DEF SelectFirst
<1> HIDE DEF m
<1>6. m \in Positions /\ m-1 \in Positions /\ m # m-1
  BY <1>4, NAssumption DEF Positions
<1>7. k.label[m] \in Nodes /\ k.label[m-1] \in Nodes /\ k.label[m] # k.label[m-1]
  BY <1>6, ColorsAreNodes DEF Enumerates, LabelsPermutation
<1> QED BY <1>4, <1>5, <1>7 DEF ColorAtLabel

\* Colors can be compared.
LEMMA ColorsAreInts ==
    ASSUME NEW k \in Colorings
    PROVE  k.color \in [Nodes -> Int]
<1>1. k.color \in [Nodes -> Nodes]
  BY DEF Colorings
<1>2. Nodes \subseteq Int
  BY NAssumption DEF Nodes
<1> QED BY <1>1, <1>2

-----------------------------------------------------------------------------
(***************************************************************************)
(* Finer colorings: what was apart stays apart, and in the same order.     *)
(***************************************************************************)
KeepsApart(k, m) ==
    \A u, v \in Nodes : k.color[u] # k.color[v] => m.color[u] # m.color[v]

KeepsOrder(k, m) ==
    \A u, v \in Nodes : k.color[u] < k.color[v] => m.color[u] < m.color[v]

Alone(k, u) == \A v \in Nodes : k.color[v] = k.color[u] => v = u

LEMMA OrderKeepsApart ==
    ASSUME NEW k \in Colorings, NEW m \in Colorings, KeepsOrder(k, m)
    PROVE  KeepsApart(k, m)
<1> SUFFICES ASSUME NEW u \in Nodes, NEW v \in Nodes, k.color[u] # k.color[v]
             PROVE  m.color[u] # m.color[v]
  BY DEF KeepsApart
<1>1. /\ k.color[u] \in Int /\ k.color[v] \in Int
      /\ m.color[u] \in Int /\ m.color[v] \in Int
  BY ColorsAreInts
<1>2. k.color[u] < k.color[v] \/ k.color[v] < k.color[u]
  BY <1>1
<1> QED BY <1>1, <1>2 DEF KeepsOrder

(***************************************************************************)
(* individualize puts a node of a larger class behind the others of its    *)
(* class and before the next class, alone.                                 *)
(***************************************************************************)
LEMMA IndividualizedApart ==
    ASSUME NEW k, WellFormed(k), NEW u \in Nodes, ~Alone(k, u)
    PROVE  /\ KeepsOrder(k, Individualize(k, u))
           /\ Alone(Individualize(k, u), u)
           /\ Individualize(k, u).color
                = [k.color EXCEPT ![u] = EndOfColor(k, k.color[u])]
           /\ k.color[u] < EndOfColor(k, k.color[u])
<1> DEFINE c == k.color[u]
           last == EndOfColor(k, c)
           m == Individualize(k, u)
<1>0. Enumerates(k) /\ k.color \in [Nodes -> Nodes] /\ N \in Nat /\ Nodes = 0 .. N-1
      /\ Positions = 0 .. N-1
  BY NAssumption DEF WellFormed, Enumerates, Colorings, Nodes, Positions
<1>1. /\ last \in Positions /\ ColorAtLabel(k, last) = c
      /\ m.color = [k.color EXCEPT ![u] = last]
  BY <1>0, EndOfColorFound DEF Individualize
<1>2. c \in 0 .. last
  BY <1>1, ColorsAreStarts
\* The end of the class is behind its start.
<1>3. c < last
  <2>1. PICK w \in Nodes : k.color[w] = c /\ w # u
    BY DEF Alone
  <2>2. PICK p \in Positions, q \in Positions : k.label[p] = u /\ k.label[q] = w
    BY <1>0 DEF Enumerates
  <2>3. p # q /\ ColorAtLabel(k, p) = c /\ ColorAtLabel(k, q) = c
    BY <2>1, <2>2 DEF ColorAtLabel
  <2>4. c \in 0 .. p /\ c \in 0 .. q
    BY <2>3, ColorsAreStarts
  <2>5. \A r \in last+1 .. N-1 : ColorAtLabel(k, r) # c
    BY <1>0, EndOfColorFound
  <2>6. ASSUME NEW r \in Positions, ColorAtLabel(k, r) = c PROVE r <= last
    <3> HIDE DEF last, c
    <3>1. r \notin last+1 .. N-1
      BY <2>5, <2>6
    <3> QED BY <1>0, <1>1, <3>1
  <2>7. p <= last /\ q <= last /\ p \in 0 .. N-1 /\ q \in 0 .. N-1
    BY <1>0, <2>3, <2>6
  <2>8. p \in Int /\ q \in Int /\ c \in Int /\ last \in Int
    BY <1>0, <1>1, <1>2, <2>7
  <2> HIDE DEF last, c
  <2> QED BY <2>3, <2>4, <2>7, <2>8
\* Colors are class starts, so none lies between, or is the end itself.
<1>4. ASSUME NEW v \in Nodes, k.color[v] > c PROVE k.color[v] > last
  <2>1. PICK q \in Positions : k.label[q] = v
    BY <1>0 DEF Enumerates
  <2> DEFINE d == k.color[v]
  <2>2. ColorAtLabel(k, q) = d /\ d \in 0 .. q /\ ColorAtLabel(k, d) = d
    BY <2>1, ColorsAreStarts DEF ColorAtLabel
  <2>3. d \in 0 .. last => d <= c
    BY <1>1, <2>2, ColorsAscend
  <2>4. d > c /\ d \in Int /\ d >= 0 /\ c \in Int /\ last \in Int
    BY <1>0, <1>1, <1>2, <1>4, <2>2
  <2> HIDE DEF last, c, d
  <2>5. d > last
    BY <2>3, <2>4
  <2> QED BY <2>5 DEF d, last, c
<1>5. /\ m.color[u] = last
      /\ \A v \in Nodes : v # u => m.color[v] = k.color[v]
  BY <1>0, <1>1
<1>6. \A v \in Nodes : k.color[v] \in Int
  BY <1>0
<1>7. last \in Int /\ c \in Int
  BY <1>0, <1>1, <1>2
<1> HIDE DEF last, m
<1>8. Alone(m, u)
  <2> SUFFICES ASSUME NEW v \in Nodes, m.color[v] = last, v # u PROVE FALSE
    BY <1>5 DEF Alone
  <2>1. k.color[v] = last
    BY <1>5
  <2> QED BY <1>3, <1>4, <1>7, <2>1
<1>9. KeepsOrder(k, m)
  <2> SUFFICES ASSUME NEW v \in Nodes, NEW w \in Nodes, k.color[v] < k.color[w]
               PROVE  m.color[v] < m.color[w]
    BY DEF KeepsOrder
  <2>1. CASE v = u
    BY <1>4, <1>5, <1>6, <1>7, <2>1
  <2>2. CASE w = u
    BY <1>3, <1>5, <1>6, <1>7, <2>2
  <2> QED BY <1>5, <2>1, <2>2
<1> QED BY <1>1, <1>3, <1>8, <1>9 DEF m, last

-----------------------------------------------------------------------------
(***************************************************************************)
(* Two enumerations of the nodes along which the same values ascend carry  *)
(* the same value at each position.                                        *)
(***************************************************************************)
Enumeration(a) ==
    /\ a \in [Positions -> Nodes]
    /\ \A p, q \in Positions : a[p] = a[q] => p = q
    /\ \A u \in Nodes : \E p \in Positions : a[p] = u

AscendsAlong(f, a) == \A p \in Positions : \A q \in 0 .. p : f[a[q]] <= f[a[p]]

LEMMA NotBelow ==
    ASSUME NEW f \in [Nodes -> Int], NEW a, Enumeration(a), NEW b, Enumeration(b),
           AscendsAlong(f, a), AscendsAlong(f, b), NEW i \in Positions
    PROVE  f[a[i]] >= f[b[i]]
<1> SUFFICES ASSUME f[a[i]] < f[b[i]] PROVE FALSE
  BY DEF Enumeration
<1>1. N-1 \in Nat /\ Positions = 0 .. N-1 /\ i \in Nat
  BY NAssumption DEF Positions
<1> DEFINE I == 0 .. i
           J == 0 .. i-1
           h == [r \in I |-> CHOOSE p \in Positions : b[p] = a[r]]
<1>2. \A r \in I : h[r] \in Positions /\ b[h[r]] = a[r]
  <2> TAKE r \in I
  <2>1. r \in Positions
    BY <1>1
  <2>2. \E p \in Positions : b[p] = a[r]
    BY <2>1 DEF Enumeration
  <2> QED BY <2>2
<1>3. \A r \in I : h[r] \in J
  <2> TAKE r \in I
  <2> DEFINE j == h[r]
  <2>1. j \in Positions /\ b[j] = a[r]
    BY <1>2
  <2> HIDE DEF j
  <2>2. f[a[r]] <= f[a[i]]
    BY DEF AscendsAlong
  <2>3. i \in 0 .. j => f[b[i]] <= f[b[j]]
    BY <2>1 DEF AscendsAlong
  <2>4. r \in Positions
    BY <1>1
  <2>5. f[a[r]] \in Int /\ f[a[i]] \in Int /\ f[b[i]] \in Int /\ f[b[j]] \in Int
    BY <2>1, <2>4 DEF Enumeration
  <2>6. f[b[j]] < f[b[i]]
    BY <2>1, <2>2, <2>5
  <2>7. ~(i \in 0 .. j)
    BY <2>3, <2>5, <2>6
  <2> QED BY <1>1, <2>1, <2>7 DEF j
<1>4. h \in [I -> J]
  BY <1>3
<1>5. IsFiniteSet(I) /\ IsFiniteSet(J) /\ Cardinality(J) < Cardinality(I)
  <2>1. IsFiniteSet(I) /\ Cardinality(I) = i + 1
    BY <1>1, FS_Interval
  <2>2. IsFiniteSet(J) /\ Cardinality(J) = i
    BY <1>1, SizeBelow
  <2> QED BY <1>1, <2>1, <2>2
<1>6. I \subseteq Positions
  BY <1>1
<1> HIDE DEF h, I, J
<1>7. \E x, y \in I : x # y /\ h[x] = h[y]
  BY <1>4, <1>5, FS_PigeonHole
<1>8. PICK x \in I, y \in I : x # y /\ h[x] = h[y]
  BY <1>7
<1>9. a[x] = a[y]
  BY <1>2, <1>8
<1> QED BY <1>6, <1>8, <1>9 DEF Enumeration

LEMMA SameAlong ==
    ASSUME NEW f \in [Nodes -> Int], NEW a, Enumeration(a), NEW b, Enumeration(b),
           AscendsAlong(f, a), AscendsAlong(f, b), NEW i \in Positions
    PROVE  f[a[i]] = f[b[i]]
<1>1. f[a[i]] >= f[b[i]]
  BY NotBelow
<1>2. f[b[i]] >= f[a[i]]
  BY NotBelow
<1>3. f[a[i]] \in Int /\ f[b[i]] \in Int
  BY DEF Enumeration
<1> QED BY <1>1, <1>2, <1>3

\* The colors of a coloring ascend along the labels of any leaf below it.
LEMMA LeafAscends ==
    ASSUME NEW k \in Colorings, NEW m, WellFormed(m), IsDiscrete(m), KeepsOrder(k, m)
    PROVE  Enumeration(m.label) /\ AscendsAlong(k.color, m.label)
<1>1. Enumeration(m.label)
  BY DEF Enumeration, WellFormed, Enumerates, LabelsPermutation, Colorings
<1>2. ASSUME NEW p \in Positions, NEW q \in 0 .. p
      PROVE  k.color[m.label[q]] <= k.color[m.label[p]]
  <2>1. p \in Int /\ q \in Int /\ q \in Positions /\ q <= p
    BY NAssumption DEF Positions
  <2>2. m.label[p] \in Nodes /\ m.label[q] \in Nodes
    BY <1>1, <2>1 DEF Enumeration
  <2>3. m.color[m.label[p]] = p /\ m.color[m.label[q]] = q
    BY <2>1, DiscretePositions DEF ColorAtLabel
  <2>4. ~(k.color[m.label[p]] < k.color[m.label[q]])
    BY <2>1, <2>2, <2>3 DEF KeepsOrder
  <2>5. k.color[m.label[p]] \in Int /\ k.color[m.label[q]] \in Int
    BY <2>2, ColorsAreInts
  <2> QED BY <2>4, <2>5
<1> QED BY <1>1, <1>2 DEF AscendsAlong

-----------------------------------------------------------------------------
(***************************************************************************)
(* Sums over sets of positions: MapThenSumSet takes the members in some    *)
(* order, and the order does not matter.                                   *)
(***************************************************************************)
AnyOf(s) == CHOOSE x \in s : TRUE

Summed(a, w) ==
    [s \in SUBSET Positions |-> IF s = {} THEN 0 ELSE a[AnyOf(s)] + w[s \ {AnyOf(s)}]]

LEMMA PositionsFinite ==
    ASSUME NEW s \in SUBSET Positions
    PROVE  /\ IsFiniteSet(s) /\ Cardinality(s) \in 0 .. N
           /\ s # {} => AnyOf(s) \in s
           /\ \A x \in s : Cardinality(s \ {x}) = Cardinality(s) - 1
<1>1. IsFiniteSet(Positions) /\ Cardinality(Positions) = N /\ N \in Nat
  BY SizeBelow, NAssumption DEF Positions
<1>2. IsFiniteSet(s) /\ Cardinality(s) <= N /\ Cardinality(s) \in Nat
  BY <1>1, FS_Subset, FS_CardinalityType
<1>3. \A x \in s : Cardinality(s \ {x}) = Cardinality(s) - 1
  BY <1>2, FS_RemoveElement
<1> QED BY <1>1, <1>2, <1>3 DEF AnyOf

LEMMA SummedExists ==
    ASSUME NEW a, a \in [Positions -> Nat]
    PROVE  \E w : w = Summed(a, w)
<1> DEFINE V == [SUBSET Positions -> Nat]
           start == [s \in SUBSET Positions |-> 0]
           n == N+1
           step == [i \in 1 .. n |-> [w \in V |-> Summed(a, w)]]
<1>0. N \in Nat /\ n \in Nat
  BY NAssumption
<1>1. ASSUME NEW w \in V PROVE Summed(a, w) \in V
  <2> SUFFICES ASSUME NEW s \in SUBSET Positions, s # {}
               PROVE  a[AnyOf(s)] + w[s \ {AnyOf(s)}] \in Nat
    BY DEF Summed
  <2>1. AnyOf(s) \in Positions /\ s \ {AnyOf(s)} \in SUBSET Positions
    BY PositionsFinite
  <2>2. a[AnyOf(s)] \in Nat /\ w[s \ {AnyOf(s)}] \in Nat
    BY <2>1
  <2> QED BY <2>2
<1>2. step \in [1 .. n -> [V -> V]]
  <2> HIDE DEF V, n
  <2> QED BY <1>1
<1>3. start \in V
  OBVIOUS
<1>4. PICK z : Iterates(n, V, start, step, z)
  <2> HIDE DEF step, V, start, n
  <2> QED BY <1>0, <1>2, <1>3, IterationExists
<1>5. z \in [0 .. n -> V] /\ z[0] = start /\ \A i \in 1 .. n : z[i] = step[i][z[i-1]]
  <2> HIDE DEF step, V, start, n
  <2> QED BY <1>4 DEF Iterates
<1>6. \A i \in 1 .. n : z[i] = Summed(a, z[i-1])
  <2> TAKE i \in 1 .. n
  <2>1. z[i-1] \in V
    <3>1. i-1 \in 0 .. n
      BY <1>0
    <3> HIDE DEF V, n, start, step
    <3> QED BY <1>5, <3>1
  <2> HIDE DEF V, n
  <2> QED BY <1>5, <2>1
<1>7. z[0][{}] = 0
  BY <1>5
<1> HIDE DEF V, step, start
\* After i steps the sums of sets of fewer than i positions stay.
<1> DEFINE Stays(i) == \A s \in SUBSET Positions : Cardinality(s) < i => z[i][s] = z[i-1][s]
           T == {i \in 0 .. N : Stays(i+1)}
<1>8. 0 \in T
  <2>1. ASSUME NEW s \in SUBSET Positions, Cardinality(s) < 1
        PROVE  z[1][s] = z[0][s]
    <3>1. s = {}
      <4>1. IsFiniteSet(s) /\ Cardinality(s) = 0
        BY <2>1, <1>0, PositionsFinite
      <4> QED BY <4>1, FS_EmptySet
    <3>2. z[1] = Summed(a, z[1-1])
      BY <1>0, <1>6
    <3>3. z[1][s] = 0
      BY <3>1, <3>2 DEF Summed
    <3> QED BY <1>7, <3>1, <3>3
  <2>2. Stays(0+1)
    BY <2>1
  <2> QED BY <1>0, <2>2
<1>9. ASSUME NEW i \in 1 .. N, i-1 \in T PROVE i \in T
  <2>1. /\ i \in 1 .. n /\ i+1 \in 1 .. n /\ (i+1)-1 = i /\ i-1 \in 0 .. n /\ i \in 0 .. N
        /\ (i-1)+1 = i
    BY <1>0
  <2>2. Stays(i)
    BY <1>9, <2>1
  <2>3. z[i+1] = Summed(a, z[i]) /\ z[i] = Summed(a, z[i-1])
    <3> HIDE DEF n
    <3>1. z[i+1] = Summed(a, z[(i+1)-1])
      BY <1>6, <2>1
    <3> QED BY <1>6, <2>1, <3>1
  <2>4. ASSUME NEW s \in SUBSET Positions, Cardinality(s) < i+1
        PROVE  z[i+1][s] = z[i][s]
    <3>1. CASE s = {}
      BY <2>3, <3>1 DEF Summed
    <3>2. CASE s # {}
      <4> DEFINE x == AnyOf(s)
                 r == s \ {x}
      <4>1. x \in s /\ r \in SUBSET Positions /\ Cardinality(r) = Cardinality(s) - 1
            /\ Cardinality(s) \in 0 .. N
        BY <3>2, PositionsFinite
      <4>2. z[i+1][s] = a[x] + z[i][r] /\ z[i][s] = a[x] + z[i-1][r]
        BY <2>3, <3>2 DEF Summed
      <4> HIDE DEF x, r
      <4>3. Cardinality(r) < i
        BY <2>4, <4>1
      <4> QED BY <2>2, <4>1, <4>2, <4>3
    <3> QED BY <3>1, <3>2
  <2>5. Stays(i+1)
    BY <2>1, <2>4
  <2> QED BY <2>1, <2>5
<1>10. Stays(N+1)
  <2>1. \A i \in 0 .. N : i \in T
    <3> HIDE DEF T
    <3> QED BY <1>0, <1>8, <1>9, UpTo
  <2> QED BY <1>0, <2>1
<1>11. \A s \in SUBSET Positions : z[N+1][s] = z[N][s]
  <2> TAKE s \in SUBSET Positions
  <2>1. Cardinality(s) < N+1
    <3>1. Cardinality(s) \in 0 .. N
      BY PositionsFinite
    <3> QED BY <1>0, <3>1
  <2>2. (N+1)-1 = N
    BY <1>0
  <2> QED BY <1>10, <2>1, <2>2
<1>12. z[N+1] = Summed(a, z[N])
  <2>1. N+1 \in 1 .. n /\ (N+1)-1 = N
    BY <1>0
  <2> HIDE DEF n
  <2> QED BY <1>6, <2>1
<1>13. z[N] \in V
  <2>1. N \in 0 .. n
    BY <1>0
  <2> HIDE DEF n
  <2> QED BY <1>5, <2>1
<1>14. z[N] = Summed(a, z[N])
  <2>1. z[N] = [s \in SUBSET Positions |-> z[N][s]]
    BY <1>13 DEF V
  <2>2. Summed(a, z[N]) = [s \in SUBSET Positions |-> Summed(a, z[N])[s]]
    BY DEF Summed
  <2> QED BY <1>11, <1>12, <2>1, <2>2
<1> QED BY <1>14

LEMMA SummedAnyOrder ==
    ASSUME NEW a, a \in [Positions -> Nat], NEW w, w = Summed(a, w), NEW s \in SUBSET Positions
    PROVE  w[s] \in Nat /\ \A y \in s : w[s] = a[y] + w[s \ {y}]
<1> DEFINE Fine(t) == w[t] \in Nat /\ \A y \in t : w[t] = a[y] + w[t \ {y}]
           T == {i \in 0 .. N : \A t \in SUBSET Positions : Cardinality(t) <= i => Fine(t)}
<1>0. N \in Nat
  BY NAssumption
<1>1. \A t \in SUBSET Positions :
         w[t] = IF t = {} THEN 0 ELSE a[AnyOf(t)] + w[t \ {AnyOf(t)}]
  BY DEF Summed
<1>2. Fine({})
  <2>1. {} \in SUBSET Positions
    OBVIOUS
  <2>2. w[{}] = 0
    BY <1>1, <2>1
  <2> QED BY <2>2
<1>3. 0 \in T
  <2>1. ASSUME NEW t \in SUBSET Positions, Cardinality(t) <= 0 PROVE Fine(t)
    <3>1. IsFiniteSet(t) /\ Cardinality(t) \in 0 .. N
      BY PositionsFinite
    <3>2. Cardinality(t) = 0
      BY <1>0, <2>1, <3>1
    <3>3. t = {}
      BY <3>1, <3>2, FS_EmptySet
    <3> HIDE DEF Fine
    <3> QED BY <1>2, <3>3
  <2> HIDE DEF Fine
  <2> QED BY <1>0, <2>1
<1>4. ASSUME NEW i \in 1 .. N, i-1 \in T PROVE i \in T
  <2>1. \A t \in SUBSET Positions : Cardinality(t) <= i-1 => Fine(t)
    BY <1>4
  <2>2. ASSUME NEW t \in SUBSET Positions, Cardinality(t) <= i, t # {} PROVE Fine(t)
    <3> DEFINE x == AnyOf(t)
               r == t \ {x}
    <3>1. x \in t /\ Cardinality(t) \in 0 .. N
          /\ \A y \in t : Cardinality(t \ {y}) = Cardinality(t) - 1
      BY <2>2, PositionsFinite
    <3>2. w[t] = a[x] + w[r]
      BY <1>1, <2>2
    <3> HIDE DEF x
    <3>3. \A y \in t : t \ {y} \in SUBSET Positions /\ Cardinality(t \ {y}) <= i-1
      BY <1>0, <2>2, <3>1
    <3>4. \A y \in t : Fine(t \ {y})
      <4> HIDE DEF Fine
      <4> QED BY <2>1, <3>3
    <3>5. w[t] \in Nat
      <4>1. a[x] \in Nat /\ w[r] \in Nat
        BY <3>1, <3>4
      <4> QED BY <3>2, <4>1
    <3>6. ASSUME NEW y \in t PROVE w[t] = a[y] + w[t \ {y}]
      <4>1. CASE y = x
        BY <3>2, <4>1
      <4>2. CASE y # x
        <5> DEFINE q == t \ {x, y}
        <5>1. y \in r /\ x \in t \ {y} /\ r \ {y} = q /\ (t \ {y}) \ {x} = q
          BY <3>1, <4>2
        <5>2. w[r] = a[y] + w[q]
          <6>1. Fine(r)
            BY <3>1, <3>4
          <6> QED BY <5>1, <6>1
        <5>3. w[t \ {y}] = a[x] + w[q]
          <6>1. Fine(t \ {y})
            BY <3>4
          <6> QED BY <5>1, <6>1
        <5>4. w[q] \in Nat
          <6>1. Fine(r)
            BY <3>1, <3>4
          <6>2. Cardinality(r) <= i-1 /\ r \in SUBSET Positions
            BY <3>1, <3>3
          <6>3. Cardinality(r \ {y}) = Cardinality(r) - 1 /\ Cardinality(r) \in 0 .. N
            BY <5>1, <6>2, PositionsFinite
          <6>4. q \in SUBSET Positions /\ Cardinality(q) <= i-1
            BY <1>0, <5>1, <6>2, <6>3
          <6>5. Fine(q)
            <7> HIDE DEF Fine, q
            <7> QED BY <2>1, <6>4
          <6> QED BY <6>5
        <5>5. a[x] \in Nat /\ a[y] \in Nat
          BY <3>1
        <5> HIDE DEF q, r
        <5> QED BY <3>2, <5>2, <5>3, <5>4, <5>5
      <4> QED BY <4>1, <4>2
    <3> QED BY <3>5, <3>6
  <2>3. \A t \in SUBSET Positions : Cardinality(t) <= i => Fine(t)
    <3> HIDE DEF Fine
    <3> QED BY <1>2, <2>2
  <2>4. i \in 0 .. N
    BY <1>0
  <2> HIDE DEF Fine
  <2> QED BY <2>3, <2>4
<1>5. N \in T
  <2>1. \A i \in 0 .. N : i \in T
    <3> HIDE DEF T
    <3> QED BY <1>0, <1>3, <1>4, UpTo
  <2> QED BY <1>0, <2>1
<1>6. Cardinality(s) <= N
  <2>1. Cardinality(s) \in 0 .. N
    BY PositionsFinite
  <2> QED BY <1>0, <2>1
<1>7. Fine(s)
  <2> HIDE DEF Fine
  <2> QED BY <1>5, <1>6
<1> QED BY <1>7

\* The duplicate check of is_consistent holds of labels that enumerate the nodes.
LabelsSummed(a) == MapThenSumSet(LAMBDA p : a[p], Positions)

LEMMA LabelSum ==
    ASSUME NEW a, Enumeration(a)
    PROVE  LabelsSummed(a) = (N * (N-1)) \div 2
<1> DEFINE Solves(w) == w = [s \in SUBSET Positions |->
                               IF s = {} THEN 0
                               ELSE a[CHOOSE x \in s : TRUE] + w[s \ {CHOOSE x \in s : TRUE}]]
           iter == CHOOSE w : Solves(w)
<1>0. /\ N \in Nat \ {0} /\ Nodes = 0 .. N-1 /\ Positions = 0 .. N-1
      /\ a \in [Positions -> Nat]
  <2>1. a \in [Positions -> Nodes] /\ Nodes \subseteq Nat
    BY NAssumption DEF Enumeration, Nodes
  <2>2. a \in [Positions -> Nat]
    BY <2>1
  <2> QED BY <2>2, NAssumption DEF Nodes, Positions
<1>1. LabelsSummed(a) = iter[Positions]
  BY DEF LabelsSummed, MapThenSumSet, MapThenFoldSet
<1>2. \E w : Solves(w)
  <2>1. PICK w : w = Summed(a, w)
    BY <1>0, SummedExists
  <2>2. Solves(w)
    BY <2>1 DEF Summed, AnyOf
  <2> HIDE DEF Solves
  <2> QED BY <2>2
<1>3. Solves(iter)
  <2> HIDE DEF Solves
  <2> QED BY <1>2
<1> HIDE DEF iter
<1>4. iter = Summed(a, iter)
  BY <1>3 DEF Summed, AnyOf
<1>5. \A s \in SUBSET Positions : iter[s] \in Nat /\ \A y \in s : iter[s] = a[y] + iter[s \ {y}]
  BY <1>0, <1>4, SummedAnyOrder
<1> DEFINE L(m) == {p \in Positions : a[p] < m}
           T == {m \in 0 .. N : 2 * iter[L(m)] = m * (m-1)}
<1>6. 0 \in T
  <2>1. L(0) = {}
    BY <1>0
  <2>2. iter[{}] = 0
    BY <1>4 DEF Summed
  <2> DEFINE x == iter[L(0)]
  <2>3. x = 0
    BY <2>1, <2>2
  <2> HIDE DEF x
  <2>4. 2 * x = 0 * (0-1) /\ 0 \in 0 .. N
    BY <1>0, <2>3
  <2> QED BY <2>4 DEF x
<1>7. ASSUME NEW m \in 1 .. N, m-1 \in T PROVE m \in T
  <2> DEFINE j == m-1
  <2>1. j \in Nodes /\ j \in Nat /\ m = j+1 /\ m \in 0 .. N
    BY <1>0
  <2>2. 2 * iter[L(j)] = j * (j-1)
    BY <1>7
  <2> HIDE DEF j
  <2>3. PICK p \in Positions : a[p] = j
    BY <2>1 DEF Enumeration
  <2>4. L(m) \ {p} = L(j) /\ p \in L(m) /\ L(m) \in SUBSET Positions /\ L(j) \in SUBSET Positions
    <3>1. \A q \in Positions : a[q] \in Nat /\ (a[q] = j => q = p)
      BY <1>0, <2>3 DEF Enumeration
    <3>2. \A q \in Positions : (a[q] < m /\ q # p) <=> a[q] < j
      BY <2>1, <2>3, <3>1
    <3>3. a[p] < m
      BY <2>1, <2>3
    <3> QED BY <3>2, <3>3
  <2> DEFINE x == iter[L(m)]
             y == iter[L(j)]
  <2>5. x = j + y /\ y \in Nat
    BY <1>5, <2>3, <2>4
  <2>6. 2 * y = j * (j-1)
    BY <2>2
  <2> HIDE DEF x, y
  <2>7. 2 * x = m * (m-1)
    <3>1. 2 * x = 2 * j + j * (j-1)
      BY <2>1, <2>5, <2>6
    <3>2. 2 * j + j * (j-1) = (j+1) * j
      BY <2>1
    <3> QED BY <2>1, <3>1, <3>2
  <2> QED BY <2>1, <2>7 DEF x
<1>8. N \in T
  <2>1. \A m \in 0 .. N : m \in T
    <3> HIDE DEF T
    <3> QED BY <1>0, <1>6, <1>7, UpTo
  <2> QED BY <1>0, <2>1
<1>9. L(N) = Positions
  <2>1. \A p \in Positions : a[p] \in Nodes
    BY DEF Enumeration
  <2> QED BY <1>0, <2>1
<1> DEFINE x == iter[Positions]
<1>10. x \in Nat /\ N * (N-1) = x * 2 + 0
  <2>1. x \in Nat
    BY <1>5
  <2>2. 2 * x = N * (N-1)
    BY <1>8, <1>9
  <2> HIDE DEF x
  <2> QED BY <1>0, <2>1, <2>2
<1> DEFINE b == N * (N-1)
<1>11. b \in Nat /\ b = x * 2 + 0
  <2> HIDE DEF x
  <2> QED BY <1>0, <1>10
<1> HIDE DEF x, b
<1>12. b \div 2 = x
  BY <1>10, <1>11, QuotientUnique
<1> QED BY <1>1, <1>12 DEF x, b

\* The sum that is_consistent compares, and the class starts.
LEMMA WellFormedConsistent ==
    ASSUME NEW k, WellFormed(k)
    PROVE  IsConsistent(k) /\ {k.label[p] : p \in Positions} = Nodes
<1>1. /\ k \in Colorings
      /\ Enumeration(k.label)
      /\ \A u \in Nodes : \E p \in Positions : k.label[p] = u
  BY DEF WellFormed, Enumerates, LabelsPermutation, Enumeration, Colorings
<1> DEFINE a == k.label
<1>2. MapThenSumSet(LAMBDA p : k.label[p], Positions) = (N * (N-1)) \div 2
  <2>1. Enumeration(a)
    BY <1>1
  <2>2. LabelsSummed(a) = (N * (N-1)) \div 2
    BY <2>1, LabelSum
  <2> QED BY <2>2 DEF LabelsSummed
<1>3. /\ \A u \in Nodes : k.color[u] < N
      /\ \A p \in Positions : k.label[p] < N
      /\ {k.label[p] : p \in Positions} = Nodes
  BY <1>1, NAssumption DEF Colorings, Nodes
<1>4. ASSUME NEW p \in Positions
      PROVE  ColorAtLabel(k, p) \in {IF p = 0 THEN 0 ELSE ColorAtLabel(k, p-1), p}
  <2>1. p = 0 \/ p \in 1 .. N-1
    BY NAssumption DEF Positions
  <2> QED BY <2>1 DEF WellFormed, ClassStarts
<1> QED BY <1>2, <1>3, <1>4 DEF IsConsistent

-----------------------------------------------------------------------------
(***************************************************************************)
(* The reference refinement: the hashing and each round order the nodes by *)
(* a key and number them by it.                                            *)
(***************************************************************************)
(***************************************************************************)
(* Words.  Nothing is needed of the finalizer but that it is a function    *)
(* into words; of the sum, that the order of its terms does not matter.    *)
(***************************************************************************)
LEMMA HalfSize == H \in Nat \ {0}
BY DEF H

LEMMA WordParts ==
    ASSUME NEW x \in Words
    PROVE  /\ x[1] \in 0 .. H-1
           /\ x[2] \in 0 .. H-1
           /\ x = <<x[1], x[2]>>
BY DEF Words

LEMMA XorDigitRange ==
    ASSUME NEW a \in 0 .. 15, NEW b \in 0 .. 15
    PROVE  XorDigit[a][b] \in 0 .. 15
<1> DEFINE differ(c, d, power) == IF (c \div power) % 2 = (d \div power) % 2 THEN 0 ELSE power
           sum(c, d) == differ(c, d, 1) + differ(c, d, 2) + differ(c, d, 4) + differ(c, d, 8)
           S == 0 .. 15
<1>1. XorDigit = [c \in S |-> [d \in S |-> sum(c, d)]]
  BY DEF XorDigit
<1>2. XorDigit[a][b] = sum(a, b)
  <2> HIDE DEF sum
  <2> QED BY <1>1
<1>3. /\ differ(a, b, 1) \in {0, 1}
      /\ differ(a, b, 2) \in {0, 2}
      /\ differ(a, b, 4) \in {0, 4}
      /\ differ(a, b, 8) \in {0, 8}
  OBVIOUS
<1> HIDE DEF differ
<1> QED BY <1>2, <1>3

LEMMA XorHalfRange ==
    ASSUME NEW a \in Nat, NEW b \in Nat
    PROVE  XorHalf(a, b) \in 0 .. H-1
<1> DEFINE d(power) == XorDigit[(a \div power) % 16][(b \div power) % 16]
<1>1. ASSUME NEW power \in Nat \ {0} PROVE d(power) \in 0 .. 15
  <2>1. (a \div power) % 16 \in 0 .. 15 /\ (b \div power) % 16 \in 0 .. 15
    OBVIOUS
  <2> QED BY <2>1, XorDigitRange
<1>2. d(1) \in 0 .. 15 /\ d(16) \in 0 .. 15 /\ d(256) \in 0 .. 15 /\ d(4096) \in 0 .. 15
  BY <1>1
<1>3. XorHalf(a, b) = d(1) * 1 + d(16) * 16 + d(256) * 256 + d(4096) * 4096
  BY DEF XorHalf
<1> DEFINE q == 4096
<1>4. q \in Nat /\ q = 16 * 256
  OBVIOUS
<1>5. H = 16 * q
  BY DEF H
<1>6. XorHalf(a, b) = d(1) * 1 + d(16) * 16 + d(256) * 256 + d(q) * q
  BY <1>3
<1>7. d(q) \in 0 .. 15
  BY <1>2
<1> HIDE DEF d, q
<1>8. d(q) * q <= 15 * q /\ d(q) * q \in Nat
  BY <1>4, <1>7, ProductGrows
<1> DEFINE c1 == d(1)
           c2 == d(16)
           c3 == d(256)
           c4 == d(q) * q
<1>9. c1 \in 0 .. 15 /\ c2 \in 0 .. 15 /\ c3 \in 0 .. 15
  BY <1>2
<1>10. c4 \in Nat /\ c4 <= 15 * q
  BY <1>8
<1>11. XorHalf(a, b) = c1 * 1 + c2 * 16 + c3 * 256 + c4
  BY <1>6
<1> HIDE DEF c1, c2, c3, c4
<1> DEFINE u1 == c1 * 1
           u2 == c2 * 16
           u3 == c3 * 256
<1>12. u1 \in Nat /\ u1 <= 15
  BY <1>9
<1>13. u2 \in Nat /\ u2 <= 240
  BY <1>9
<1>14. u3 \in Nat /\ u3 <= 3840
  BY <1>9
<1>15. q \in Nat /\ q > 4095
  BY <1>4
<1>16. XorHalf(a, b) = u1 + u2 + u3 + c4
  BY <1>11
<1> HIDE DEF u1, u2, u3
<1>17. u1 + u2 + u3 + c4 \in Nat
  BY <1>10, <1>12, <1>13, <1>14
<1>18. u1 + u2 + u3 < q
  BY <1>12, <1>13, <1>14, <1>15
<1>19. u1 + u2 + u3 + c4 < 16 * q
  BY <1>10, <1>12, <1>13, <1>14, <1>15, <1>18
<1> DEFINE u == u1 + u2 + u3 + c4
<1>20. u \in Nat /\ u < H
  BY <1>5, <1>17, <1>19
<1> HIDE DEF u
<1>21. u \in 0 .. H-1
  BY <1>20, HalfSize
<1> QED BY <1>16, <1>21 DEF u

LEMMA XorWord ==
    ASSUME NEW x \in Nat \X Nat, NEW y \in Nat \X Nat
    PROVE  Xor32(x, y) \in Words
<1>1. XorHalf(x[1], y[1]) \in 0 .. H-1 /\ XorHalf(x[2], y[2]) \in 0 .. H-1
  BY XorHalfRange
<1> QED BY <1>1 DEF Xor32, Words

LEMMA ShrPair ==
    ASSUME NEW x \in Words, NEW power \in Nat \ {0}
    PROVE  Shr(x, power) \in Nat \X Nat
<1>1. x[1] \in Nat /\ x[2] \in Nat
  BY WordParts, HalfSize
<1>2. x[1] \div power \in Nat /\ x[1] % power \in Nat /\ H \div power \in Nat /\ x[2] \div power \in Nat
  BY <1>1, HalfSize
<1>3. \A m, n, l \in Nat : m * n + l \in Nat
  OBVIOUS
<1> QED BY <1>2, <1>3 DEF Shr

LEMMA MulHalves ==
    ASSUME NEW a \in Nat, NEW b \in Nat
    PROVE  MulLow(a, b) \in 0 .. H-1 /\ MulHigh(a, b) \in Nat
<1> DEFINE lo == (a % 256) * b
           hi == (a \div 256) * b
           s == lo + (hi % 256) * 256
<1>1. lo \in Nat /\ hi \in Nat
  <2>1. a % 256 \in Nat /\ a \div 256 \in Nat /\ b \in Nat
    OBVIOUS
  <2>2. \A m, n \in Nat : m * n \in Nat
    OBVIOUS
  <2> QED BY <2>1, <2>2
<1>2. MulLow(a, b) = s % H /\ MulHigh(a, b) = hi \div 256 + s \div H
  BY DEF MulLow, MulHigh
<1>3. s \in Nat /\ hi \div 256 \in Nat
  <2> HIDE DEF lo, hi
  <2> QED BY <1>1
<1> HIDE DEF s, lo, hi
<1>4. s % H \in 0 .. H-1 /\ s \div H \in Nat
  BY <1>3, HalfSize
<1> QED BY <1>2, <1>3, <1>4

LEMMA MulWord ==
    ASSUME NEW x \in Words, NEW y \in Words
    PROVE  Mul32(x, y) \in Words
<1>0. x[1] \in Nat /\ x[2] \in Nat /\ y[1] \in Nat /\ y[2] \in Nat
  BY WordParts, HalfSize
<1> DEFINE s == MulHigh(x[2], y[2]) + MulLow(x[1], y[2]) + MulLow(x[2], y[1])
<1>1. /\ MulLow(x[2], y[2]) \in 0 .. H-1
      /\ MulLow(x[1], y[2]) \in 0 .. H-1
      /\ MulLow(x[2], y[1]) \in 0 .. H-1
      /\ MulHigh(x[2], y[2]) \in Nat
  BY <1>0, MulHalves
<1>2. s \in Nat
  BY <1>1, HalfSize
<1>3. s % H \in 0 .. H-1
  <2> HIDE DEF s
  <2> QED BY <1>2, HalfSize
<1>4. Mul32(x, y) = <<s % H, MulLow(x[2], y[2])>>
  BY DEF Mul32
<1> HIDE DEF s
<1> QED BY <1>1, <1>3, <1>4 DEF Words

LEMMA FactorWords == Factor1 \in Words /\ Factor2 \in Words
<1>1. 34283 \in 0 .. H-1
  BY DEF H
<1>2. 51819 \in 0 .. H-1
  BY DEF H
<1>3. 49842 \in 0 .. H-1
  BY DEF H
<1>4. 44597 \in 0 .. H-1
  BY DEF H
<1>5. \A i, j \in 0 .. H-1 : <<i, j>> \in Words
  BY DEF Words
<1>6. Factor1 \in Words
  BY <1>1, <1>2, <1>5 DEF Factor1
<1>7. Factor2 \in Words
  BY <1>3, <1>4, <1>5 DEF Factor2
<1> QED BY <1>6, <1>7

LEMMA FinalizedWord ==
    ASSUME NEW x \in Words
    PROVE  HashFmix32(x) \in Words
<1> DEFINE h1 == Xor32(x, Shr16(x))
           h2 == Mul32(h1, Factor1)
           h3 == Xor32(h2, Shr(h2, 8192))
           h4 == Mul32(h3, Factor2)
           h5 == Xor32(h4, Shr16(h4))
<1>1. Factor1 \in Words /\ Factor2 \in Words
  BY FactorWords
<1>2. \A y \in Words : y \in Nat \X Nat /\ Shr16(y) \in Nat \X Nat
  BY HalfSize DEF Words, Shr16
<1>3. h1 \in Words
  BY <1>2, XorWord
<1>4. h2 \in Words
  <2> HIDE DEF h1
  <2> QED BY <1>1, <1>3, MulWord
<1>5. h3 \in Words
  <2> HIDE DEF h2
  <2>1. Shr(h2, 8192) \in Nat \X Nat
    BY <1>4, ShrPair
  <2> QED BY <1>2, <1>4, <2>1, XorWord
<1>6. h4 \in Words
  <2> HIDE DEF h3
  <2> QED BY <1>1, <1>5, MulWord
<1>7. h5 \in Words
  <2> HIDE DEF h4
  <2> QED BY <1>2, <1>6, XorWord
<1>8. HashFmix32(x) = h5
  BY DEF HashFmix32
<1> HIDE DEF h5
<1> QED BY <1>7, <1>8

LEMMA AddWord ==
    ASSUME NEW x \in Words, NEW y \in Words
    PROVE  Add32(x, y) \in Words
<1> DEFINE low == x[2] + y[2]
           high == x[1] + y[1] + low \div H
<1>1. x[1] \in Nat /\ x[2] \in Nat /\ y[1] \in Nat /\ y[2] \in Nat
  BY WordParts, HalfSize
<1>2. low \in Nat
  BY <1>1
<1>3. low \div H \in Nat /\ low % H \in 0 .. H-1
  <2> HIDE DEF low
  <2> QED BY <1>2, HalfSize
<1>4. high \in Nat
  <2> HIDE DEF low
  <2> QED BY <1>1, <1>3
<1>5. high % H \in 0 .. H-1
  <2> HIDE DEF high
  <2> QED BY <1>4, HalfSize
<1>6. Add32(x, y) = <<high % H, low % H>>
  BY DEF Add32
<1> HIDE DEF high, low
<1> QED BY <1>3, <1>5, <1>6 DEF Words

\* (a + b + c) + d with carries, in whichever order b and d are added.
LEMMA AddTwo ==
    ASSUME NEW x \in Words, NEW y \in Words, NEW z \in Words
    PROVE  Add32(Add32(x, y), z) = Add32(Add32(x, z), y)
<1> DEFINE x1 == x[1]
           x2 == x[2]
           y1 == y[1]
           y2 == y[2]
           z1 == z[1]
           z2 == z[2]
<1>1. /\ x1 \in Nat /\ x2 \in Nat
      /\ y1 \in Nat /\ y2 \in Nat
      /\ z1 \in Nat /\ z2 \in Nat
  BY WordParts, HalfSize
<1> DEFINE Twice(a1, a2, b1, b2) ==
             <<(((x1 + a1 + ((x2 + a2) \div H)) % H) + b1 + ((((x2 + a2) % H) + b2) \div H)) % H,
               (((x2 + a2) % H) + b2) % H>>
           Once(a1, a2, b1, b2) ==
             <<(x1 + a1 + b1 + ((x2 + a2 + b2) \div H)) % H, (x2 + a2 + b2) % H>>
<1>2. /\ Add32(Add32(x, y), z) = Twice(y1, y2, z1, z2)
      /\ Add32(Add32(x, z), y) = Twice(z1, z2, y1, y2)
  BY DEF Add32
<1> HIDE DEF x1, x2, y1, y2, z1, z2
<1>3. ASSUME NEW a1 \in Nat, NEW a2 \in Nat, NEW b1 \in Nat, NEW b2 \in Nat
      PROVE  Twice(a1, a2, b1, b2) = Once(a1, a2, b1, b2)
  <2> DEFINE s == x2 + a2
             c == s \div H
             d == ((s % H) + b2) \div H
             t == x1 + a1 + c
             e == b1 + d
             u == x1 + a1 + b1
  <2>1. s \in Nat
    BY <1>1
  <2>2. ((s % H) + b2) % H = (s + b2) % H /\ c + d = (s + b2) \div H
    <3> HIDE DEF s
    <3> QED BY <2>1, HalfSize, RemainderAdds
  <2>3. c \in Nat /\ s % H \in Nat
    <3> HIDE DEF s
    <3> QED BY <2>1, HalfSize
  <2>4. d \in Nat
    <3> DEFINE v == (s % H) + b2
    <3>1. v \in Nat
      <4> HIDE DEF s
      <4> QED BY <2>3
    <3>2. v \div H \in Nat
      <4> HIDE DEF v
      <4> QED BY <3>1, HalfSize
    <3> QED BY <3>2
  <2>5. t \in Nat /\ e \in Nat
    <3> HIDE DEF c, d
    <3> QED BY <1>1, <2>3, <2>4
  <2>6. ((t % H) + e) % H = (t + e) % H
    <3> HIDE DEF t, e
    <3> QED BY <2>5, HalfSize, RemainderAdds
  <2>7. t + e = u + (c + d)
    <3> HIDE DEF c, d
    <3> QED BY <1>1, <2>3, <2>4
  <2>8. (t % H) + b1 + d = (t % H) + e
    <3>1. t % H \in Nat
      <4> HIDE DEF t
      <4> QED BY <2>5, HalfSize
    <3> HIDE DEF t, d
    <3> QED BY <2>4, <3>1
  <2>9. Twice(a1, a2, b1, b2) = <<((t % H) + b1 + d) % H, ((s % H) + b2) % H>>
    BY Zenon
  <2>10. Once(a1, a2, b1, b2) = <<(u + ((s + b2) \div H)) % H, (s + b2) % H>>
    BY Zenon
  <2> HIDE DEF s, c, d, t, e, u, Twice, Once
  <2> QED BY <2>2, <2>6, <2>7, <2>8, <2>9, <2>10
<1>4. Once(y1, y2, z1, z2) = Once(z1, z2, y1, y2)
  <2>1. x1 + y1 + z1 = x1 + z1 + y1 /\ x2 + y2 + z2 = x2 + z2 + y2
    BY <1>1
  <2> QED BY <2>1
<1>5. /\ Twice(y1, y2, z1, z2) = Once(y1, y2, z1, z2)
      /\ Twice(z1, z2, y1, y2) = Once(z1, z2, y1, y2)
  <2> HIDE DEF Twice, Once
  <2> QED BY <1>1, <1>3
<1> HIDE DEF Twice, Once
<1> QED BY <1>2, <1>4, <1>5

-----------------------------------------------------------------------------
(***************************************************************************)
(* Sums over neighbourhoods: equal when one neighbourhood is mapped onto   *)
(* the other and each node to one of the same hash.                        *)
(***************************************************************************)
Hashed == [Nodes -> Words]

IsSum(hash, S, base, w) ==
    /\ w \in [0 .. N -> Words]
    /\ w[0] = base
    /\ \A i \in 1 .. N : w[i] = IF i-1 \in S THEN Add32(w[i-1], hash[i-1]) ELSE w[i-1]

LEMMA SumTaken ==
    ASSUME NEW hash \in Hashed, NEW S, NEW base \in Words
    PROVE  \E w : IsSum(hash, S, base, w) /\ SumOf(hash, S, base) = w[N]
<1> DEFINE Solves(w) == w = [i \in 0 .. N |-> IF i = 0 THEN base
                                ELSE IF i-1 \in S THEN Add32(w[i-1], hash[i-1]) ELSE w[i-1]]
           sum == CHOOSE w : Solves(w)
           next == [i \in 1 .. N |-> [x \in Words |->
                       IF i-1 \in S THEN Add32(x, hash[i-1]) ELSE x]]
<1>0. N \in Nat /\ N \in 0 .. N
  BY NAssumption
<1>1. \A i \in 1 .. N : hash[i-1] \in Words
  BY <1>0 DEF Hashed, Nodes
<1>2. \A i \in 1 .. N : \A x \in Words :
         (IF i-1 \in S THEN Add32(x, hash[i-1]) ELSE x) \in Words
  BY <1>1, AddWord
<1>3. next \in [1 .. N -> [Words -> Words]]
  BY <1>2
<1>4. PICK w : Iterates(N, Words, base, next, w)
  <2> HIDE DEF next
  <2> QED BY <1>0, <1>3, IterationExists
<1>5. w \in [0 .. N -> Words] /\ w[0] = base /\ \A i \in 1 .. N : w[i] = next[i][w[i-1]]
  BY <1>4 DEF Iterates
<1>6. \A i \in 1 .. N : i-1 \in 0 .. N /\ w[i-1] \in Words
  BY <1>0, <1>5
<1>7. \A i \in 1 .. N : w[i] = IF i-1 \in S THEN Add32(w[i-1], hash[i-1]) ELSE w[i-1]
  BY <1>5, <1>6
<1>8. Solves(w)
  <2>1. \A i \in 0 .. N : w[i] = IF i = 0 THEN base
                                ELSE IF i-1 \in S THEN Add32(w[i-1], hash[i-1]) ELSE w[i-1]
    BY <1>0, <1>5, <1>7
  <2> QED BY <1>5, <2>1
<1>9. Solves(sum)
  <2> HIDE DEF Solves
  <2> QED BY <1>8
<1> HIDE DEF sum
<1>10. /\ DOMAIN sum = 0 .. N
       /\ sum[0] = base
       /\ \A i \in 1 .. N : sum[i] = IF i-1 \in S THEN Add32(sum[i-1], hash[i-1]) ELSE sum[i-1]
  BY <1>0, <1>9
<1> DEFINE T == {i \in 0 .. N : sum[i] \in Words}
<1>11. \A i \in 0 .. N : i \in T
  <2>1. 0 \in T
    BY <1>0, <1>10
  <2>2. \A i \in 1 .. N : i-1 \in T => i \in T
    <3> TAKE i \in 1 .. N
    <3> HAVE i-1 \in T
    <3>1. sum[i-1] \in Words /\ hash[i-1] \in Words
      BY <1>1
    <3>2. sum[i] = IF i-1 \in S THEN Add32(sum[i-1], hash[i-1]) ELSE sum[i-1]
      BY <1>10
    <3>3. sum[i] \in Words
      BY <3>1, <3>2, AddWord
    <3> QED BY <3>3
  <2> HIDE DEF T
  <2> QED BY <1>0, <2>1, <2>2, UpTo
<1>12. sum \in [0 .. N -> Words]
  <2>1. sum = [i \in 0 .. N |-> sum[i]]
    BY <1>9
  <2> QED BY <1>11, <2>1
<1>13. IsSum(hash, S, base, sum)
  BY <1>10, <1>12 DEF IsSum
<1>14. SumOf(hash, S, base) = sum[N]
  BY DEF SumOf, sum
<1> QED BY <1>13, <1>14

LEMMA SumIsWord ==
    ASSUME NEW hash \in Hashed, NEW S, NEW base \in Words
    PROVE  SumOf(hash, S, base) \in Words
<1>1. PICK w : IsSum(hash, S, base, w) /\ SumOf(hash, S, base) = w[N]
  BY SumTaken
<1> QED BY <1>1, NAssumption DEF IsSum

LEMMA SumEmpty ==
    ASSUME NEW hash \in Hashed, NEW base \in Words
    PROVE  SumOf(hash, {}, base) = base
<1>1. PICK w : IsSum(hash, {}, base, w) /\ SumOf(hash, {}, base) = w[N]
  BY SumTaken
<1> DEFINE T == {i \in 0 .. N : w[i] = base}
<1>2. 0 \in T /\ N \in Nat
  BY <1>1, NAssumption DEF IsSum
<1>3. \A i \in 1 .. N : i-1 \in T => i \in T
  BY <1>1 DEF IsSum
<1>4. \A i \in 0 .. N : i \in T
  <2> HIDE DEF T
  <2> QED BY <1>2, <1>3, UpTo
<1> QED BY <1>1, <1>2, <1>4

LEMMA SumWithout ==
    ASSUME NEW hash \in Hashed, NEW S, NEW base \in Words, NEW x \in S, x \in Nodes
    PROVE  SumOf(hash, S, base) = Add32(SumOf(hash, S \ {x}, base), hash[x])
<1> DEFINE R == S \ {x}
<1>1. PICK w : IsSum(hash, S, base, w) /\ SumOf(hash, S, base) = w[N]
  BY SumTaken
<1>2. PICK v : IsSum(hash, R, base, v) /\ SumOf(hash, R, base) = v[N]
  <2> HIDE DEF R
  <2> QED BY SumTaken
<1>3. N \in Nat /\ x \in 0 .. N-1 /\ x \in Int /\ Nodes = 0 .. N-1
  BY NAssumption DEF Nodes
<1> DEFINE T == {i \in 0 .. N : w[i] = IF i <= x THEN v[i] ELSE Add32(v[i], hash[x])}
<1>4. 0 \in T
  BY <1>1, <1>2, <1>3 DEF IsSum
<1>5. ASSUME NEW i \in 1 .. N, i-1 \in T PROVE i \in T
  <2>1. /\ w[i] = IF i-1 \in S THEN Add32(w[i-1], hash[i-1]) ELSE w[i-1]
        /\ v[i] = IF i-1 \in R THEN Add32(v[i-1], hash[i-1]) ELSE v[i-1]
    BY <1>1, <1>2 DEF IsSum
  <2>2. v[i-1] \in Words /\ hash[i-1] \in Words /\ hash[x] \in Words
    BY <1>2, <1>3 DEF IsSum, Hashed
  <2>3. w[i-1] = IF i-1 <= x THEN v[i-1] ELSE Add32(v[i-1], hash[x])
    BY <1>5
  <2>4. CASE i-1 < x
    <3>1. i <= x /\ i-1 <= x /\ (i-1 \in S <=> i-1 \in R)
      BY <1>3, <2>4
    <3>2. w[i] = v[i]
      BY <2>1, <2>3, <3>1
    <3> QED BY <3>1, <3>2
  <2>5. CASE i-1 = x
    <3>1. w[i] = Add32(v[i], hash[x])
      BY <1>3, <2>1, <2>3, <2>5
    <3>2. ~(i <= x)
      BY <1>3, <2>5
    <3> QED BY <3>1, <3>2
  <2>6. CASE i-1 > x
    <3>1. ~(i <= x) /\ ~(i-1 <= x) /\ (i-1 \in S <=> i-1 \in R)
      BY <1>3, <2>6
    <3>2. Add32(Add32(v[i-1], hash[x]), hash[i-1]) = Add32(Add32(v[i-1], hash[i-1]), hash[x])
      BY <2>2, AddTwo
    <3>3. w[i] = Add32(v[i], hash[x])
      BY <2>1, <2>3, <3>1, <3>2
    <3> QED BY <3>1, <3>3
  <2> QED BY <1>3, <2>4, <2>5, <2>6
<1>6. \A i \in 0 .. N : i \in T
  <2> HIDE DEF T
  <2> QED BY <1>3, <1>4, <1>5, UpTo
<1>7. w[N] = Add32(v[N], hash[x])
  BY <1>3, <1>6
<1> QED BY <1>1, <1>2, <1>7

\* p maps S one to one onto T, and nodes to nodes with the same value.
Matches(f, h, S, T, p) ==
    /\ S \in SUBSET Nodes
    /\ T \in SUBSET Nodes
    /\ p \in [S -> T]
    /\ \A u, v \in S : p[u] = p[v] => u = v
    /\ \A v \in T : \E u \in S : p[u] = v
    /\ \A u \in S : h[p[u]] = f[u]

LEMMA MatchWithout ==
    ASSUME NEW f, NEW h, NEW S, NEW T, NEW p, Matches(f, h, S, T, p), NEW x \in S
    PROVE  Matches(f, h, S \ {x}, T \ {p[x]}, [u \in S \ {x} |-> p[u]])
<1> DEFINE R == S \ {x}
           q == [u \in R |-> p[u]]
<1>1. \A u \in R : q[u] = p[u] /\ u \in S /\ p[u] # p[x] /\ p[u] \in T
  BY DEF Matches
<1>2. q \in [R -> T \ {p[x]}]
  BY <1>1
<1>3. \A v \in T \ {p[x]} : \E u \in R : q[u] = v
  BY <1>1 DEF Matches
<1> QED BY <1>1, <1>2, <1>3 DEF Matches

LEMMA NodeSetsFinite ==
    ASSUME NEW S \in SUBSET Nodes
    PROVE  IsFiniteSet(S) /\ Cardinality(S) \in 0 .. N
<1>1. IsFiniteSet(Nodes) /\ Cardinality(Nodes) = N /\ N \in Nat
  BY SizeBelow, NAssumption DEF Nodes
<1>2. IsFiniteSet(S) /\ Cardinality(S) <= N
  BY <1>1, FS_Subset
<1>3. Cardinality(S) \in Nat
  BY <1>2, FS_CardinalityType
<1> QED BY <1>1, <1>2, <1>3

LEMMA SumCarries ==
    ASSUME NEW f \in Hashed, NEW h \in Hashed, NEW base \in Words,
           NEW S, NEW T, NEW p, Matches(f, h, S, T, p)
    PROVE  SumOf(f, S, base) = SumOf(h, T, base)
<1> DEFINE Fine(n) == \A A, B, q : Matches(f, h, A, B, q) /\ Cardinality(A) = n
                                   => SumOf(f, A, base) = SumOf(h, B, base)
           D == {n \in 0 .. N : Fine(n)}
<1>0. N \in Nat
  BY NAssumption
<1>1. 0 \in D
  <2> SUFFICES ASSUME NEW A, NEW B, NEW q, Matches(f, h, A, B, q), Cardinality(A) = 0
               PROVE  SumOf(f, A, base) = SumOf(h, B, base)
    BY <1>0
  <2>1. A = {}
    BY NodeSetsFinite, FS_EmptySet DEF Matches
  <2>2. B = {}
    BY <2>1 DEF Matches
  <2> QED BY <2>1, <2>2, SumEmpty
<1>2. ASSUME NEW n \in 1 .. N, n-1 \in D PROVE n \in D
  <2> SUFFICES ASSUME NEW A, NEW B, NEW q, Matches(f, h, A, B, q), Cardinality(A) = n
               PROVE  SumOf(f, A, base) = SumOf(h, B, base)
    OBVIOUS
  <2>1. IsFiniteSet(A)
    BY NodeSetsFinite DEF Matches
  <2>2. A # {}
    BY FS_EmptySet
  <2>3. PICK x \in A : TRUE
    BY <2>2
  <2>4. Cardinality(A \ {x}) = n-1
    BY <2>1, FS_RemoveElement
  <2>5. Matches(f, h, A \ {x}, B \ {q[x]}, [u \in A \ {x} |-> q[u]])
    BY MatchWithout
  <2>6. SumOf(f, A \ {x}, base) = SumOf(h, B \ {q[x]}, base)
    BY <1>2, <2>4, <2>5
  <2>7. x \in Nodes /\ q[x] \in B /\ q[x] \in Nodes /\ h[q[x]] = f[x]
    BY DEF Matches
  <2>8. SumOf(f, A, base) = Add32(SumOf(f, A \ {x}, base), f[x])
    BY <2>7, SumWithout
  <2>9. SumOf(h, B, base) = Add32(SumOf(h, B \ {q[x]}, base), h[q[x]])
    BY <2>7, SumWithout
  <2> QED BY <2>6, <2>7, <2>8, <2>9
<1>3. \A n \in 0 .. N : n \in D
  <2> HIDE DEF D
  <2> QED BY <1>0, <1>1, <1>2, UpTo
<1>4. Cardinality(S) \in 0 .. N
  BY NodeSetsFinite DEF Matches
<1> QED BY <1>3, <1>4

\* Sets with as many nodes of each class can be matched class by class.
LEMMA CountsMatch ==
    ASSUME NEW c \in [Nodes -> Nodes], NEW S \in SUBSET Nodes, NEW T \in SUBSET Nodes,
           \A d \in Nodes : Cardinality({w \in S : c[w] = d}) = Cardinality({w \in T : c[w] = d})
    PROVE  \E p : Matches(c, c, S, T, p)
<1> DEFINE A(d) == {w \in S : c[w] = d}
           B(d) == {w \in T : c[w] = d}
           OneToOne(d, b) == /\ b \in [A(d) -> B(d)]
                             /\ \A u, v \in A(d) : b[u] = b[v] => u = v
                             /\ \A v \in B(d) : \E u \in A(d) : b[u] = v
           pick == [d \in Nodes |-> CHOOSE b : OneToOne(d, b)]
           p == [w \in S |-> pick[c[w]][w]]
<1>1. ASSUME NEW d \in Nodes PROVE OneToOne(d, pick[d])
  <2>1. IsFiniteSet(A(d)) /\ IsFiniteSet(B(d)) /\ Cardinality(A(d)) = Cardinality(B(d))
    BY NodeSetsFinite
  <2>2. ExistsBijection(A(d), B(d))
    <3> HIDE DEF A, B
    <3> QED BY <2>1, FS_SameCardinalityBij
  <2>3. \E b : OneToOne(d, b)
    <3> HIDE DEF A, B
    <3> QED BY <2>2 DEF ExistsBijection, Bijection, Injection, Surjection, IsInjective
  <2> HIDE DEF OneToOne
  <2> QED BY <2>3
<1>2. ASSUME NEW w \in S
      PROVE  c[w] \in Nodes /\ w \in A(c[w]) /\ p[w] = pick[c[w]][w] /\ p[w] \in B(c[w])
  <2>1. c[w] \in Nodes /\ w \in A(c[w])
    OBVIOUS
  <2>2. OneToOne(c[w], pick[c[w]])
    <3> HIDE DEF OneToOne, pick
    <3> QED BY <1>1, <2>1
  <2>3. p[w] = pick[c[w]][w]
    <3> HIDE DEF pick
    <3> QED OBVIOUS
  <2> HIDE DEF pick, p, A, B
  <2> QED BY <2>1, <2>2, <2>3
<1>3. p \in [S -> T] /\ \A w \in S : c[p[w]] = c[w]
  <2>1. \A w \in S : p[w] \in T /\ c[p[w]] = c[w]
    <3> HIDE DEF p, pick
    <3> QED BY <1>2
  <2>2. p = [w \in S |-> p[w]]
    <3> HIDE DEF pick
    <3> QED OBVIOUS
  <2> HIDE DEF p
  <2> QED BY <2>1, <2>2
<1>4. ASSUME NEW u \in S, NEW v \in S, p[u] = p[v] PROVE u = v
  <2>1. c[u] = c[v]
    <3> HIDE DEF p
    <3> QED BY <1>3, <1>4
  <2>2. OneToOne(c[u], pick[c[u]]) /\ c[u] \in Nodes
    <3> HIDE DEF pick, OneToOne
    <3> QED BY <1>1
  <2>3. pick[c[u]][u] = pick[c[u]][v] /\ u \in A(c[u]) /\ v \in A(c[u])
    <3> HIDE DEF p, pick
    <3> QED BY <1>2, <1>4, <2>1
  <2> HIDE DEF pick, p, A, B
  <2> QED BY <2>2, <2>3
<1>5. ASSUME NEW v \in T PROVE \E u \in S : p[u] = v
  <2>1. c[v] \in Nodes /\ v \in B(c[v])
    OBVIOUS
  <2>2. OneToOne(c[v], pick[c[v]])
    <3> HIDE DEF pick, OneToOne
    <3> QED BY <1>1, <2>1
  <2>3. PICK u \in A(c[v]) : pick[c[v]][u] = v
    <3> HIDE DEF pick, A, B
    <3> QED BY <2>1, <2>2
  <2>4. u \in S /\ c[u] = c[v]
    OBVIOUS
  <2>5. p[u] = v
    <3> HIDE DEF pick, p
    <3> QED BY <1>2, <2>3, <2>4
  <2> QED BY <2>4, <2>5
<1> HIDE DEF p
<1>6. Matches(c, c, S, T, p)
  BY <1>3, <1>4, <1>5 DEF Matches
<1> QED BY <1>6

CountOf(f, S, d) == Cardinality({w \in S : f[w] = d})

LEMMA MatchCounts ==
    ASSUME NEW f, NEW h, NEW S, NEW T, NEW p, Matches(f, h, S, T, p), NEW d
    PROVE  CountOf(f, S, d) = CountOf(h, T, d)
<1> DEFINE A == {w \in S : f[w] = d}
           B == {w \in T : h[w] = d}
           q == [w \in A |-> p[w]]
<1>1. \A w \in A : q[w] = p[w] /\ p[w] \in B
  BY DEF Matches
<1>2. q \in [A -> B]
  BY <1>1
<1>3. q \in Injection(A, B)
  <2>1. \A u, v \in A : q[u] = q[v] => u = v
    BY <1>1 DEF Matches
  <2> HIDE DEF q, A, B
  <2> QED BY <1>2, <2>1 DEF Injection, IsInjective
<1>4. \A v \in B : \E u \in A : q[u] = v
  BY <1>1 DEF Matches
<1>5. q \in Surjection(A, B)
  <2> HIDE DEF q, A, B
  <2> QED BY <1>2, <1>4 DEF Surjection
<1>6. ExistsBijection(A, B)
  BY <1>3, <1>5 DEF ExistsBijection, Bijection
<1>7. IsFiniteSet(A)
  BY NodeSetsFinite DEF Matches
<1> HIDE DEF A, B, q
<1>8. Cardinality(A) = Cardinality(B)
  BY <1>6, <1>7, FS_Bijection
<1> QED BY <1>8 DEF A, B, CountOf

-----------------------------------------------------------------------------
(***************************************************************************)
(* The insertion sort.                                                     *)
(***************************************************************************)
\* t with x squeezed in at place p.
Squeezed(t, m, p, x) ==
    [j \in 1 .. m+1 |-> IF j < p THEN t[j] ELSE IF j = p THEN x ELSE t[j-1]]

LEMMA InsertedAt ==
    ASSUME NEW V, NEW m \in Nat, NEW s \in [1 .. m -> V], NEW x \in V, NEW p \in 1 .. m+1
    PROVE  InsertAt(s, p, x) = Squeezed(s, m, p, x)
<1> DEFINE a == SubSeq(s, 1, p-1)
           b == SubSeq(s, p, m)
           o == <<x>>
           r == (a \o o) \o b
<1>0. s \in Seq(V) /\ Len(s) = m
  <2> HIDE DEF a, b, o, r
  <2> QED BY SeqDef
<1>1. /\ a \in Seq(V)
      /\ Len(a) = p-1
      /\ \A i \in 1 .. p-1 : a[i] = s[i]
  <2>1. \A i \in 1 .. p-1 : s[i] \in V
    OBVIOUS
  <2>2. /\ a \in Seq(V)
        /\ Len(a) = IF 1 <= p-1 THEN (p-1)-1+1 ELSE 0
        /\ \A i \in 1 .. (p-1)-1+1 : a[i] = s[1+i-1]
    BY <2>1, SubSeqProperties
  <2> HIDE DEF a
  <2> QED BY <2>2
<1>2. /\ b \in Seq(V)
      /\ Len(b) = m-p+1
      /\ \A i \in 1 .. m-p+1 : b[i] = s[p+i-1]
  <2>1. \A i \in p .. m : s[i] \in V
    OBVIOUS
  <2>2. /\ b \in Seq(V)
        /\ Len(b) = IF p <= m THEN m-p+1 ELSE 0
        /\ \A i \in 1 .. m-p+1 : b[i] = s[p+i-1]
    BY <2>1, SubSeqProperties
  <2> HIDE DEF b
  <2> QED BY <2>2
<1>3. o \in Seq(V) /\ Len(o) = 1 /\ o[1] = x
  OBVIOUS
<1>4. InsertAt(s, p, x) = r
  BY <1>0 DEF InsertAt
<1> HIDE DEF a, b, o
<1> DEFINE c == a \o o
<1>5. /\ c \in Seq(V)
      /\ Len(c) = p
      /\ \A i \in 1 .. p : c[i] = IF i <= p-1 THEN a[i] ELSE o[i-(p-1)]
  <2>1. /\ c \in Seq(V)
        /\ Len(c) = Len(a) + Len(o)
        /\ \A i \in 1 .. Len(a) + Len(o) : c[i] = IF i <= Len(a) THEN a[i] ELSE o[i-Len(a)]
    BY <1>1, <1>3, ConcatProperties
  <2> HIDE DEF c
  <2> QED BY <1>1, <1>3, <2>1
<1> HIDE DEF c
<1>6. r = c \o b
  BY DEF c
<1> HIDE DEF r
<1>7. /\ r \in Seq(V)
      /\ Len(r) = m+1
      /\ \A i \in 1 .. m+1 : r[i] = IF i <= p THEN c[i] ELSE b[i-p]
  <2>1. /\ r \in Seq(V)
        /\ Len(r) = Len(c) + Len(b)
        /\ \A i \in 1 .. Len(c) + Len(b) : r[i] = IF i <= Len(c) THEN c[i] ELSE b[i-Len(c)]
    BY <1>2, <1>5, <1>6, ConcatProperties
  <2> QED BY <1>2, <1>5, <2>1
<1>8. ASSUME NEW j \in 1 .. m+1
      PROVE  r[j] = IF j < p THEN s[j] ELSE IF j = p THEN x ELSE s[j-1]
  <2>1. CASE j < p
    <3>1. j \in 1 .. p-1 /\ j \in 1 .. p /\ j <= p /\ j <= p-1
      BY <2>1
    <3> QED BY <1>1, <1>5, <1>7, <3>1
  <2>2. CASE j = p
    <3>1. j \in 1 .. p /\ ~(j <= p-1) /\ j-(p-1) = 1 /\ j <= p /\ ~(j < p)
      BY <2>2
    <3> QED BY <1>3, <1>5, <1>7, <2>2, <3>1
  <2>3. CASE j > p
    <3>1. j-p \in 1 .. m-p+1 /\ ~(j <= p) /\ p+(j-p)-1 = j-1 /\ ~(j < p) /\ j # p
      BY <2>3
    <3> QED BY <1>2, <1>7, <3>1
  <2> QED BY <2>1, <2>2, <2>3
<1>9. r = [j \in 1 .. m+1 |-> r[j]]
  BY <1>7, SeqDef
<1> QED BY <1>4, <1>8, <1>9 DEF Squeezed

\* An order of the nodes by a key.
Orders(less, key) ==
    /\ \A u, v \in Nodes : <<u, v>> \in less => <<v, u>> \notin less
    /\ \A u, v, w \in Nodes : <<u, v>> \in less /\ <<v, w>> \in less => <<u, w>> \in less
    /\ \A u, v \in Nodes : (<<u, v>> \notin less /\ <<v, u>> \notin less) <=> key[u] = key[v]
    /\ \A u, v, w \in Nodes : key[v] = key[w] =>
          /\ <<u, v>> \in less <=> <<u, w>> \in less
          /\ <<v, u>> \in less <=> <<w, u>> \in less

Item(key, u) == [key |-> key[u], node |-> u]

Items(key, t, m) == [j \in 1 .. m |-> Item(key, t[j])]

\* The first m nodes, each once, none behind one it is less than.
SortedNodes(less, t, m) ==
    /\ t \in [1 .. m -> 0 .. m-1]
    /\ \A i, j \in 1 .. m : t[i] = t[j] => i = j
    /\ \A u \in 0 .. m-1 : \E j \in 1 .. m : t[j] = u
    /\ \A i, j \in 1 .. m : i < j => <<t[j], t[i]>> \notin less

\* What is not less than one node, is not less than any before it.
LEMMA NotLessThanBefore ==
    ASSUME NEW less, NEW key, Orders(less, key), NEW u \in Nodes, NEW v \in Nodes, NEW w \in Nodes,
           <<u, v>> \notin less, <<v, w>> \notin less
    PROVE  <<u, w>> \notin less
BY DEF Orders

LEMMA MaxOfInterval ==
    ASSUME NEW m \in Nat, NEW D \in SUBSET (1 .. m)
    PROVE  /\ Max({0} \cup D) \in 0 .. m
           /\ Max({0} \cup D) = 0 \/ Max({0} \cup D) \in D
           /\ \A j \in D : j <= Max({0} \cup D)
<1> DEFINE E == {0} \cup D
<1>1. E \subseteq 0 .. m /\ E # {}
  OBVIOUS
<1>2. \E x \in E : \A y \in E : x >= y
  <2>1. PICK x \in E : \A y \in E : y <= x
    <3> HIDE DEF E
    <3> QED BY <1>1, HasGreatest
  <2>2. \A y \in E : x >= y
    <3> HIDE DEF E
    <3> QED BY <1>1, <2>1
  <2> QED BY <2>2
<1>3. Max(E) \in E /\ \A y \in E : Max(E) >= y
  <2> HIDE DEF E
  <2> QED BY <1>2 DEF Max
<1> DEFINE x == Max(E)
<1>4. x \in E /\ \A y \in E : x >= y
  BY <1>3
<1> HIDE DEF x
<1> QED BY <1>1, <1>4 DEF x

LEMMA ItemsSqueezed ==
    ASSUME NEW key, NEW m \in Nat, NEW V, NEW t \in [1 .. m -> V], NEW p \in 1 .. m+1, NEW x \in V
    PROVE  InsertAt(Items(key, t, m), p, Item(key, x)) = Items(key, Squeezed(t, m, p, x), m+1)
<1> DEFINE W == {Item(key, v) : v \in V}
           s == Items(key, t, m)
           i == Item(key, x)
           q == Squeezed(t, m, p, x)
<1>1. s \in [1 .. m -> W] /\ i \in W /\ \A j \in 1 .. m : s[j] = Item(key, t[j])
  BY DEF Items
<1>2. InsertAt(s, p, i) = Squeezed(s, m, p, i)
  <2> HIDE DEF s, i, W
  <2> QED BY <1>1, InsertedAt
<1>3. ASSUME NEW j \in 1 .. m+1
      PROVE  (IF j < p THEN s[j] ELSE IF j = p THEN i ELSE s[j-1]) = Item(key, q[j])
  <2>1. q[j] = IF j < p THEN t[j] ELSE IF j = p THEN x ELSE t[j-1]
    BY DEF Squeezed
  <2>2. CASE j < p
    <3>1. j \in 1 .. m
      BY <2>2
    <3> HIDE DEF s, q
    <3> QED BY <1>1, <2>1, <2>2, <3>1
  <2>3. CASE j = p
    <3>1. ~(j < p)
      BY <2>3
    <3> HIDE DEF s, q
    <3> QED BY <2>1, <2>3, <3>1
  <2>4. CASE j > p
    <3>1. j-1 \in 1 .. m /\ ~(j < p) /\ j # p
      BY <2>4
    <3> HIDE DEF s, q
    <3> QED BY <1>1, <2>1, <3>1
  <2> QED BY <2>2, <2>3, <2>4
<1>4. Items(key, q, m+1) = [j \in 1 .. m+1 |-> Item(key, q[j])]
  BY DEF Items
<1> HIDE DEF s, i, q
<1>5. InsertAt(s, p, i) = Items(key, q, m+1)
  BY <1>2, <1>3, <1>4 DEF Squeezed
<1> QED BY <1>5 DEF s, i, q

LEMMA InsertedSorted ==
    ASSUME NEW less, NEW key, Orders(less, key), NEW m \in 0 .. N-1, NEW t, SortedNodes(less, t, m),
           NEW p, p = 1 + Max({0} \cup {j \in 1 .. m : <<m, t[j]>> \notin less})
    PROVE  p \in 1 .. m+1 /\ SortedNodes(less, Squeezed(t, m, p, m), m+1)
<1> DEFINE D == {j \in 1 .. m : <<m, t[j]>> \notin less}
           x == Max({0} \cup D)
           q == Squeezed(t, m, p, m)
<1>1. x \in 0 .. m /\ (x = 0 \/ x \in D) /\ \A j \in D : j <= x
  <2>1. m \in Nat /\ D \in SUBSET (1 .. m)
    BY NAssumption
  <2> HIDE DEF D
  <2> QED BY <2>1, MaxOfInterval
<1>2. m \in Nat /\ m <= N-1 /\ p = x+1 /\ p \in 1 .. m+1 /\ Nodes = 0 .. N-1 /\ N \in Nat /\ m \in Nodes
  BY <1>1, NAssumption DEF Nodes
<1>3. /\ t \in [1 .. m -> 0 .. m-1]
      /\ \A i, j \in 1 .. m : t[i] = t[j] => i = j
      /\ \A u \in 0 .. m-1 : \E j \in 1 .. m : t[j] = u
      /\ \A i, j \in 1 .. m : i < j => <<t[j], t[i]>> \notin less
  BY DEF SortedNodes
<1>4. \A j \in 1 .. m : t[j] \in 0 .. m-1 /\ t[j] \in Nodes /\ t[j] # m
  BY <1>2, <1>3
<1> DEFINE from(j) == IF j < p THEN j ELSE j-1
<1>5. \A j \in 1 .. m+1 : j # p => from(j) \in 1 .. m /\ q[j] = t[from(j)]
  BY <1>2 DEF Squeezed
<1>6. q[p] = m
  BY <1>2 DEF Squeezed
<1>7. \A j \in 1 .. m+1 : j = p \/ (j # p /\ q[j] = t[from(j)] /\ from(j) \in 1 .. m)
  <2> HIDE DEF q, from
  <2> QED BY <1>5
<1>8. q \in [1 .. m+1 -> 0 .. (m+1)-1]
  <2>1. q = [j \in 1 .. m+1 |-> q[j]]
    BY DEF Squeezed
  <2>2. \A j \in 1 .. m+1 : q[j] \in 0 .. (m+1)-1
    <3> HIDE DEF q, from
    <3> QED BY <1>2, <1>4, <1>6, <1>7
  <2> HIDE DEF q
  <2> QED BY <2>1, <2>2
<1>9. \A i, j \in 1 .. m+1 : q[i] = q[j] => i = j
  <2> TAKE i, j \in 1 .. m+1
  <2> HAVE q[i] = q[j]
  <2>1. CASE i = p \/ j = p
    <3> HIDE DEF q, from
    <3> QED BY <1>4, <1>6, <1>7, <2>1
  <2>2. CASE i # p /\ j # p
    <3>1. from(i) = from(j)
      <4> HIDE DEF q, from
      <4> QED BY <1>3, <1>5, <2>2
    <3> QED BY <1>2, <2>2, <3>1
  <2> QED BY <2>1, <2>2
<1>10. \A u \in 0 .. (m+1)-1 : \E j \in 1 .. m+1 : q[j] = u
  <2> TAKE u \in 0 .. (m+1)-1
  <2>1. CASE u = m
    BY <1>2, <1>6, <2>1
  <2>2. CASE u # m
    <3>1. u \in 0 .. m-1
      BY <1>2, <2>2
    <3>2. PICK i \in 1 .. m : t[i] = u
      BY <1>3, <3>1
    <3> DEFINE j == IF i < p THEN i ELSE i+1
    <3>3. j \in 1 .. m+1 /\ j # p /\ from(j) = i
      BY <1>2
    <3> HIDE DEF j, q, from
    <3> QED BY <1>5, <3>2, <3>3
  <2> QED BY <2>1, <2>2
<1>11. \A i, j \in 1 .. m+1 : i < j => <<q[j], q[i]>> \notin less
  <2> TAKE i, j \in 1 .. m+1
  <2> HAVE i < j
  <2>1. CASE i # p /\ j # p
    <3>1. from(i) < from(j)
      BY <1>2, <2>1
    <3> HIDE DEF q, from
    <3> QED BY <1>3, <1>5, <2>1, <3>1
  <2>2. CASE i = p
    <3>1. j # p /\ from(j) \in 1 .. m /\ from(j) > x /\ q[j] = t[from(j)]
      <4>1. j # p /\ from(j) > x
        <5> HIDE DEF x
        <5> QED BY <1>1, <1>2, <2>2
      <4> HIDE DEF q, from
      <4> QED BY <1>5, <4>1
    <3>2. from(j) \notin D
      <4> HIDE DEF q, from, x, D
      <4>1. from(j) \in Int /\ x \in Int
        BY <1>1, <1>2, <3>1
      <4> QED BY <1>1, <3>1, <4>1
    <3>3. <<m, q[j]>> \in less
      <4> HIDE DEF q, from, x
      <4> QED BY <3>1, <3>2
    <3>4. q[j] \in Nodes
      <4> HIDE DEF q, from
      <4> QED BY <1>4, <3>1
    <3> HIDE DEF q, from, x, D
    <3> QED BY <1>2, <1>6, <2>2, <3>3, <3>4 DEF Orders
  <2>3. CASE j = p
    <3>1. i # p /\ i \in 1 .. m /\ i <= x /\ from(i) = i /\ x # 0
      BY <1>1, <1>2, <2>3
    <3>2. q[i] = t[i]
      <4> HIDE DEF q, from
      <4> QED BY <1>5, <3>1
    <3>3. x \in 1 .. m /\ <<m, t[x]>> \notin less
      <4> HIDE DEF x
      <4> QED BY <1>1, <3>1
    <3>4. i = x \/ <<t[x], t[i]>> \notin less
      <4> HIDE DEF x
      <4>1. i = x \/ i < x
        BY <3>1, <3>3
      <4> QED BY <1>3, <3>1, <3>3, <4>1
    <3>5. t[x] \in Nodes /\ t[i] \in Nodes
      <4> HIDE DEF x
      <4> QED BY <1>4, <3>1, <3>3
    <3>6. <<m, t[i]>> \notin less
      <4> HIDE DEF x
      <4> QED BY <1>2, <3>3, <3>4, <3>5, NotLessThanBefore
    <3> HIDE DEF q
    <3> QED BY <1>6, <2>3, <3>2, <3>6
  <2> QED BY <2>1, <2>2, <2>3
<1> HIDE DEF q
<1>12. SortedNodes(less, q, m+1)
  BY <1>8, <1>9, <1>10, <1>11 DEF SortedNodes
<1> QED BY <1>2, <1>12 DEF q

(***************************************************************************)
(* A run of insertions of the nodes in their order sorts them.             *)
(***************************************************************************)
LEMMA InsertionSorts ==
    ASSUME NEW less, NEW key, Orders(less, key), NEW a, a[0] = <<>>,
           \A i \in 1 .. N : \A t \in [1 .. i-1 -> Nodes] :
              a[i-1] = Items(key, t, i-1) =>
                 a[i] = InsertAt(a[i-1],
                                 1 + Max({0} \cup {j \in 1 .. i-1 : <<i-1, t[j]>> \notin less}),
                                 Item(key, i-1))
    PROVE  \E t : SortedNodes(less, t, N) /\ a[N] = Items(key, t, N)
<1> DEFINE Done(i) == \E t : SortedNodes(less, t, i) /\ a[i] = Items(key, t, i)
           T == {i \in 0 .. N : Done(i)}
<1>0. N \in Nat /\ Nodes = 0 .. N-1
  BY NAssumption DEF Nodes
<1>1. 0 \in T
  <2> DEFINE t == <<>>
  <2>1. SortedNodes(less, t, 0) /\ Items(key, t, 0) = <<>>
    BY DEF SortedNodes, Items
  <2> HIDE DEF t
  <2>2. Done(0)
    BY <2>1
  <2> QED BY <1>0, <2>2
<1>2. ASSUME NEW i \in 1 .. N, i-1 \in T PROVE i \in T
  <2> DEFINE m == i-1
  <2>1. PICK t : SortedNodes(less, t, m) /\ a[m] = Items(key, t, m)
    BY <1>2
  <2> DEFINE p == 1 + Max({0} \cup {j \in 1 .. m : <<m, t[j]>> \notin less})
             q == Squeezed(t, m, p, m)
  <2>2. m \in 0 .. N-1 /\ m \in Nat /\ m \in Nodes /\ i = m+1 /\ 0 .. m-1 \subseteq Nodes
    BY <1>0
  <2>3. t \in [1 .. m -> Nodes]
    <3> HIDE DEF m
    <3> QED BY <2>1, <2>2 DEF SortedNodes
  <2>4. a[i] = InsertAt(a[m], p, Item(key, m))
    BY <2>1, <2>3
  <2>5. p \in 1 .. m+1 /\ SortedNodes(less, q, m+1)
    <3> DEFINE r == p
    <3>1. r = 1 + Max({0} \cup {j \in 1 .. m : <<m, t[j]>> \notin less})
      OBVIOUS
    <3> HIDE DEF r, m
    <3>2. r \in 1 .. m+1 /\ SortedNodes(less, Squeezed(t, m, r, m), m+1)
      BY <2>1, <2>2, <3>1, InsertedSorted
    <3> QED BY <3>2 DEF r
  <2>6. a[i] = Items(key, q, m+1)
    <3> HIDE DEF m, p
    <3> QED BY <2>1, <2>2, <2>3, <2>4, <2>5, ItemsSqueezed
  <2> HIDE DEF q, p, m
  <2>7. Done(i)
    BY <2>2, <2>5, <2>6
  <2> QED BY <2>7
<1>3. \A i \in 0 .. N : i \in T
  <2> HIDE DEF T
  <2> QED BY <1>0, <1>1, <1>2, UpTo
<1>4. N \in T
  BY <1>0, <1>3
<1> QED BY <1>4

-----------------------------------------------------------------------------
(***************************************************************************)
(* Both keys order the nodes.                                              *)
(***************************************************************************)
LEMMA BelowOrders ==
    ASSUME NEW key \in Hashed
    PROVE  Orders({e \in Nodes \X Nodes : Below(key[e[1]], key[e[2]])}, key)
<1> DEFINE less == {e \in Nodes \X Nodes : Below(key[e[1]], key[e[2]])}
<1>1. \A u, v \in Nodes : <<u, v>> \in less <=> Below(key[u], key[v])
  OBVIOUS
<1>2. \A u \in Nodes : key[u][1] \in Nat /\ key[u][2] \in Nat /\ key[u] = <<key[u][1], key[u][2]>>
  <2> TAKE u \in Nodes
  <2>1. key[u] \in Words
    BY DEF Hashed
  <2> QED BY <2>1, WordParts, HalfSize
<1> HIDE DEF less
<1>3. \A u, v \in Nodes : <<u, v>> \in less => <<v, u>> \notin less
  BY <1>1, <1>2 DEF Below
<1>4. \A u, v, w \in Nodes : <<u, v>> \in less /\ <<v, w>> \in less => <<u, w>> \in less
  BY <1>1, <1>2 DEF Below
<1>5. ASSUME NEW u \in Nodes, NEW v \in Nodes
      PROVE  (<<u, v>> \notin less /\ <<v, u>> \notin less) <=> key[u] = key[v]
  <2>1. <<u, v>> \notin less /\ <<v, u>> \notin less
           <=> key[u][1] = key[v][1] /\ key[u][2] = key[v][2]
    BY <1>1, <1>2 DEF Below
  <2>2. key[u][1] = key[v][1] /\ key[u][2] = key[v][2] => key[u] = key[v]
    <3> HAVE key[u][1] = key[v][1] /\ key[u][2] = key[v][2]
    <3>1. key[u] = <<key[u][1], key[u][2]>> /\ key[v] = <<key[v][1], key[v][2]>>
      BY <1>2
    <3>2. <<key[u][1], key[u][2]>> = <<key[v][1], key[v][2]>>
      OBVIOUS
    <3> QED BY <3>1, <3>2, Zenon
  <2> QED BY <2>1, <2>2
<1>6. \A u, v, w \in Nodes : key[v] = key[w] =>
         /\ <<u, v>> \in less <=> <<u, w>> \in less
         /\ <<v, u>> \in less <=> <<w, u>> \in less
  BY <1>1
<1>7. Orders(less, key)
  BY <1>3, <1>4, <1>5, <1>6 DEF Orders
<1> QED BY <1>7 DEF less

Counts == [Nodes -> Nat]

\* At c, the sequence of x goes on with a smaller color than that of y, or has ended.
Ahead(x, y, c) ==
    /\ \A d \in 0 .. c-1 : x[d] = y[d]
    /\ \/ /\ x[c] > y[c]
          /\ \E d \in c+1 .. N-1 : y[d] > 0
       \/ /\ x[c] < y[c]
          /\ \A d \in c+1 .. N-1 : x[d] = 0

LEMMA AheadOnce ==
    ASSUME NEW x \in Counts, NEW y \in Counts, NEW c \in Nodes, NEW d \in Nodes,
           Ahead(x, y, c), Ahead(y, x, d)
    PROVE  FALSE
<1>1. c \in 0 .. N-1 /\ d \in 0 .. N-1 /\ N \in Nat /\ Nodes = 0 .. N-1
  BY NAssumption DEF Nodes
<1>2. \A e \in Nodes : x[e] \in Nat /\ y[e] \in Nat
  BY DEF Counts
<1>3. ~(c < d)
  BY <1>1, <1>2 DEF Ahead
<1>4. ~(d < c)
  BY <1>1, <1>2 DEF Ahead
<1>5. c = d
  BY <1>1, <1>3, <1>4
<1>6. (\E e \in c+1 .. N-1 : y[e] > 0) => ~(\A e \in c+1 .. N-1 : y[e] = 0)
  BY <1>1, <1>2
<1>7. (\E e \in c+1 .. N-1 : x[e] > 0) => ~(\A e \in c+1 .. N-1 : x[e] = 0)
  BY <1>1, <1>2
<1>8. x[c] \in Nat /\ y[c] \in Nat
  BY <1>2
<1> QED BY <1>5, <1>6, <1>7, <1>8 DEF Ahead

LEMMA AheadOfAhead ==
    ASSUME NEW x \in Counts, NEW y \in Counts, NEW z \in Counts, NEW c \in Nodes, NEW d \in Nodes,
           Ahead(x, y, c), Ahead(y, z, d)
    PROVE  \E e \in Nodes : Ahead(x, z, e)
<1>1. c \in 0 .. N-1 /\ d \in 0 .. N-1 /\ N \in Nat /\ Nodes = 0 .. N-1
  BY NAssumption DEF Nodes
<1>2. \A e \in Nodes : x[e] \in Nat /\ y[e] \in Nat /\ z[e] \in Nat
  BY DEF Counts
<1>3. CASE c < d
  <2>1. z[c] = y[c] /\ \A e \in 0 .. c-1 : x[e] = z[e]
    BY <1>1, <1>3 DEF Ahead
  <2>2. z[c] < x[c] => \E e \in c+1 .. N-1 : z[e] > 0
    <3> HAVE z[c] < x[c]
    <3>1. PICK e \in c+1 .. N-1 : y[e] > 0
      BY <1>1, <1>2, <2>1 DEF Ahead
    <3>2. CASE e < d
      BY <1>1, <1>2, <3>1, <3>2 DEF Ahead
    <3>3. CASE z[d] > 0
      BY <1>1, <1>3, <3>3
    <3>4. CASE z[d] = 0 /\ e >= d
      <4>1. y[d] > z[d] => \E f \in d+1 .. N-1 : z[f] > 0
        BY <1>1, <1>2 DEF Ahead
      <4>2. y[d] \in Nat /\ z[d] \in Nat
        BY <1>2
      <4>3. CASE y[d] > 0
        BY <1>1, <1>3, <3>4, <4>1, <4>3
      <4>4. CASE y[d] = 0
        BY <3>4, <4>4 DEF Ahead
      <4> QED BY <4>2, <4>3, <4>4
    <3> QED BY <1>1, <1>2, <3>2, <3>3, <3>4
  <2>3. x[c] > z[c] \/ (x[c] < z[c] /\ \A e \in c+1 .. N-1 : x[e] = 0)
    BY <1>2, <2>1 DEF Ahead
  <2>4. Ahead(x, z, c)
    BY <1>2, <2>1, <2>2, <2>3 DEF Ahead
  <2> QED BY <2>4
<1>4. CASE d < c
  <2>1. y[d] = x[d] /\ \A e \in 0 .. d-1 : x[e] = z[e]
    BY <1>1, <1>4 DEF Ahead
  <2>2. y[d] < z[d] => \A e \in d+1 .. N-1 : x[e] = 0
    <3> SUFFICES ASSUME y[d] < z[d], NEW e \in d+1 .. N-1 PROVE x[e] = 0
      OBVIOUS
    <3>1. \A f \in d+1 .. N-1 : y[f] = 0
      BY <1>2 DEF Ahead
    <3>2. CASE e < c
      BY <1>1, <1>2, <3>1, <3>2 DEF Ahead
    <3>3. y[c] = 0 /\ \A f \in c+1 .. N-1 : y[f] = 0
      BY <1>1, <1>4, <3>1
    <3>4. FALSE \/ ~(x[c] < y[c])
      BY <1>2, <3>3
    <3>5. ~(\E f \in c+1 .. N-1 : y[f] > 0)
      BY <1>2, <3>3
    <3> QED BY <3>4, <3>5 DEF Ahead
  <2>3. (x[d] > z[d] /\ \E e \in d+1 .. N-1 : z[e] > 0) \/ x[d] < z[d]
    BY <1>2, <2>1 DEF Ahead
  <2>4. Ahead(x, z, d)
    BY <1>2, <2>1, <2>2, <2>3 DEF Ahead
  <2> QED BY <2>4
<1>5. CASE c = d
  <2>1. \A e \in 0 .. c-1 : x[e] = z[e]
    BY <1>1, <1>5 DEF Ahead
  <2>2. x[c] \in Nat /\ y[c] \in Nat /\ z[c] \in Nat
    BY <1>2
  <2>3. CASE x[c] > y[c] /\ y[c] > z[c]
    BY <1>5, <2>1, <2>2, <2>3 DEF Ahead
  <2>4. CASE x[c] > y[c] /\ ~(y[c] > z[c])
    <3>1. (\A e \in c+1 .. N-1 : y[e] = 0) /\ \E e \in c+1 .. N-1 : y[e] > 0
      BY <1>5, <2>2, <2>4 DEF Ahead
    <3> QED BY <3>1
  <2>5. CASE ~(x[c] > y[c]) /\ ~(y[c] > z[c])
    BY <1>5, <2>1, <2>2, <2>5 DEF Ahead
  <2>6. CASE ~(x[c] > y[c]) /\ y[c] > z[c]
    <3>1. (\A e \in c+1 .. N-1 : x[e] = 0) /\ \E e \in c+1 .. N-1 : z[e] > 0
      BY <1>5, <2>2, <2>6 DEF Ahead
    <3>2. x[c] < z[c] \/ x[c] > z[c] \/ x[c] = z[c]
      BY <2>2
    <3>3. CASE x[c] # z[c]
      BY <2>1, <3>1, <3>2, <3>3 DEF Ahead
    <3>4. CASE x[c] = z[c]
      <4> DEFINE S == {e \in c+1 .. N-1 : z[e] > 0}
      <4>1. S \subseteq Nat /\ S # {}
        BY <1>1, <3>1
      <4>2. PICK f \in S : \A e \in S : f <= e
        <5> HIDE DEF S
        <5> QED BY <4>1, HasLeast
      <4>3. f \in Nodes /\ z[f] > 0 /\ x[f] = 0 /\ f \in c+1 .. N-1
        BY <1>1, <3>1
      <4>4. \A e \in c+1 .. f-1 : z[e] = 0
        <5> TAKE e \in c+1 .. f-1
        <5>1. e \in c+1 .. N-1 /\ e \in Nodes /\ ~(f <= e)
          BY <1>1, <4>3
        <5>2. ~(z[e] > 0)
          BY <4>2, <5>1
        <5> QED BY <1>2, <5>1, <5>2
      <4>5. \A e \in 0 .. f-1 : x[e] = z[e]
        <5> TAKE e \in 0 .. f-1
        <5>1. e \in 0 .. c-1 \/ e = c \/ e \in c+1 .. f-1
          BY <1>1, <4>3
        <5>2. e \in c+1 .. f-1 => e \in c+1 .. N-1
          BY <1>1, <4>3
        <5> QED BY <2>1, <3>1, <3>4, <4>4, <5>1, <5>2
      <4>6. \A e \in f+1 .. N-1 : x[e] = 0
        BY <1>1, <3>1, <4>3
      <4>7. Ahead(x, z, f)
        BY <4>3, <4>5, <4>6 DEF Ahead
      <4> QED BY <4>3, <4>7
    <3> QED BY <3>3, <3>4
  <2> QED BY <2>3, <2>4, <2>5, <2>6
<1> QED BY <1>1, <1>3, <1>4, <1>5

LEMMA AheadOrSame ==
    ASSUME NEW x \in Counts, NEW y \in Counts, x # y
    PROVE  \E c \in Nodes : Ahead(x, y, c) \/ Ahead(y, x, c)
<1> DEFINE S == {c \in Nodes : x[c] # y[c]}
<1>1. N \in Nat /\ Nodes = 0 .. N-1 /\ \A e \in Nodes : x[e] \in Nat /\ y[e] \in Nat
  BY NAssumption DEF Nodes, Counts
<1>2. S # {}
  <2> SUFFICES ASSUME \A c \in Nodes : x[c] = y[c] PROVE x = y
    OBVIOUS
  <2> QED BY DEF Counts
<1>3. S \subseteq Nat
  BY <1>1
<1>4. PICK c \in S : \A d \in S : c <= d
  <2> HIDE DEF S
  <2> QED BY <1>2, <1>3, HasLeast
<1>5. \A d \in 0 .. c-1 : x[d] = y[d]
  <2> TAKE d \in 0 .. c-1
  <2>1. d \in Nodes /\ ~(c <= d)
    BY <1>1
  <2> QED BY <1>4, <2>1
<1>6. x[c] < y[c] \/ y[c] < x[c]
  BY <1>1
<1>7. (\A d \in c+1 .. N-1 : x[d] = 0) \/ \E d \in c+1 .. N-1 : x[d] > 0
  <2>1. \A d \in c+1 .. N-1 : x[d] \in Nat
    BY <1>1
  <2> QED BY <2>1
<1>8. (\A d \in c+1 .. N-1 : y[d] = 0) \/ \E d \in c+1 .. N-1 : y[d] > 0
  <2>1. \A d \in c+1 .. N-1 : y[d] \in Nat
    BY <1>1
  <2> QED BY <2>1
<1>9. c \in Nodes /\ x[c] \in Nat /\ y[c] \in Nat
  BY <1>1
<1>10. Ahead(x, y, c) \/ Ahead(y, x, c)
  BY <1>5, <1>6, <1>7, <1>8, <1>9 DEF Ahead
<1> QED BY <1>9, <1>10

LEMMA FingerprintParts ==
    ASSUME NEW g, NEW k \in Colorings, NEW u \in Nodes, g[u] \in SUBSET Nodes
    PROVE  /\ Fingerprint(g, k, u).own = k.color[u]
           /\ Fingerprint(g, k, u).own \in Int
           /\ Fingerprint(g, k, u).count \in Counts
           /\ \A c \in Nodes : Fingerprint(g, k, u).count[c]
                                 = Cardinality({v \in g[u] : k.color[v] = c})
           /\ Fingerprint(g, k, u) = [own |-> Fingerprint(g, k, u).own,
                                      count |-> Fingerprint(g, k, u).count]
<1>1. k.color[u] \in Int
  BY ColorsAreInts
<1>2. ASSUME NEW c \in Nodes PROVE Cardinality({v \in g[u] : k.color[v] = c}) \in Nat
  <2>1. {v \in g[u] : k.color[v] = c} \in SUBSET Nodes
    OBVIOUS
  <2> QED BY <2>1, NodeSetsFinite
<1> QED BY <1>1, <1>2 DEF Fingerprint, Counts

LEMMA FingerprintsOrder ==
    ASSUME NEW g \in [Nodes -> SUBSET Nodes], NEW k \in Colorings,
           NEW key, key = [u \in Nodes |-> Fingerprint(g, k, u)]
    PROVE  Orders({e \in Nodes \X Nodes : FingerprintBelow(key[e[1]], key[e[2]])}, key)
<1> DEFINE less == {e \in Nodes \X Nodes : FingerprintBelow(key[e[1]], key[e[2]])}
           own(u) == key[u].own
           count(u) == key[u].count
<1>1. \A u \in Nodes : /\ own(u) \in Int
                       /\ count(u) \in Counts
                       /\ key[u] = [own |-> own(u), count |-> count(u)]
  <2> TAKE u \in Nodes
  <2>1. key[u] = Fingerprint(g, k, u) /\ g[u] \in SUBSET Nodes
    OBVIOUS
  <2> QED BY <2>1, FingerprintParts
<1>2. ASSUME NEW u \in Nodes, NEW v \in Nodes
      PROVE  <<u, v>> \in less <=>
                \/ own(u) < own(v)
                \/ own(u) = own(v) /\ \E c \in Nodes : Ahead(count(u), count(v), c)
  <2>1. <<u, v>> \in less <=> FingerprintBelow(key[u], key[v])
    OBVIOUS
  <2>2. FingerprintBelow(key[u], key[v]) <=>
           \/ own(u) < own(v)
           \/ own(u) = own(v) /\ \E c \in Nodes : Ahead(count(u), count(v), c)
    <3> HIDE DEF less
    <3> QED BY DEF FingerprintBelow, Ahead
  <2> QED BY <2>1, <2>2
<1> HIDE DEF less, own, count
<1>3. \A u, v \in Nodes : <<u, v>> \in less => <<v, u>> \notin less
  <2> TAKE u, v \in Nodes
  <2>1. ~((\E c \in Nodes : Ahead(count(u), count(v), c))
            /\ \E c \in Nodes : Ahead(count(v), count(u), c))
    BY <1>1, AheadOnce
  <2> QED BY <1>1, <1>2, <2>1
<1>4. \A u, v, w \in Nodes : <<u, v>> \in less /\ <<v, w>> \in less => <<u, w>> \in less
  <2> TAKE u, v, w \in Nodes
  <2>1. (\E c \in Nodes : Ahead(count(u), count(v), c))
          /\ (\E c \in Nodes : Ahead(count(v), count(w), c))
        => \E c \in Nodes : Ahead(count(u), count(w), c)
    BY <1>1, AheadOfAhead
  <2>2. own(u) \in Int /\ own(v) \in Int /\ own(w) \in Int
    BY <1>1
  <2> QED BY <1>2, <2>1, <2>2
<1>5. ASSUME NEW u \in Nodes, NEW v \in Nodes
      PROVE  (<<u, v>> \notin less /\ <<v, u>> \notin less) <=> key[u] = key[v]
  <2>1. own(u) \in Int /\ own(v) \in Int /\ count(u) \in Counts /\ count(v) \in Counts
    BY <1>1
  <2>2. ASSUME key[u] = key[v] PROVE <<u, v>> \notin less /\ <<v, u>> \notin less
    <3>1. own(u) = own(v) /\ count(u) = count(v)
      BY <2>2 DEF own, count
    <3>2. \A c \in Nodes : ~Ahead(count(u), count(u), c)
      BY <2>1, AheadOnce
    <3> QED BY <1>2, <2>1, <3>1, <3>2
  <2>3. ASSUME <<u, v>> \notin less, <<v, u>> \notin less PROVE key[u] = key[v]
    <3>1. own(u) = own(v)
      BY <1>2, <2>1, <2>3
    <3>2. ~(\E c \in Nodes : Ahead(count(u), count(v), c) \/ Ahead(count(v), count(u), c))
      BY <1>2, <2>3, <3>1
    <3>3. count(u) = count(v)
      BY <2>1, <3>2, AheadOrSame
    <3> QED BY <1>1, <3>1, <3>3
  <2> QED BY <2>2, <2>3
<1>6. \A u, v, w \in Nodes : key[v] = key[w] =>
         /\ <<u, v>> \in less <=> <<u, w>> \in less
         /\ <<v, u>> \in less <=> <<w, u>> \in less
  <2> TAKE u, v, w \in Nodes
  <2> HAVE key[v] = key[w]
  <2>1. own(v) = own(w) /\ count(v) = count(w)
    BY DEF own, count
  <2> QED BY <1>2, <2>1
<1>7. Orders(less, key)
  BY <1>3, <1>4, <1>5, <1>6 DEF Orders
<1> QED BY <1>7 DEF less

-----------------------------------------------------------------------------
(***************************************************************************)
(* Both sorts.                                                             *)
(***************************************************************************)
LEMMA InsertedStays ==
    ASSUME NEW I, NEW s \in Seq(I), NEW x \in I, NEW D \in SUBSET (1 .. Len(s))
    PROVE  InsertAt(s, 1 + Max({0} \cup D), x) \in Seq(I)
<1> DEFINE m == Len(s)
           p == 1 + Max({0} \cup D)
           q == Squeezed(s, m, p, x)
<1>1. m \in Nat /\ s \in [1 .. m -> I]
  BY LenProperties
<1>2. p \in 1 .. m+1
  <2> DEFINE b == Max({0} \cup D)
  <2>1. b \in 0 .. m
    <3> HIDE DEF b
    <3>1. D \in SUBSET (1 .. m)
      OBVIOUS
    <3> HIDE DEF m
    <3> QED BY <1>1, <3>1, MaxOfInterval DEF b
  <2>2. p = 1 + b
    OBVIOUS
  <2> HIDE DEF b, p, m
  <2> QED BY <1>1, <2>1, <2>2
<1>3. InsertAt(s, p, x) = q
  <2> HIDE DEF m, p
  <2> QED BY <1>1, <1>2, InsertedAt
<1>4. q \in [1 .. m+1 -> I]
  <2> HIDE DEF m, p
  <2>1. ASSUME NEW j \in 1 .. m+1
        PROVE  (IF j < p THEN s[j] ELSE IF j = p THEN x ELSE s[j-1]) \in I
    <3>1. j < p => j \in 1 .. m
      BY <1>1, <1>2
    <3>2. j > p => j-1 \in 1 .. m
      BY <1>1, <1>2
    <3>3. j < p \/ j = p \/ j > p
      BY <1>1, <1>2
    <3> QED BY <1>1, <3>1, <3>2, <3>3
  <2> QED BY <2>1 DEF Squeezed
<1> HIDE DEF p, q
<1>5. m+1 \in Nat
  BY <1>1
<1> HIDE DEF m
<1>6. q \in Seq(I)
  BY <1>4, <1>5, SeqDef
<1> QED BY <1>3, <1>6 DEF p

LEMMA HashesSorted ==
    ASSUME NEW key \in Hashed
    PROVE  \E t : /\ SortedNodes({e \in Nodes \X Nodes : Below(key[e[1]], key[e[2]])}, t, N)
                  /\ Sorted(key, Below) = Items(key, t, N)
<1> DEFINE less == {e \in Nodes \X Nodes : Below(key[e[1]], key[e[2]])}
           I == {Item(key, u) : u \in Nodes}
           V == Seq(I)
           Solves(w) == w = [i \in 0 .. N |-> IF i = 0 THEN <<>>
                                ELSE Inserted(w[i-1], [key |-> key[i-1], node |-> i-1], Below)]
           after == CHOOSE w : Solves(w)
           next == [i \in 1 .. N |-> [s \in V |-> Inserted(s, Item(key, i-1), Below)]]
<1>0. N \in Nat /\ Nodes = 0 .. N-1
  BY NAssumption DEF Nodes
<1>1. ASSUME NEW i \in 1 .. N, NEW s \in V PROVE Inserted(s, Item(key, i-1), Below) \in V
  <2> DEFINE D == {j \in 1 .. Len(s) : ~Below(key[i-1], s[j].key)}
             x == Item(key, i-1)
  <2>1. D \in SUBSET (1 .. Len(s))
    OBVIOUS
  <2>2. Inserted(s, x, Below) = InsertAt(s, 1 + Max({0} \cup D), x)
    BY DEF Inserted, Item
  <2>4. x \in I
    <3>1. i-1 \in Nodes
      BY <1>0
    <3> HIDE DEF D
    <3> QED BY <3>1
  <2>3. InsertAt(s, 1 + Max({0} \cup D), x) \in V
    <3> HIDE DEF D, x, I
    <3> QED BY <2>1, <2>4, InsertedStays
  <2> QED BY <2>2, <2>3
<1>2. next \in [1 .. N -> [V -> V]]
  <2> HIDE DEF V
  <2> QED BY <1>1
<1>3. <<>> \in V
  <2> HIDE DEF I
  <2> QED OBVIOUS
<1>4. PICK w : Iterates(N, V, <<>>, next, w)
  <2> HIDE DEF next, V
  <2> QED BY <1>0, <1>2, <1>3, IterationExists
<1>5. w \in [0 .. N -> V] /\ w[0] = <<>> /\ \A i \in 1 .. N : w[i] = next[i][w[i-1]]
  <2> HIDE DEF next, V
  <2> QED BY <1>4 DEF Iterates
<1>6. \A i \in 1 .. N : w[i] = Inserted(w[i-1], [key |-> key[i-1], node |-> i-1], Below)
  <2> TAKE i \in 1 .. N
  <2>1. w[i-1] \in V
    <3> HIDE DEF V
    <3> QED BY <1>0, <1>5
  <2>2. w[i] = Inserted(w[i-1], Item(key, i-1), Below)
    <3> HIDE DEF V
    <3> QED BY <1>5, <2>1
  <2> QED BY <2>2 DEF Item
<1>7. Solves(w)
  <2>1. w = [i \in 0 .. N |-> w[i]]
    <3> HIDE DEF V
    <3> QED BY <1>5
  <2>2. \A i \in 0 .. N : w[i] = IF i = 0 THEN <<>>
                  ELSE Inserted(w[i-1], [key |-> key[i-1], node |-> i-1], Below)
    <3> TAKE i \in 0 .. N
    <3>1. i = 0 \/ i \in 1 .. N
      BY <1>0
    <3> HIDE DEF V
    <3> QED BY <1>5, <1>6, <3>1
  <2> QED BY <2>1, <2>2
<1>8. Solves(after)
  <2> HIDE DEF Solves
  <2> QED BY <1>7
<1> HIDE DEF after
<1>9. /\ after[0] = <<>>
      /\ \A i \in 1 .. N : after[i] = Inserted(after[i-1], Item(key, i-1), Below)
  <2> HIDE DEF V, I, next, less
  <2>1. after[0] = <<>>
    BY <1>0, <1>8
  <2>2. ASSUME NEW i \in 1 .. N
        PROVE  after[i] = Inserted(after[i-1], Item(key, i-1), Below)
    <3>1. i \in 0 .. N /\ i # 0
      BY <1>0
    <3>2. after[i] = Inserted(after[i-1], [key |-> key[i-1], node |-> i-1], Below)
      BY <1>8, <3>1
    <3> QED BY <3>2 DEF Item
  <2> QED BY <2>1, <2>2
<1>10. Orders(less, key)
  BY BelowOrders
<1>11. ASSUME NEW i \in 1 .. N, NEW t \in [1 .. i-1 -> Nodes], after[i-1] = Items(key, t, i-1)
       PROVE  after[i] = InsertAt(after[i-1],
                            1 + Max({0} \cup {j \in 1 .. i-1 : <<i-1, t[j]>> \notin less}),
                            Item(key, i-1))
  <2> DEFINE s == Items(key, t, i-1)
             D == {j \in 1 .. i-1 : <<i-1, t[j]>> \notin less}
             E == {j \in 1 .. Len(s) : ~Below(Item(key, i-1).key, s[j].key)}
  <2>1. after[i] = InsertAt(s, 1 + Max({0} \cup E), Item(key, i-1))
    BY <1>9, <1>11 DEF Inserted
  <2>2. i-1 \in Nodes /\ i-1 \in Nat
    BY <1>0
  <2>3. Len(s) = i-1
    <3> DEFINE m == i-1
    <3>1. s = [j \in 1 .. m |-> Item(key, t[j])]
      BY DEF Items
    <3>2. s \in [1 .. m -> I]
      <4>1. \A j \in 1 .. m : Item(key, t[j]) \in I
        OBVIOUS
      <4> HIDE DEF I, s, m
      <4> QED BY <3>1, <4>1
    <3>3. m \in Nat
      BY <2>2
    <3> HIDE DEF s, I, m
    <3>4. Len(s) = m
      BY <3>2, <3>3, LenProperties, SeqDef
    <3> QED BY <3>4 DEF m
  <2>4. \A j \in 1 .. i-1 : s[j].key = key[t[j]] /\ Item(key, i-1).key = key[i-1]
    BY DEF Items, Item
  <2>5. \A j \in 1 .. i-1 : <<i-1, t[j]>> \in less <=> Below(key[i-1], key[t[j]])
    BY <2>2
  <2>6. D = E
    <3> HIDE DEF s, less
    <3> QED BY <2>3, <2>4, <2>5
  <2> HIDE DEF D, E, s
  <2>7. after[i] = InsertAt(s, 1 + Max({0} \cup D), Item(key, i-1))
    BY <2>1, <2>6
  <2> QED BY <1>11, <2>7 DEF D, s
<1>12. Sorted(key, Below) = after[N]
  BY DEF Sorted, after
<1> HIDE DEF less
<1>13. \A i \in 1 .. N : \A t \in [1 .. i-1 -> Nodes] :
          after[i-1] = Items(key, t, i-1) =>
             after[i] = InsertAt(after[i-1],
                           1 + Max({0} \cup {j \in 1 .. i-1 : <<i-1, t[j]>> \notin less}),
                           Item(key, i-1))
  BY <1>11
<1>14. \E t : SortedNodes(less, t, N) /\ after[N] = Items(key, t, N)
  BY <1>9, <1>10, <1>13, InsertionSorts
<1> QED BY <1>12, <1>14 DEF less

LEMMA FingerprintsSorted ==
    ASSUME NEW g \in [Nodes -> SUBSET Nodes], NEW k \in Colorings,
           NEW key, key = [u \in Nodes |-> Fingerprint(g, k, u)]
    PROVE  \E t : /\ SortedNodes({e \in Nodes \X Nodes : FingerprintBelow(key[e[1]], key[e[2]])}, t, N)
                  /\ Sorted(key, FingerprintBelow) = Items(key, t, N)
<1> DEFINE less == {e \in Nodes \X Nodes : FingerprintBelow(key[e[1]], key[e[2]])}
           I == {Item(key, u) : u \in Nodes}
           V == Seq(I)
           Solves(w) == w = [i \in 0 .. N |-> IF i = 0 THEN <<>>
                                ELSE Inserted(w[i-1], [key |-> key[i-1], node |-> i-1], FingerprintBelow)]
           after == CHOOSE w : Solves(w)
           next == [i \in 1 .. N |-> [s \in V |-> Inserted(s, Item(key, i-1), FingerprintBelow)]]
<1>0. N \in Nat /\ Nodes = 0 .. N-1
  BY NAssumption DEF Nodes
<1>1. ASSUME NEW i \in 1 .. N, NEW s \in V PROVE Inserted(s, Item(key, i-1), FingerprintBelow) \in V
  <2> DEFINE D == {j \in 1 .. Len(s) : ~FingerprintBelow(key[i-1], s[j].key)}
             x == Item(key, i-1)
  <2>1. D \in SUBSET (1 .. Len(s))
    OBVIOUS
  <2>2. Inserted(s, x, FingerprintBelow) = InsertAt(s, 1 + Max({0} \cup D), x)
    BY DEF Inserted, Item
  <2>4. x \in I
    <3>1. i-1 \in Nodes
      BY <1>0
    <3> HIDE DEF D
    <3> QED BY <3>1
  <2>3. InsertAt(s, 1 + Max({0} \cup D), x) \in V
    <3> HIDE DEF D, x, I
    <3> QED BY <2>1, <2>4, InsertedStays
  <2> QED BY <2>2, <2>3
<1>2. next \in [1 .. N -> [V -> V]]
  <2> HIDE DEF V
  <2> QED BY <1>1
<1>3. <<>> \in V
  <2> HIDE DEF I
  <2> QED OBVIOUS
<1>4. PICK w : Iterates(N, V, <<>>, next, w)
  <2> HIDE DEF next, V
  <2> QED BY <1>0, <1>2, <1>3, IterationExists
<1>5. w \in [0 .. N -> V] /\ w[0] = <<>> /\ \A i \in 1 .. N : w[i] = next[i][w[i-1]]
  <2> HIDE DEF next, V
  <2> QED BY <1>4 DEF Iterates
<1>6. \A i \in 1 .. N : w[i] = Inserted(w[i-1], [key |-> key[i-1], node |-> i-1], FingerprintBelow)
  <2> TAKE i \in 1 .. N
  <2>1. w[i-1] \in V
    <3> HIDE DEF V
    <3> QED BY <1>0, <1>5
  <2>2. w[i] = Inserted(w[i-1], Item(key, i-1), FingerprintBelow)
    <3> HIDE DEF V
    <3> QED BY <1>5, <2>1
  <2> QED BY <2>2 DEF Item
<1>7. Solves(w)
  <2>1. w = [i \in 0 .. N |-> w[i]]
    <3> HIDE DEF V
    <3> QED BY <1>5
  <2>2. \A i \in 0 .. N : w[i] = IF i = 0 THEN <<>>
                  ELSE Inserted(w[i-1], [key |-> key[i-1], node |-> i-1], FingerprintBelow)
    <3> TAKE i \in 0 .. N
    <3>1. i = 0 \/ i \in 1 .. N
      BY <1>0
    <3> HIDE DEF V
    <3> QED BY <1>5, <1>6, <3>1
  <2> QED BY <2>1, <2>2
<1>8. Solves(after)
  <2> HIDE DEF Solves
  <2> QED BY <1>7
<1> HIDE DEF after
<1>9. /\ after[0] = <<>>
      /\ \A i \in 1 .. N : after[i] = Inserted(after[i-1], Item(key, i-1), FingerprintBelow)
  <2> HIDE DEF V, I, next, less
  <2>1. after[0] = <<>>
    BY <1>0, <1>8
  <2>2. ASSUME NEW i \in 1 .. N
        PROVE  after[i] = Inserted(after[i-1], Item(key, i-1), FingerprintBelow)
    <3>1. i \in 0 .. N /\ i # 0
      BY <1>0
    <3>2. after[i] = Inserted(after[i-1], [key |-> key[i-1], node |-> i-1], FingerprintBelow)
      BY <1>8, <3>1
    <3> QED BY <3>2 DEF Item
  <2> QED BY <2>1, <2>2
<1>10. Orders(less, key)
  BY FingerprintsOrder
<1>11. ASSUME NEW i \in 1 .. N, NEW t \in [1 .. i-1 -> Nodes], after[i-1] = Items(key, t, i-1)
       PROVE  after[i] = InsertAt(after[i-1],
                            1 + Max({0} \cup {j \in 1 .. i-1 : <<i-1, t[j]>> \notin less}),
                            Item(key, i-1))
  <2> DEFINE s == Items(key, t, i-1)
             D == {j \in 1 .. i-1 : <<i-1, t[j]>> \notin less}
             E == {j \in 1 .. Len(s) : ~FingerprintBelow(Item(key, i-1).key, s[j].key)}
  <2>1. after[i] = InsertAt(s, 1 + Max({0} \cup E), Item(key, i-1))
    BY <1>9, <1>11 DEF Inserted
  <2>2. i-1 \in Nodes /\ i-1 \in Nat
    BY <1>0
  <2>3. Len(s) = i-1
    <3> DEFINE m == i-1
    <3>1. s = [j \in 1 .. m |-> Item(key, t[j])]
      BY DEF Items
    <3>2. s \in [1 .. m -> I]
      <4>1. \A j \in 1 .. m : Item(key, t[j]) \in I
        OBVIOUS
      <4> HIDE DEF I, s, m
      <4> QED BY <3>1, <4>1
    <3>3. m \in Nat
      BY <2>2
    <3> HIDE DEF s, I, m
    <3>4. Len(s) = m
      BY <3>2, <3>3, LenProperties, SeqDef
    <3> QED BY <3>4 DEF m
  <2>4. \A j \in 1 .. i-1 : s[j].key = key[t[j]] /\ Item(key, i-1).key = key[i-1]
    BY DEF Items, Item
  <2>5. \A j \in 1 .. i-1 : <<i-1, t[j]>> \in less <=> FingerprintBelow(key[i-1], key[t[j]])
    BY <2>2
  <2>6. D = E
    <3> HIDE DEF s, less
    <3> QED BY <2>3, <2>4, <2>5
  <2> HIDE DEF D, E, s
  <2>7. after[i] = InsertAt(s, 1 + Max({0} \cup D), Item(key, i-1))
    BY <2>1, <2>6
  <2> QED BY <1>11, <2>7 DEF D, s
<1>12. Sorted(key, FingerprintBelow) = after[N]
  BY DEF Sorted, after
<1> HIDE DEF less
<1>13. \A i \in 1 .. N : \A t \in [1 .. i-1 -> Nodes] :
          after[i-1] = Items(key, t, i-1) =>
             after[i] = InsertAt(after[i-1],
                           1 + Max({0} \cup {j \in 1 .. i-1 : <<i-1, t[j]>> \notin less}),
                           Item(key, i-1))
  BY <1>11
<1>14. \E t : SortedNodes(less, t, N) /\ after[N] = Items(key, t, N)
  BY <1>9, <1>10, <1>13, InsertionSorts
<1> QED BY <1>12, <1>14 DEF less

-----------------------------------------------------------------------------
(***************************************************************************)
(* Numbering along a sort: the number stays where the key stays and grows  *)
(* where it changes, so numbers compare as the keys do.                    *)
(***************************************************************************)
Numbering(key, t, c) ==
    /\ c \in [1 .. N -> Nodes]
    /\ c[1] = 0
    /\ \A i \in 2 .. N : IF key[t[i]] = key[t[i-1]] THEN c[i] = c[i-1] ELSE c[i] > c[i-1]

LEMMA NumbersAscend ==
    ASSUME NEW key, NEW t, NEW c, Numbering(key, t, c), NEW i \in 1 .. N, NEW j \in i .. N
    PROVE  c[i] <= c[j]
<1> DEFINE T == {d \in 0 .. j-i : c[i] <= c[i+d]}
<1>1. N \in Nat /\ \A m \in 1 .. N : c[m] \in Int
  BY NAssumption DEF Numbering, Nodes
<1>2. 0 \in T
  BY <1>1
<1>3. ASSUME NEW d \in 1 .. j-i, d-1 \in T PROVE d \in T
  <2>1. i+d \in 2 .. N /\ (i+d)-1 = i+(d-1) /\ i+d \in 1 .. N /\ i+(d-1) \in 1 .. N
    BY <1>1
  <2>2. c[i+d] >= c[i+(d-1)]
    <3> DEFINE x == i+d
               y == i+(d-1)
    <3>1. x \in 2 .. N /\ x-1 = y /\ c[x] \in Int /\ c[y] \in Int
      BY <1>1, <2>1
    <3> HIDE DEF x, y
    <3>2. c[x] = c[x-1] \/ c[x] > c[x-1]
      BY <3>1 DEF Numbering
    <3>3. c[x] >= c[y]
      BY <3>1, <3>2
    <3> QED BY <3>3 DEF x, y
  <2> QED BY <1>1, <1>3, <2>1, <2>2
<1>4. j-i \in T
  <2>1. j-i \in Nat
    BY <1>1
  <2>2. \A d \in 0 .. j-i : d \in T
    <3> HIDE DEF T
    <3> QED BY <1>2, <1>3, <2>1, UpTo
  <2> QED BY <2>1, <2>2
<1>5. i + (j-i) = j
  BY <1>1
<1> QED BY <1>4, <1>5

\* Between two nodes of one key all keys are the same.
LEMMA KeyStays ==
    ASSUME NEW less, NEW key, Orders(less, key), NEW t, SortedNodes(less, t, N),
           NEW i \in 1 .. N, NEW j \in i .. N, key[t[i]] = key[t[j]], NEW m \in i .. j
    PROVE  key[t[m]] = key[t[i]]
<1>1. N \in Nat /\ m \in 1 .. N /\ j \in 1 .. N
  BY NAssumption
<1>2. t[i] \in Nodes /\ t[j] \in Nodes /\ t[m] \in Nodes
  BY <1>1 DEF SortedNodes, Nodes
<1>3. CASE i < m /\ m < j
  <2>1. <<t[m], t[i]>> \notin less /\ <<t[j], t[m]>> \notin less
    BY <1>1, <1>3 DEF SortedNodes
  <2>2. ASSUME NEW a \in Nodes, NEW b \in Nodes, NEW x \in Nodes, key[a] = key[b],
               <<b, x>> \notin less
        PROVE  <<a, x>> \notin less
    BY <2>2 DEF Orders
  <2>3. <<t[i], t[m]>> \notin less
    BY <1>2, <2>1, <2>2
  <2> QED BY <1>2, <2>1, <2>3 DEF Orders
<1>4. CASE i = m \/ m = j
  BY <1>4
<1> QED BY <1>1, <1>3, <1>4

LEMMA NumbersTellLater ==
    ASSUME NEW less, NEW key, Orders(less, key), NEW t, SortedNodes(less, t, N),
           NEW c, Numbering(key, t, c), NEW i \in 1 .. N, NEW j \in i .. N
    PROVE  key[t[i]] = key[t[j]] <=> c[i] = c[j]
<1>1. N \in Nat /\ j \in 1 .. N /\ \A m \in 1 .. N : c[m] \in Int
  BY NAssumption DEF Numbering, Nodes
<1> DEFINE S(d) == key[t[i+d]] = key[t[i]]
           C(d) == c[i+d] = c[i]
           T == {d \in 0 .. j-i : S(d) /\ C(d)}
<1>2. 0 \in T
  BY <1>1
<1>3. ASSUME NEW d \in 1 .. j-i, d-1 \in T, S(d) \/ C(d) PROVE d \in T
  <2>1. i+d \in 2 .. N /\ (i+d)-1 = i+(d-1) /\ i+d \in 1 .. N /\ i+(d-1) \in 1 .. N
    BY <1>1
  <2>2. IF key[t[i+d]] = key[t[i+(d-1)]] THEN c[i+d] = c[i+(d-1)] ELSE c[i+d] > c[i+(d-1)]
    BY <2>1 DEF Numbering
  <2>3. S(d-1) /\ C(d-1)
    BY <1>3
  <2>4. c[i+d] \in Int /\ c[i+(d-1)] \in Int
    BY <1>1, <2>1
  <2>5. S(d) /\ C(d)
    BY <1>3, <2>2, <2>3, <2>4
  <2> QED BY <2>5
<1>4. ASSUME \A d \in 1 .. j-i : S(d) \/ C(d) PROVE S(j-i) /\ C(j-i)
  <2>1. j-i \in Nat
    BY <1>1
  <2>2. \A d \in 0 .. j-i : d \in T
    <3>1. \A d \in 1 .. j-i : d-1 \in T => d \in T
      BY <1>3, <1>4
    <3> HIDE DEF T
    <3> QED BY <1>2, <2>1, <3>1, UpTo
  <2> QED BY <2>1, <2>2
<1>5. i + (j-i) = j
  BY <1>1
<1>6. ASSUME key[t[i]] = key[t[j]] PROVE c[i] = c[j]
  <2>1. \A d \in 1 .. j-i : S(d)
    <3> TAKE d \in 1 .. j-i
    <3> DEFINE m == i+d
    <3>1. m \in i .. j
      BY <1>1
    <3> HIDE DEF m
    <3>2. key[t[m]] = key[t[i]]
      BY <1>6, <3>1, KeyStays
    <3> QED BY <3>2 DEF m
  <2>2. C(j-i)
    <3> HIDE DEF S, C
    <3> QED BY <1>4, <2>1
  <2> QED BY <1>5, <2>2
<1>7. ASSUME c[i] = c[j] PROVE key[t[i]] = key[t[j]]
  <2>1. \A d \in 1 .. j-i : C(d)
    <3> TAKE d \in 1 .. j-i
    <3> DEFINE m == i+d
    <3>1. m \in i .. N /\ m \in 1 .. N /\ j \in m .. N
      BY <1>1
    <3> HIDE DEF m
    <3>2. c[i] <= c[m] /\ c[m] <= c[j]
      BY <3>1, NumbersAscend
    <3>3. c[m] = c[i]
      BY <1>1, <1>7, <3>1, <3>2
    <3> QED BY <3>3 DEF m
  <2>2. S(j-i)
    <3> HIDE DEF S, C
    <3> QED BY <1>4, <2>1
  <2> QED BY <1>5, <2>2
<1> QED BY <1>6, <1>7

LEMMA NumbersTell ==
    ASSUME NEW less, NEW key, Orders(less, key), NEW t, SortedNodes(less, t, N),
           NEW c, Numbering(key, t, c), NEW i \in 1 .. N, NEW j \in 1 .. N
    PROVE  /\ key[t[i]] = key[t[j]] <=> c[i] = c[j]
           /\ <<t[i], t[j]>> \in less => c[i] < c[j]
<1>1. N \in Nat /\ c[i] \in Int /\ c[j] \in Int
  BY NAssumption DEF Numbering, Nodes
<1>2. j \in i .. N \/ i \in j .. N
  BY <1>1
<1>3. key[t[i]] = key[t[j]] <=> c[i] = c[j]
  <2>1. CASE j \in i .. N
    BY <2>1, NumbersTellLater
  <2>2. CASE i \in j .. N
    BY <2>2, NumbersTellLater
  <2> QED BY <1>2, <2>1, <2>2
<1>4. ASSUME <<t[i], t[j]>> \in less PROVE c[i] < c[j]
  <2>1. t[i] \in Nodes /\ t[j] \in Nodes
    BY DEF SortedNodes, Nodes
  <2>2. key[t[i]] # key[t[j]]
    BY <1>4, <2>1 DEF Orders
  <2>3. i < j
    <3>1. ~(j < i)
      BY <1>4 DEF SortedNodes
    <3>2. i # j
      BY <2>2
    <3> QED BY <1>1, <3>1, <3>2
  <2>4. c[i] <= c[j]
    <3>1. j \in i .. N
      BY <2>3
    <3> QED BY <3>1, NumbersAscend
  <2> QED BY <1>1, <1>3, <2>2, <2>4
<1> QED BY <1>3, <1>4

LEMMA ChangesStep ==
    ASSUME NEW key, NEW t, NEW i \in 2 .. N
    PROVE  Changes(Items(key, t, N), i)
             = IF key[t[i]] = key[t[i-1]] THEN Changes(Items(key, t, N), i-1)
               ELSE Changes(Items(key, t, N), i-1) \cup {i}
<1> DEFINE s == Items(key, t, N)
<1>1. N \in Nat
  BY NAssumption
<1>2. \A j \in 1 .. N : s[j].key = key[t[j]]
  BY DEF Items, Item
<1> HIDE DEF s
<1>3. \A j \in 2 .. N : s[j].key = key[t[j]] /\ s[j-1].key = key[t[j-1]]
  BY <1>1, <1>2
<1>4. 2 .. i = (2 .. i-1) \cup {i} /\ 2 .. i \subseteq 2 .. N
  BY <1>1
<1> DEFINE A == Changes(s, i)
           B == Changes(s, i-1)
<1>5. A = {j \in 2 .. i : key[t[j]] # key[t[j-1]]}
  BY <1>3, <1>4 DEF Changes
<1>6. B = {j \in 2 .. i-1 : key[t[j]] # key[t[j-1]]}
  BY <1>3, <1>4 DEF Changes
<1> HIDE DEF A, B
<1>7. A = IF key[t[i]] = key[t[i-1]] THEN B ELSE B \cup {i}
  BY <1>4, <1>5, <1>6
<1> QED BY <1>7 DEF A, B, s

LEMMA MaxFound ==
    ASSUME NEW n \in Nat, NEW D, D \subseteq 0 .. n, D # {}
    PROVE  Max(D) \in D /\ \A j \in D : j <= Max(D)
<1>1. PICK x \in D : \A y \in D : y <= x
  BY HasGreatest
<1>2. \A y \in D : x >= y
  BY <1>1
<1>3. Max(D) \in D /\ \A y \in D : Max(D) >= y
  BY <1>2 DEF Max
<1>4. \A y \in D : Max(D) >= y => y <= Max(D)
  BY <1>3
<1> QED BY <1>3, <1>4

\* refine numbers a node by the first position with its key (naive.hpp:113-122).
LEMMA FirstPlaces ==
    ASSUME NEW key, NEW t,
           NEW c, c = [i \in 1 .. N |-> Max({1} \cup Changes(Items(key, t, N), i)) - 1]
    PROVE  /\ Numbering(key, t, c)
           /\ \A i \in 2 .. N : c[i] \in {c[i-1], i-1}
<1> DEFINE D(i) == {1} \cup Changes(Items(key, t, N), i)
<1>1. N \in Nat /\ 1 \in 1 .. N
  BY NAssumption
<1>2. ASSUME NEW i \in 1 .. N
      PROVE  D(i) \subseteq 1 .. i /\ Max(D(i)) \in D(i) /\ \A j \in D(i) : j <= Max(D(i))
  <2>1. D(i) \subseteq 1 .. i
    BY <1>1 DEF Changes
  <2> DEFINE E == D(i)
  <2>2. E \subseteq 0 .. i /\ E # {} /\ i \in Nat
    BY <1>1, <2>1
  <2> HIDE DEF E
  <2>3. Max(E) \in E /\ \A j \in E : j <= Max(E)
    BY <2>2, MaxFound
  <2> QED BY <2>1, <2>3 DEF E
<1>3. \A i \in 2 .. N : D(i) = IF key[t[i]] = key[t[i-1]] THEN D(i-1) ELSE D(i-1) \cup {i}
  BY ChangesStep
<1> DEFINE M(i) == Max(D(i))
<1>4. \A i \in 1 .. N : c[i] = M(i) - 1
  OBVIOUS
<1> HIDE DEF D
<1>5. \A i \in 1 .. N : M(i) \in 1 .. i
  BY <1>2
<1>6. ASSUME NEW i \in 2 .. N
      PROVE  IF key[t[i]] = key[t[i-1]] THEN M(i) = M(i-1) ELSE M(i) = i
  <2>1. i \in 1 .. N /\ i-1 \in 1 .. N
    BY <1>1
  <2>2. CASE key[t[i]] = key[t[i-1]]
    BY <1>3, <2>2
  <2>3. CASE key[t[i]] # key[t[i-1]]
    <3>1. i \in D(i)
      BY <1>3, <2>3
    <3>2. i <= M(i)
      BY <1>2, <2>1, <3>1
    <3>3. M(i) = i
      <4>1. M(i) \in 1 .. i
        BY <1>5, <2>1
      <4> HIDE DEF M
      <4> QED BY <1>1, <3>2, <4>1
    <3> QED BY <2>3, <3>3
  <2> QED BY <2>2, <2>3
<1> HIDE DEF M
<1>7. c \in [1 .. N -> Nodes]
  <2>1. \A i \in 1 .. N : M(i) - 1 \in Nodes
    BY <1>1, <1>5 DEF Nodes
  <2>2. \A i \in 1 .. N : c[i] \in Nodes
    BY <1>4, <2>1
  <2> QED BY <2>2
<1>8. c[1] = 0
  <2>1. M(1) = 1
    <3>1. M(1) \in 1 .. 1
      BY <1>1, <1>5
    <3> QED BY <3>1
  <2>2. c[1] = M(1) - 1
    BY <1>1, <1>4
  <2>3. M(1) - 1 = 0
    BY <2>1
  <2> QED BY <2>2, <2>3
<1>9. ASSUME NEW i \in 2 .. N
      PROVE  /\ IF key[t[i]] = key[t[i-1]] THEN c[i] = c[i-1] ELSE c[i] > c[i-1]
             /\ c[i] \in {c[i-1], i-1}
  <2>1. i \in 1 .. N /\ i-1 \in 1 .. N /\ i \in Int
    BY <1>1
  <2>2. c[i] = M(i) - 1 /\ c[i-1] = M(i-1) - 1 /\ M(i) \in Int /\ M(i-1) \in Int
        /\ M(i-1) <= i-1
    BY <1>4, <1>5, <2>1
  <2> QED BY <1>6, <2>1, <2>2
<1> QED BY <1>7, <1>8, <1>9 DEF Numbering

\* hashing numbers a node by the changes of the key so far (naive.hpp:66-73).
LEMMA ChangesSoFar ==
    ASSUME NEW key, NEW t,
           NEW c, c = [i \in 1 .. N |-> Cardinality(Changes(Items(key, t, N), i))]
    PROVE  Numbering(key, t, c)
<1> DEFINE D(i) == Changes(Items(key, t, N), i)
           T == {i \in 0 .. N-1 : IsFiniteSet(D(i+1)) /\ Cardinality(D(i+1)) \in 0 .. i}
<1>1. N \in Nat /\ 1 \in 1 .. N /\ N-1 \in Nat
  BY NAssumption
<1>2. \A i \in 2 .. N : D(i) = IF key[t[i]] = key[t[i-1]] THEN D(i-1) ELSE D(i-1) \cup {i}
  BY ChangesStep
<1>3. \A i \in 1 .. N : D(i) \subseteq 2 .. i
  BY DEF Changes
<1>4. D(1) = {}
  BY DEF Changes
<1>5. \A i \in 1 .. N : c[i] = Cardinality(D(i))
  OBVIOUS
<1> HIDE DEF D
<1>6. ASSUME NEW i \in 2 .. N, IsFiniteSet(D(i-1))
      PROVE  /\ IsFiniteSet(D(i))
             /\ Cardinality(D(i)) = IF key[t[i]] = key[t[i-1]] THEN Cardinality(D(i-1))
                                    ELSE Cardinality(D(i-1)) + 1
  <2>1. CASE key[t[i]] = key[t[i-1]]
    BY <1>2, <1>6, <2>1
  <2>2. CASE key[t[i]] # key[t[i-1]]
    <3>1. D(i) = D(i-1) \cup {i}
      BY <1>2, <2>2
    <3>2. i \notin D(i-1)
      <4>1. i-1 \in 1 .. N /\ i \notin 2 .. i-1
        BY <1>1
      <4> QED BY <1>3, <4>1
    <3>3. /\ IsFiniteSet(D(i-1) \cup {i})
          /\ Cardinality(D(i-1) \cup {i}) = Cardinality(D(i-1)) + 1
      BY <1>6, <3>2, FS_AddElement
    <3> QED BY <2>2, <3>1, <3>3
  <2> QED BY <2>1, <2>2
<1>7. 0 \in T
  <2>1. D(0+1) = {} /\ 0 \in 0 .. N-1
    BY <1>1, <1>4
  <2>2. IsFiniteSet(D(0+1)) /\ Cardinality(D(0+1)) = 0
    BY <2>1, FS_EmptySet
  <2> QED BY <2>1, <2>2
<1>8. ASSUME NEW i \in 1 .. N-1, i-1 \in T PROVE i \in T
  <2> DEFINE j == i+1
  <2>1. j \in 2 .. N /\ j-1 = (i-1)+1 /\ i \in 0 .. N-1 /\ i \in Int
    BY <1>1
  <2>2. IsFiniteSet(D(j-1)) /\ Cardinality(D(j-1)) \in 0 .. i-1
    BY <1>8, <2>1
  <2> HIDE DEF j
  <2>3. IsFiniteSet(D(j)) /\ Cardinality(D(j)) \in 0 .. i
    <3>1. Cardinality(D(j)) = Cardinality(D(j-1)) \/ Cardinality(D(j)) = Cardinality(D(j-1)) + 1
      BY <1>6, <2>1, <2>2
    <3> QED BY <1>6, <2>1, <2>2, <3>1
  <2> QED BY <2>1, <2>3 DEF j
<1>9. \A i \in 0 .. N-1 : i \in T
  <2> HIDE DEF T
  <2> QED BY <1>1, <1>7, <1>8, UpTo
<1>10. ASSUME NEW i \in 1 .. N PROVE IsFiniteSet(D(i)) /\ Cardinality(D(i)) \in 0 .. i-1
  <2> DEFINE j == i-1
  <2>1. j \in 0 .. N-1 /\ i = j+1
    BY <1>1
  <2> HIDE DEF j
  <2> QED BY <1>9, <2>1
<1>11. c \in [1 .. N -> Nodes]
  <2>1. \A i \in 1 .. N : c[i] \in Nodes
    <3> TAKE i \in 1 .. N
    <3>1. c[i] \in 0 .. i-1
      BY <1>5, <1>10
    <3> QED BY <1>1, <3>1 DEF Nodes
  <2> QED BY <2>1
<1>12. c[1] = 0
  BY <1>1, <1>4, <1>5, FS_EmptySet
<1>13. ASSUME NEW i \in 2 .. N
       PROVE  IF key[t[i]] = key[t[i-1]] THEN c[i] = c[i-1] ELSE c[i] > c[i-1]
  <2>1. i \in 1 .. N /\ i-1 \in 1 .. N
    BY <1>1
  <2>2. c[i] = Cardinality(D(i)) /\ c[i-1] = Cardinality(D(i-1)) /\ IsFiniteSet(D(i-1))
        /\ c[i-1] \in Int
    BY <1>5, <1>10, <2>1
  <2> QED BY <1>6, <2>2
<1> QED BY <1>11, <1>12, <1>13 DEF Numbering

-----------------------------------------------------------------------------
(***************************************************************************)
(* A run of set_color calls, one for each node: the labels stay an         *)
(* enumeration in color order, and each node ends with its color.          *)
(***************************************************************************)
Numbered(k, t, c) == SetColors(k, [i \in 1 .. N |-> <<t[i], c[i]>>])

Numbers(c) == c \in [1 .. N -> Nodes]

EachOnce(t) ==
    /\ t \in [1 .. N -> Nodes]
    /\ \A i, j \in 1 .. N : t[i] = t[j] => i = j
    /\ \A u \in Nodes : \E i \in 1 .. N : t[i] = u

LEMMA SortedEachOnce ==
    ASSUME NEW less, NEW t, SortedNodes(less, t, N)
    PROVE  EachOnce(t)
BY DEF SortedNodes, EachOnce, Nodes

LEMMA SetColorInOrder ==
    ASSUME NEW k, InOrder(k), NEW u \in Nodes, NEW c \in Nodes
    PROVE  /\ InOrder(SetColor(k, u, c))
           /\ SetColor(k, u, c).color = [k.color EXCEPT ![u] = c]
<1>1. Enumerates(k) /\ LabelsSorted(k) /\ Labelled(k) /\ c \in Nat
  BY EnumeratedIsLabelled, NAssumption DEF InOrder, Nodes
<1>2. Enumerates(SetColor(k, u, c)) /\ LabelsSorted(SetColor(k, u, c))
  BY <1>1, SetColorEnumerates, SetColorSorted
<1>3. SetColor(k, u, c).color = [k.color EXCEPT ![u] = c]
  BY <1>1, SetColorLabels
<1> QED BY <1>2, <1>3 DEF InOrder

LEMMA ColorsSet ==
    ASSUME NEW k, InOrder(k), NEW t, EachOnce(t), NEW c, Numbers(c)
    PROVE  /\ InOrder(Numbered(k, t, c))
           /\ \A i \in 1 .. N : Numbered(k, t, c).color[t[i]] = c[i]
<1> DEFINE calls == [i \in 1 .. N |-> <<t[i], c[i]>>]
           V == {j \in Colorings : InOrder(j)}
           Solves(w) == w = [i \in 0 .. Len(calls) |-> IF i = 0 THEN k
                                ELSE SetColor(w[i-1], calls[i][1], calls[i][2])]
           after == CHOOSE w : Solves(w)
           next == [i \in 1 .. N |-> [j \in V |-> SetColor(j, t[i], c[i])]]
<1>0. /\ N \in Nat
      /\ t \in [1 .. N -> Nodes]
      /\ \A i, j \in 1 .. N : t[i] = t[j] => i = j
      /\ c \in [1 .. N -> Nodes]
  BY NAssumption DEF EachOnce, Numbers
<1>1. Len(calls) = N
  <2> DEFINE P == Nodes \X Nodes
  <2>1. \A i \in 1 .. N : <<t[i], c[i]>> \in P
    BY <1>0
  <2>2. calls \in [1 .. N -> P]
    <3> HIDE DEF P
    <3> QED BY <2>1
  <2> HIDE DEF calls, P
  <2> QED BY <1>0, <2>2, LenProperties, SeqDef
<1>2. \A j \in V, u \in Nodes, d \in Nodes : SetColor(j, u, d) \in V
  <2>1. \A j : InOrder(j) => j \in Colorings
    BY DEF InOrder, Enumerates
  <2> QED BY <2>1, SetColorInOrder
<1>3. next \in [1 .. N -> [V -> V]]
  <2> HIDE DEF V
  <2> QED BY <1>0, <1>2
<1>4. k \in V
  BY DEF InOrder, Enumerates
<1>5. PICK w : Iterates(N, V, k, next, w)
  <2> HIDE DEF next, V
  <2> QED BY <1>0, <1>3, <1>4, IterationExists
<1>6. w \in [0 .. N -> V] /\ w[0] = k /\ \A i \in 1 .. N : w[i] = next[i][w[i-1]]
  <2> HIDE DEF next, V
  <2> QED BY <1>5 DEF Iterates
<1>7. \A i \in 1 .. N : w[i] = SetColor(w[i-1], t[i], c[i]) /\ w[i-1] \in V
  <2> TAKE i \in 1 .. N
  <2>1. w[i-1] \in V
    <3> HIDE DEF V
    <3> QED BY <1>0, <1>6
  <2> HIDE DEF V
  <2> QED BY <1>6, <2>1
<1>8. Solves(w)
  <2>1. w = [i \in 0 .. N |-> w[i]]
    <3> HIDE DEF V
    <3> QED BY <1>6
  <2>2. \A i \in 0 .. N : w[i] = IF i = 0 THEN k
                                 ELSE SetColor(w[i-1], calls[i][1], calls[i][2])
    <3> TAKE i \in 0 .. N
    <3>1. i = 0 \/ i \in 1 .. N
      BY <1>0
    <3>2. i \in 1 .. N => calls[i][1] = t[i] /\ calls[i][2] = c[i]
      OBVIOUS
    <3> HIDE DEF V, calls, next
    <3> QED BY <1>6, <1>7, <3>1, <3>2
  <2> HIDE DEF calls
  <2> QED BY <1>1, <2>1, <2>2
<1>9. Solves(after)
  <2> HIDE DEF Solves
  <2> QED BY <1>8
<1>10. SetColors(k, calls) = after[N]
  <2>1. SetColors(k, calls) = after[Len(calls)]
    BY DEF SetColors
  <2> HIDE DEF calls, after
  <2> QED BY <1>1, <2>1
<1> HIDE DEF after
<1>11. after[0] = k /\ \A i \in 1 .. N : after[i] = SetColor(after[i-1], t[i], c[i])
  <2>1. \A i \in 1 .. N : calls[i][1] = t[i] /\ calls[i][2] = c[i]
    OBVIOUS
  <2> HIDE DEF calls
  <2> QED BY <1>0, <1>1, <1>9, <2>1
<1> HIDE DEF calls, next, Solves
<1> DEFINE T == {i \in 0 .. N : /\ InOrder(after[i])
                                /\ \A j \in 1 .. i : after[i].color[t[j]] = c[j]}
<1>12. 0 \in T
  BY <1>0, <1>11
<1>13. ASSUME NEW i \in 1 .. N, i-1 \in T PROVE i \in T
  <2>1. /\ InOrder(after[i-1])
        /\ \A j \in 1 .. i-1 : after[i-1].color[t[j]] = c[j]
        /\ t[i] \in Nodes /\ c[i] \in Nodes
        /\ after[i] = SetColor(after[i-1], t[i], c[i])
    BY <1>0, <1>11, <1>13
  <2>2. InOrder(after[i]) /\ after[i].color = [after[i-1].color EXCEPT ![t[i]] = c[i]]
    BY <2>1, SetColorInOrder
  <2>3. after[i-1].color \in [Nodes -> Nodes]
    BY <2>1 DEF InOrder, Enumerates, Colorings
  <2>4. \A j \in 1 .. i : after[i].color[t[j]] = c[j]
    <3> TAKE j \in 1 .. i
    <3>1. j \in 1 .. N /\ (j = i \/ j \in 1 .. i-1)
      BY <1>0
    <3>2. t[j] \in Nodes /\ (t[j] = t[i] => j = i)
      BY <1>0, <3>1
    <3> QED BY <2>1, <2>2, <2>3, <3>1, <3>2
  <2>5. i \in 0 .. N
    BY <1>0
  <2> QED BY <2>2, <2>4, <2>5
<1>14. N \in T
  <2>1. \A i \in 0 .. N : i \in T
    <3> HIDE DEF T
    <3> QED BY <1>0, <1>12, <1>13, UpTo
  <2> QED BY <1>0, <2>1
<1>15. InOrder(after[N]) /\ \A i \in 1 .. N : after[N].color[t[i]] = c[i]
  BY <1>14
<1>16. Numbered(k, t, c) = after[N]
  BY <1>10 DEF calls, Numbered
<1> QED BY <1>15, <1>16

LEMMA InOrderAscends ==
    ASSUME NEW k, InOrder(k), NEW p \in Positions, NEW q \in 0 .. p
    PROVE  ColorAtLabel(k, q) <= ColorAtLabel(k, p)
<1> DEFINE col(r) == ColorAtLabel(k, r)
           T == {d \in 0 .. p - q : col(q) <= col(q + d)}
<1>1. N-1 \in Nat /\ Positions = 0 .. N-1
  BY NAssumption DEF Positions
<1>2. \A r \in 1 .. N-1 : col(r-1) <= col(r)
  BY DEF InOrder, LabelsSorted
<1>3. \A r \in 0 .. N-1 : col(r) \in Int
  <2> TAKE r \in 0 .. N-1
  <2>1. col(r) \in Nodes
    BY <1>1, ColorsAreNodes DEF InOrder
  <2> QED BY <2>1 DEF Nodes
<1> HIDE DEF col
<1>4. 0 \in T
  BY <1>1, <1>3
<1>5. ASSUME NEW d \in 1 .. p - q, d-1 \in T PROVE d \in T
  <2>1. q + d \in 1 .. N-1 /\ (q + d) - 1 = q + (d-1) /\ q + (d-1) \in 0 .. N-1
    BY <1>1
  <2>2. col(q + (d-1)) <= col(q + d)
    BY <1>2, <2>1
  <2>3. col(q + (d-1)) \in Int /\ col(q) \in Int /\ col(q + d) \in Int
    BY <1>1, <1>3, <2>1
  <2> QED BY <1>1, <1>5, <2>2, <2>3
<1>6. p - q \in T
  <2>1. p - q \in Nat
    BY <1>1
  <2>2. \A d \in 0 .. p - q : d \in T
    <3> HIDE DEF T
    <3> QED BY <1>4, <1>5, <2>1, UpTo
  <2> QED BY <2>1, <2>2
<1>7. q + (p - q) = p
  BY <1>1
<1> QED BY <1>6, <1>7 DEF col

-----------------------------------------------------------------------------
(***************************************************************************)
(* Nodes sorted by a key and colored by their numbers.                     *)
(***************************************************************************)
LEMMA ColorsTell ==
    ASSUME NEW k, InOrder(k), NEW less, NEW key, Orders(less, key), NEW t, SortedNodes(less, t, N),
           NEW c, Numbering(key, t, c)
    PROVE  /\ InOrder(Numbered(k, t, c))
           /\ \A u, v \in Nodes :
                 /\ key[u] = key[v] <=> Numbered(k, t, c).color[u] = Numbered(k, t, c).color[v]
                 /\ <<u, v>> \in less => Numbered(k, t, c).color[u] < Numbered(k, t, c).color[v]
           /\ \A p \in Positions : ColorAtLabel(Numbered(k, t, c), p) = c[p+1]
<1> DEFINE m == Numbered(k, t, c)
           a == m.label
           b == [p \in Positions |-> t[p+1]]
<1>1. EachOnce(t) /\ Numbers(c)
  BY SortedEachOnce DEF Numbering, Numbers
<1>2. InOrder(m) /\ \A i \in 1 .. N : m.color[t[i]] = c[i]
  BY <1>1, ColorsSet
<1> HIDE DEF m
<1>3. ASSUME NEW u \in Nodes, NEW v \in Nodes
      PROVE  /\ key[u] = key[v] <=> m.color[u] = m.color[v]
             /\ <<u, v>> \in less => m.color[u] < m.color[v]
  <2>1. PICK i \in 1 .. N, j \in 1 .. N : t[i] = u /\ t[j] = v
    BY <1>1 DEF EachOnce
  <2>2. /\ key[t[i]] = key[t[j]] <=> c[i] = c[j]
        /\ <<t[i], t[j]>> \in less => c[i] < c[j]
    BY NumbersTell
  <2>3. m.color[u] = c[i] /\ m.color[v] = c[j]
    BY <1>2, <2>1
  <2> QED BY <2>1, <2>2, <2>3
<1>4. /\ N \in Nat /\ Positions = 0 .. N-1
      /\ m.color \in [Nodes -> Int]
      /\ Enumeration(a)
  <2>1. m \in Colorings /\ Enumerates(m)
    BY <1>2 DEF InOrder, Enumerates
  <2>2. Enumeration(a)
    BY <2>1 DEF Enumeration, Enumerates, LabelsPermutation, Colorings
  <2> QED BY <2>1, <2>2, ColorsAreInts, NAssumption DEF Positions
<1>5. AscendsAlong(m.color, a)
  <2>1. \A p \in Positions : \A q \in 0 .. p : ColorAtLabel(m, q) <= ColorAtLabel(m, p)
    BY <1>2, InOrderAscends
  <2> QED BY <2>1 DEF AscendsAlong, ColorAtLabel
<1>6. Enumeration(b)
  <2>1. \A p \in Positions : p+1 \in 1 .. N
    BY <1>4
  <2>2. b \in [Positions -> Nodes]
    BY <1>1, <2>1 DEF EachOnce
  <2>3. \A p, q \in Positions : b[p] = b[q] => p = q
    <3> TAKE p, q \in Positions
    <3> HAVE b[p] = b[q]
    <3>1. p+1 = q+1
      BY <1>1, <2>1 DEF EachOnce
    <3> QED BY <1>4, <3>1
  <2>4. \A u \in Nodes : \E p \in Positions : b[p] = u
    <3> TAKE u \in Nodes
    <3>1. PICK i \in 1 .. N : t[i] = u
      BY <1>1 DEF EachOnce
    <3>2. i-1 \in Positions /\ (i-1)+1 = i
      BY <1>4
    <3>3. b[i-1] = u
      BY <3>1, <3>2
    <3> QED BY <3>2, <3>3
  <2> QED BY <2>2, <2>3, <2>4 DEF Enumeration
<1>7. \A p \in Positions : p+1 \in 1 .. N /\ b[p] = t[p+1] /\ m.color[b[p]] = c[p+1]
  <2> TAKE p \in Positions
  <2>1. p+1 \in 1 .. N /\ b[p] = t[p+1]
    BY <1>4
  <2> QED BY <1>2, <2>1
<1> HIDE DEF b
<1>8. AscendsAlong(m.color, b)
  <2>1. ASSUME NEW p \in Positions, NEW q \in 0 .. p
        PROVE  m.color[b[q]] <= m.color[b[p]]
    <3>1. q \in Positions /\ q+1 \in 1 .. N /\ p+1 \in q+1 .. N
      BY <1>4
    <3>2. c[q+1] <= c[p+1]
      BY <3>1, NumbersAscend
    <3> QED BY <1>7, <3>1, <3>2
  <2> QED BY <2>1 DEF AscendsAlong
<1>9. ASSUME NEW p \in Positions PROVE ColorAtLabel(m, p) = c[p+1]
  <2>1. m.color[a[p]] = m.color[b[p]]
    <3> HIDE DEF a
    <3> QED BY <1>4, <1>5, <1>6, <1>8, SameAlong
  <2> QED BY <1>7, <2>1 DEF ColorAtLabel
<1> QED BY <1>2, <1>3, <1>9 DEF m

-----------------------------------------------------------------------------
(***************************************************************************)
(* The keys of hashing: on at most 16 nodes the four bits of the color     *)
(* come first (naive.hpp:60).                                              *)
(***************************************************************************)
LEMMA Sixteenth ==
    ASSUME NEW h \in 0 .. H-1
    PROVE  h \div 16 \in Nat /\ h \div 16 < 4096 /\ h % 16 \in 0 .. 15
<1>1. h \in Nat /\ h <= 65535
  BY DEF H
<1> DEFINE q == h \div 16
           r == h % 16
<1>2. q \in Nat /\ r \in 0 .. 15 /\ h = q * 16 + r
  BY <1>1, Divided
<1> HIDE DEF q, r
<1>3. q < 4096
  BY <1>1, <1>2
<1> QED BY <1>2, <1>3 DEF q, r

LEMMA ColorKeyWord ==
    ASSUME NEW h \in Words, NEW c \in 0 .. 15
    PROVE  /\ ColorKey(h, c) \in Words
           /\ ColorKey(h, c)[1] \in Nat
           /\ c * 4096 <= ColorKey(h, c)[1] /\ ColorKey(h, c)[1] < (c+1) * 4096
<1> DEFINE x == h[1] \div 16
           y == h[1] % 16
           z == h[2] \div 16
           a == x + c * 4096
           b == y * 4096 + z
<1>1. h[1] \in 0 .. H-1 /\ h[2] \in 0 .. H-1
  BY WordParts
<1>2. x \in Nat /\ x < 4096 /\ y \in 0 .. 15 /\ z \in Nat /\ z < 4096
  BY <1>1, Sixteenth
<1>3. H \div 16 = 4096
  BY DEF H
<1>4. c % 16 = c
  OBVIOUS
<1>5. ColorKey(h, c) = <<a, b>>
  <2>1. ColorKey(h, c) = <<x + (c % 16) * 4096, y * (H \div 16) + z>>
    BY DEF ColorKey, Shr
  <2> HIDE DEF x, y, z
  <2> QED BY <1>3, <1>4, <2>1
<1> HIDE DEF x, y, z
<1>6. c * 4096 <= a /\ a < (c+1) * 4096 /\ a \in Nat
  BY <1>2
<1>7. a \in Nat /\ a <= 65535 /\ b \in Nat /\ b <= 65535
  BY <1>2
<1> HIDE DEF a, b
<1>8. a \in 0 .. H-1 /\ b \in 0 .. H-1
  <2>1. H - 1 = 65535
    BY DEF H
  <2> DEFINE t == H - 1
  <2> HIDE DEF t
  <2>2. a \in 0 .. t /\ b \in 0 .. t
    BY <1>7, <2>1 DEF t
  <2> QED BY <2>2 DEF t
<1>9. <<a, b>> \in Words /\ <<a, b>>[1] = a
  BY <1>8 DEF Words
<1> QED BY <1>5, <1>6, <1>9

LEMMA ColorKeyOrder ==
    ASSUME NEW h \in Words, NEW i \in Words, NEW c \in 0 .. 15, NEW d \in 0 .. 15
    PROVE  /\ c < d => Below(ColorKey(h, c), ColorKey(i, d))
           /\ ColorKey(h, c) = ColorKey(i, d) => c = d
<1> DEFINE a == ColorKey(h, c)[1]
           b == ColorKey(i, d)[1]
<1>1. /\ c * 4096 <= a /\ a < (c+1) * 4096 /\ a \in Nat
      /\ d * 4096 <= b /\ b < (d+1) * 4096 /\ b \in Nat
  BY ColorKeyWord
<1> HIDE DEF a, b
<1>2. c < d => a < b
  BY <1>1
<1>3. a = b => c = d
  BY <1>1
<1> QED BY <1>2, <1>3 DEF Below, a, b

-----------------------------------------------------------------------------
FewNodes == N <= 16

Start(k) == [u \in Nodes |-> HashFmix32(Word(k.color[u]))]

LEMMA StartHashed ==
    ASSUME FewNodes, NEW k \in Colorings
    PROVE  Start(k) \in Hashed
<1> SUFFICES ASSUME NEW u \in Nodes PROVE HashFmix32(Word(k.color[u])) \in Words
  BY DEF Start, Hashed
<1> DEFINE c == k.color[u]
<1>1. c \in 0 .. 15
  <2>1. c \in Nodes
    BY DEF Colorings
  <2> QED BY <2>1, NAssumption DEF Nodes, FewNodes
<1> HIDE DEF c
<1>2. c \div H = 0 /\ c % H = c
  <2>1. c = 0 * H + c /\ c \in 0 .. H-1
    <3>1. c \in Nat /\ c < 65536
      BY <1>1
    <3>2. c < H
      BY <3>1 DEF H
    <3> QED BY <3>1, <3>2, HalfSize
  <2> QED BY <2>1, HalfSize, QuotientUnique
<1>3. c \in 0 .. H-1 /\ 0 \in 0 .. H-1
  <2>1. c < H /\ 0 < H
    BY <1>1 DEF H
  <2> QED BY <1>1, <2>1, HalfSize
<1>4. Word(c) \in Words
  BY <1>2, <1>3 DEF Word, Words
<1> QED BY <1>4, FinalizedWord DEF c

LEMMA RoundHashed ==
    ASSUME NEW g \in [Nodes -> SUBSET Nodes], NEW hash \in Hashed
    PROVE  HashRound(g, hash) \in Hashed
<1>1. ASSUME NEW u \in Nodes
      PROVE  HashFmix32(SumOf(hash, g[u], HashFmix32(hash[u]))) \in Words
  <2>1. hash[u] \in Words
    BY DEF Hashed
  <2> DEFINE b == HashFmix32(hash[u])
             s == SumOf(hash, g[u], b)
  <2>2. b \in Words
    BY <2>1, FinalizedWord
  <2> HIDE DEF b
  <2>3. s \in Words
    BY <2>2, SumIsWord
  <2> HIDE DEF s
  <2>4. HashFmix32(s) \in Words
    BY <2>3, FinalizedWord
  <2> QED BY <2>4 DEF s, b
<1> QED BY <1>1 DEF HashRound, Hashed

LEMMA TwoRounds ==
    ASSUME FewNodes, NEW g \in [Nodes -> SUBSET Nodes], NEW k \in Colorings
    PROVE  Hashes(g, k, 2) = HashRound(g, HashRound(g, Start(k)))
<1> DEFINE Solves(w) == w = [r \in 0 .. 2 |-> IF r = 0 THEN [u \in Nodes |-> HashFmix32(Word(k.color[u]))]
                                              ELSE HashRound(g, w[r-1])]
           hash == CHOOSE w : Solves(w)
           a == Start(k)
           b == HashRound(g, a)
           c == HashRound(g, b)
           w == [r \in 0 .. 2 |-> IF r = 0 THEN a ELSE IF r = 1 THEN b ELSE c]
<1>1. w[0] = a /\ w[1] = b /\ w[2] = c
  <2> HIDE DEF a, b, c
  <2> QED OBVIOUS
<1>2. Solves(w)
  <2>1. \A r \in 0 .. 2 : (IF r = 0 THEN a ELSE IF r = 1 THEN b ELSE c)
                            = IF r = 0 THEN a ELSE HashRound(g, w[r-1])
    <3> TAKE r \in 0 .. 2
    <3>1. r = 0 \/ r = 1 \/ r = 2
      OBVIOUS
    <3>2. r = 1 => HashRound(g, w[r-1]) = b
      BY <1>1
    <3>3. r = 2 => HashRound(g, w[r-1]) = c
      BY <1>1
    <3> HIDE DEF w, a, b, c
    <3> QED BY <3>1, <3>2, <3>3
  <2> QED BY <2>1 DEF Start
<1>3. Solves(hash)
  <2> HIDE DEF Solves
  <2> QED BY <1>2
<1>4. Hashes(g, k, 2) = hash[2]
  BY DEF Hashes
<1> HIDE DEF hash
<1>5. hash[0] = a /\ hash[1] = HashRound(g, hash[0]) /\ hash[2] = HashRound(g, hash[1])
  BY <1>3 DEF Start
<1> QED BY <1>4, <1>5

FinalHash(g, k) == HashRound(g, HashRound(g, Start(k)))

LEMMA KeysHashed ==
    ASSUME FewNodes, NEW g \in [Nodes -> SUBSET Nodes], NEW k \in Colorings
    PROVE  /\ FinalHash(g, k) \in Hashed
           /\ HashKeys(g, k, 2) = [u \in Nodes |-> ColorKey(FinalHash(g, k)[u], k.color[u])]
           /\ HashKeys(g, k, 2) \in Hashed
           /\ \A u \in Nodes : k.color[u] \in 0 .. 15
<1> DEFINE f == FinalHash(g, k)
<1>1. f \in Hashed
  BY StartHashed, RoundHashed DEF FinalHash
<1>2. HashKeys(g, k, 2) = [u \in Nodes |-> ColorKey(f[u], k.color[u])]
  BY TwoRounds DEF HashKeys, FinalHash
<1> HIDE DEF f
<1>3. ASSUME NEW u \in Nodes
      PROVE  k.color[u] \in 0 .. 15 /\ ColorKey(f[u], k.color[u]) \in Words
  <2>1. k.color[u] \in Nodes /\ f[u] \in Words
    BY <1>1 DEF Colorings, Hashed
  <2> DEFINE c == k.color[u]
  <2>2. c \in 0 .. 15
    <3>1. c \in Nodes
      BY <2>1
    <3> HIDE DEF c
    <3> QED BY <3>1, NAssumption DEF Nodes, FewNodes
  <2> QED BY <2>1, <2>2, ColorKeyWord
<1>4. HashKeys(g, k, 2) \in Hashed
  BY <1>2, <1>3 DEF Hashed
<1> QED BY <1>1, <1>2, <1>3, <1>4 DEF f

HashLess(key) == {e \in Nodes \X Nodes : Below(key[e[1]], key[e[2]])}

ChangeNumbers(key, t) == [i \in 1 .. N |-> Cardinality(Changes(Items(key, t, N), i))]

LEMMA HashingNumbered ==
    ASSUME NEW g, NEW k, NEW key, key = HashKeys(g, k, 2), key \in Hashed
    PROVE  \E t : /\ SortedNodes(HashLess(key), t, N)
                  /\ Hashing(g, k, 2) = Numbered(k, t, ChangeNumbers(key, t))
<1>1. Hashing(g, k, 2) = SetColors(k, [i \in 1 .. N |->
             <<Sorted(key, Below)[i].node, Cardinality(Changes(Sorted(key, Below), i))>>])
  BY DEF Hashing
<1>2. PICK t : SortedNodes(HashLess(key), t, N) /\ Sorted(key, Below) = Items(key, t, N)
  BY HashesSorted DEF HashLess
<1> DEFINE c == ChangeNumbers(key, t)
<1>3. \A i \in 1 .. N : Sorted(key, Below)[i].node = t[i]
                         /\ Cardinality(Changes(Sorted(key, Below), i)) = c[i]
  <2> SUFFICES ASSUME NEW i \in 1 .. N
               PROVE  Sorted(key, Below)[i].node = t[i]
                         /\ Cardinality(Changes(Sorted(key, Below), i)) = c[i]
    OBVIOUS
  <2>1. Sorted(key, Below)[i] = [key |-> key[t[i]], node |-> t[i]]
    BY <1>2 DEF Items, Item
  <2>2. Cardinality(Changes(Sorted(key, Below), i)) = c[i]
    BY <1>2 DEF ChangeNumbers
  <2> QED BY <2>1, <2>2
<1> HIDE DEF c
<1>4. Hashing(g, k, 2) = Numbered(k, t, c)
  BY <1>1, <1>3 DEF Numbered
<1> QED BY <1>2, <1>4 DEF c

LEMMA HashingColors ==
    ASSUME FewNodes, NEW g \in [Nodes -> SUBSET Nodes], NEW k, InOrder(k)
    PROVE  /\ InOrder(Hashing(g, k, 2))
           /\ KeepsOrder(k, Hashing(g, k, 2))
           /\ \A u, v \in Nodes :
                 Hashing(g, k, 2).color[u] = Hashing(g, k, 2).color[v]
                    <=> HashKeys(g, k, 2)[u] = HashKeys(g, k, 2)[v]
<1> DEFINE key == HashKeys(g, k, 2)
           less == HashLess(key)
           m == Hashing(g, k, 2)
<1>0. k \in Colorings
  BY DEF InOrder, Enumerates
<1>1. /\ FinalHash(g, k) \in Hashed
      /\ key = [u \in Nodes |-> ColorKey(FinalHash(g, k)[u], k.color[u])]
      /\ key \in Hashed
      /\ \A u \in Nodes : k.color[u] \in 0 .. 15
  BY <1>0, KeysHashed
<1>2. \E t : SortedNodes(less, t, N) /\ m = Numbered(k, t, ChangeNumbers(key, t))
  <2> DEFINE f == key
  <2>1. f = HashKeys(g, k, 2) /\ f \in Hashed
    BY <1>1
  <2> HIDE DEF f
  <2>2. \E t : /\ SortedNodes(HashLess(f), t, N)
               /\ Hashing(g, k, 2) = Numbered(k, t, ChangeNumbers(f, t))
    BY <2>1, HashingNumbered
  <2> QED BY <2>2 DEF f
<1> HIDE DEF key, m
<1>3. PICK t : SortedNodes(less, t, N) /\ m = Numbered(k, t, ChangeNumbers(key, t))
  BY <1>2
<1> DEFINE c == ChangeNumbers(key, t)
<1>4. Numbering(key, t, c)
  <2> HIDE DEF c
  <2> QED BY ChangesSoFar DEF c, ChangeNumbers
<1>5. m = Numbered(k, t, c)
  BY <1>3
<1>6. Orders(less, key)
  BY <1>1, BelowOrders DEF HashLess
<1>7. \A u, v \in Nodes : k.color[u] < k.color[v] => <<u, v>> \in less
  <2> TAKE u, v \in Nodes
  <2> HAVE k.color[u] < k.color[v]
  <2>1. FinalHash(g, k)[u] \in Words /\ FinalHash(g, k)[v] \in Words
    BY <1>1 DEF Hashed
  <2>2. Below(key[u], key[v])
    BY <1>1, <2>1, ColorKeyOrder
  <2> QED BY <2>2 DEF HashLess
<1> HIDE DEF less, c
<1>8. /\ InOrder(Numbered(k, t, c))
      /\ \A u, v \in Nodes :
            /\ key[u] = key[v] <=> Numbered(k, t, c).color[u] = Numbered(k, t, c).color[v]
            /\ <<u, v>> \in less => Numbered(k, t, c).color[u] < Numbered(k, t, c).color[v]
  BY <1>3, <1>4, <1>6, ColorsTell
<1>9. InOrder(m) /\ KeepsOrder(k, m)
  BY <1>5, <1>7, <1>8 DEF KeepsOrder
<1>10. \A u, v \in Nodes : m.color[u] = m.color[v] <=> key[u] = key[v]
  BY <1>5, <1>8
<1> QED BY <1>9, <1>10 DEF m, key

-----------------------------------------------------------------------------
Prints(g, k) == [u \in Nodes |-> Fingerprint(g, k, u)]

PrintLess(key) == {e \in Nodes \X Nodes : FingerprintBelow(key[e[1]], key[e[2]])}

FirstNumbers(key, t) == [i \in 1 .. N |-> Max({1} \cup Changes(Items(key, t, N), i)) - 1]

LEMMA RoundNumbered ==
    ASSUME NEW g \in [Nodes -> SUBSET Nodes], NEW k \in Colorings, NEW key, key = Prints(g, k)
    PROVE  \E t : /\ SortedNodes(PrintLess(key), t, N)
                  /\ RefineRound(g, k) = Numbered(k, t, FirstNumbers(key, t))
<1> DEFINE sorted == Sorted(key, FingerprintBelow)
<1>1. RefineRound(g, k) = SetColors(k, [i \in 1 .. N |->
             <<sorted[i].node, Max({1} \cup Changes(sorted, i)) - 1>>])
  BY DEF RefineRound, Prints
<1>2. PICK t : SortedNodes(PrintLess(key), t, N) /\ sorted = Items(key, t, N)
  BY FingerprintsSorted DEF PrintLess, Prints
<1> HIDE DEF sorted
<1> DEFINE c == FirstNumbers(key, t)
<1>3. \A i \in 1 .. N : sorted[i].node = t[i] /\ Max({1} \cup Changes(sorted, i)) - 1 = c[i]
  BY <1>2 DEF Items, Item, FirstNumbers
<1> HIDE DEF c
<1>4. RefineRound(g, k) = Numbered(k, t, c)
  BY <1>1, <1>3 DEF Numbered
<1> QED BY <1>2, <1>4 DEF c

LEMMA RoundColors ==
    ASSUME NEW g \in [Nodes -> SUBSET Nodes], NEW k, InOrder(k)
    PROVE  /\ WellFormed(RefineRound(g, k))
           /\ KeepsOrder(k, RefineRound(g, k))
           /\ \A u, v \in Nodes :
                 RefineRound(g, k).color[u] = RefineRound(g, k).color[v]
                    <=> Fingerprint(g, k, u) = Fingerprint(g, k, v)
<1> DEFINE key == Prints(g, k)
           less == PrintLess(key)
           m == RefineRound(g, k)
<1>0. k \in Colorings /\ N \in Nat \ {0}
  BY NAssumption DEF InOrder, Enumerates
<1>1. \E t : SortedNodes(less, t, N) /\ m = Numbered(k, t, FirstNumbers(key, t))
  <2> DEFINE f == key
  <2>1. f = Prints(g, k)
    OBVIOUS
  <2> HIDE DEF f
  <2>2. \E t : /\ SortedNodes(PrintLess(f), t, N)
               /\ RefineRound(g, k) = Numbered(k, t, FirstNumbers(f, t))
    BY <1>0, <2>1, RoundNumbered
  <2> QED BY <2>2 DEF f
<1>2. PICK t : SortedNodes(less, t, N) /\ m = Numbered(k, t, FirstNumbers(key, t))
  BY <1>1
<1>3. Orders(less, key)
  BY <1>0, FingerprintsOrder DEF PrintLess, Prints
<1>4. \A u \in Nodes : key[u] = Fingerprint(g, k, u) /\ key[u].own = k.color[u]
  <2> TAKE u \in Nodes
  <2>1. g[u] \in SUBSET Nodes
    OBVIOUS
  <2> QED BY <1>0, <2>1, FingerprintParts DEF Prints
<1> HIDE DEF key, m
<1> DEFINE c == FirstNumbers(key, t)
<1>5. Numbering(key, t, c) /\ \A i \in 2 .. N : c[i] \in {c[i-1], i-1}
  <2> HIDE DEF c
  <2> QED BY FirstPlaces DEF c, FirstNumbers
<1>6. m = Numbered(k, t, c)
  BY <1>2
<1>7. \A u, v \in Nodes : k.color[u] < k.color[v] => <<u, v>> \in less
  <2> TAKE u, v \in Nodes
  <2> HAVE k.color[u] < k.color[v]
  <2>1. FingerprintBelow(key[u], key[v])
    BY <1>4 DEF FingerprintBelow
  <2> QED BY <2>1 DEF PrintLess
<1> HIDE DEF less, c
<1>8. /\ InOrder(Numbered(k, t, c))
      /\ \A u, v \in Nodes :
            /\ key[u] = key[v] <=> Numbered(k, t, c).color[u] = Numbered(k, t, c).color[v]
            /\ <<u, v>> \in less => Numbered(k, t, c).color[u] < Numbered(k, t, c).color[v]
      /\ \A p \in Positions : ColorAtLabel(Numbered(k, t, c), p) = c[p+1]
  BY <1>2, <1>3, <1>5, ColorsTell
<1>9. KeepsOrder(k, m)
  BY <1>6, <1>7, <1>8 DEF KeepsOrder
<1>10. ASSUME NEW u \in Nodes, NEW v \in Nodes
       PROVE  m.color[u] = m.color[v] <=> Fingerprint(g, k, u) = Fingerprint(g, k, v)
  <2>1. key[u] = key[v] <=> m.color[u] = m.color[v]
    BY <1>6, <1>8
  <2> QED BY <1>4, <2>1
<1>11. ColorAtLabel(m, 0) = 0
  <2>1. 0 \in Positions /\ 0+1 = 1
    BY <1>0 DEF Positions
  <2>2. ColorAtLabel(m, 0) = c[0+1]
    BY <1>6, <1>8, <2>1
  <2> QED BY <1>5, <2>1, <2>2 DEF Numbering
<1>12. \A p \in 1 .. N-1 : ColorAtLabel(m, p) \in {ColorAtLabel(m, p-1), p}
  <2> TAKE p \in 1 .. N-1
  <2> DEFINE i == p+1
  <2>1. i \in 2 .. N /\ i-1 = p /\ (p-1)+1 = p /\ p \in Positions /\ p-1 \in Positions
    BY <1>0 DEF Positions
  <2>2. ColorAtLabel(m, p) = c[p+1] /\ ColorAtLabel(m, p-1) = c[(p-1)+1]
    BY <1>6, <1>8, <2>1
  <2>3. ColorAtLabel(m, p) = c[i] /\ ColorAtLabel(m, p-1) = c[i-1]
    BY <2>1, <2>2
  <2> HIDE DEF i
  <2>4. c[i] \in {c[i-1], i-1}
    BY <1>5, <2>1
  <2> QED BY <2>1, <2>3, <2>4
<1>13. WellFormed(m)
  BY <1>6, <1>8, <1>11, <1>12 DEF WellFormed, ClassStarts, InOrder
<1> QED BY <1>9, <1>10, <1>13 DEF m

-----------------------------------------------------------------------------
(***************************************************************************)
(* A round splits classes until the coloring is equitable, and then only   *)
(* keeps them.                                                             *)
(***************************************************************************)
LEMMA FingerprintsSame ==
    ASSUME NEW g \in [Nodes -> SUBSET Nodes], NEW k \in Colorings, NEW u \in Nodes, NEW v \in Nodes
    PROVE  Fingerprint(g, k, u) = Fingerprint(g, k, v) <=>
              /\ k.color[u] = k.color[v]
              /\ \A c \in Nodes : Cardinality({w \in g[u] : k.color[w] = c})
                                   = Cardinality({w \in g[v] : k.color[w] = c})
<1> DEFINE a == Fingerprint(g, k, u)
           b == Fingerprint(g, k, v)
<1>1. /\ a.own = k.color[u] /\ a.count \in Counts
      /\ \A c \in Nodes : a.count[c] = Cardinality({w \in g[u] : k.color[w] = c})
      /\ a = [own |-> a.own, count |-> a.count]
  BY FingerprintParts
<1>2. /\ b.own = k.color[v] /\ b.count \in Counts
      /\ \A c \in Nodes : b.count[c] = Cardinality({w \in g[v] : k.color[w] = c})
      /\ b = [own |-> b.own, count |-> b.count]
  BY FingerprintParts
<1> HIDE DEF a, b
<1>3. a.count = b.count <=> \A c \in Nodes : a.count[c] = b.count[c]
  BY <1>1, <1>2 DEF Counts
<1>4. a = b <=> a.own = b.own /\ a.count = b.count
  BY <1>1, <1>2
<1>5. a = b <=> /\ k.color[u] = k.color[v]
                /\ \A c \in Nodes : Cardinality({w \in g[u] : k.color[w] = c})
                                     = Cardinality({w \in g[v] : k.color[w] = c})
  BY <1>1, <1>2, <1>3, <1>4
<1> QED BY <1>5 DEF a, b

SameClasses(a, b) == \A u, v \in Nodes : a[u] = a[v] <=> b[u] = b[v]

LEMMA EquitableSame ==
    ASSUME NEW g \in [Nodes -> SUBSET Nodes], NEW a \in [Nodes -> Nodes], NEW b \in [Nodes -> Nodes],
           SameClasses(a, b), Equitable(g, a)
    PROVE  Equitable(g, b)
<1> SUFFICES ASSUME NEW u \in Nodes, NEW v \in Nodes, b[u] = b[v], NEW c \in Nodes
             PROVE  Cardinality({w \in g[u] : b[w] = c}) = Cardinality({w \in g[v] : b[w] = c})
  BY DEF Equitable, Same
<1>1. a[u] = a[v]
  BY DEF SameClasses
<1>2. CASE \E x \in Nodes : b[x] = c
  <2>1. PICK x \in Nodes : b[x] = c
    BY <1>2
  <2>2. a[x] \in Nodes
    OBVIOUS
  <2>3. \A w \in Nodes : b[w] = c <=> a[w] = a[x]
    BY <2>1 DEF SameClasses
  <2>4. /\ {w \in g[u] : b[w] = c} = {w \in g[u] : a[w] = a[x]}
        /\ {w \in g[v] : b[w] = c} = {w \in g[v] : a[w] = a[x]}
    BY <2>3
  <2>5. Cardinality({w \in g[u] : a[w] = a[x]}) = Cardinality({w \in g[v] : a[w] = a[x]})
    BY <1>1, <2>2 DEF Equitable, Same
  <2> QED BY <2>4, <2>5
<1>3. CASE ~\E x \in Nodes : b[x] = c
  <2>1. {w \in g[u] : b[w] = c} = {w \in g[v] : b[w] = c}
    BY <1>3
  <2> QED BY <2>1
<1> QED BY <1>2, <1>3

LEMMA RoundKeepsEquitable ==
    ASSUME NEW g \in [Nodes -> SUBSET Nodes], NEW k, InOrder(k), Equitable(g, k.color)
    PROVE  Equitable(g, RefineRound(g, k).color)
<1> DEFINE m == RefineRound(g, k)
<1>1. /\ WellFormed(m)
      /\ \A u, v \in Nodes :
            m.color[u] = m.color[v] <=> Fingerprint(g, k, u) = Fingerprint(g, k, v)
  BY RoundColors
<1> HIDE DEF m
<1>2. k \in Colorings /\ k.color \in [Nodes -> Nodes] /\ m.color \in [Nodes -> Nodes]
  BY <1>1 DEF WellFormed, InOrder, Enumerates, Colorings
<1>3. ASSUME NEW u \in Nodes, NEW v \in Nodes
      PROVE  Fingerprint(g, k, u) = Fingerprint(g, k, v) <=> k.color[u] = k.color[v]
  <2>1. k.color[u] = k.color[v] =>
          \A c \in Nodes : Cardinality({w \in g[u] : k.color[w] = c})
                            = Cardinality({w \in g[v] : k.color[w] = c})
    BY DEF Equitable, Same
  <2> QED BY <1>2, <2>1, FingerprintsSame
<1>4. SameClasses(k.color, m.color)
  BY <1>1, <1>3 DEF SameClasses
<1>5. Equitable(g, m.color)
  BY <1>2, <1>4, EquitableSame
<1> QED BY <1>5 DEF m

\* n nodes of different colors.
HasColors(color, n) ==
    \E X \in SUBSET Nodes : /\ Cardinality(X) = n
                            /\ \A x, y \in X : color[x] = color[y] => x = y

LEMMA RoundSplits ==
    ASSUME NEW g \in [Nodes -> SUBSET Nodes], NEW k, InOrder(k), ~Equitable(g, k.color),
           NEW n \in Nat, HasColors(k.color, n)
    PROVE  HasColors(RefineRound(g, k).color, n+1)
<1> DEFINE m == RefineRound(g, k)
           a == k.color
           b == m.color
<1>1. /\ WellFormed(m) /\ KeepsOrder(k, m)
      /\ \A u, v \in Nodes :
            m.color[u] = m.color[v] <=> Fingerprint(g, k, u) = Fingerprint(g, k, v)
  BY RoundColors
<1>2. k \in Colorings /\ m \in Colorings
  BY <1>1 DEF WellFormed, InOrder, Enumerates
<1>3. \A u, v \in Nodes : a[u] # a[v] => b[u] # b[v]
  BY <1>1, <1>2, OrderKeepsApart DEF KeepsApart
<1>4. PICK u \in Nodes, v \in Nodes :
         /\ a[u] = a[v]
         /\ ~\A c \in Nodes : Cardinality({w \in g[u] : a[w] = c}) = Cardinality({w \in g[v] : a[w] = c})
  BY DEF Equitable, Same
<1>5. b[u] # b[v]
  BY <1>1, <1>2, <1>4, FingerprintsSame
<1>6. PICK X \in SUBSET Nodes : /\ Cardinality(X) = n
                                /\ \A x, y \in X : a[x] = a[y] => x = y
  BY DEF HasColors
<1> HIDE DEF m, a, b
<1>7. IsFiniteSet(X)
  BY NodeSetsFinite
<1>8. PICK y \in Nodes : y \notin X /\ \A z \in X : b[y] # b[z]
  <2>1. CASE \E x \in X : a[x] = a[u]
    <3>1. PICK x \in X : a[x] = a[u]
      BY <2>1
    <3>2. PICK y \in {u, v} : b[y] # b[x]
      BY <1>5
    <3>3. y \in Nodes /\ a[y] = a[x]
      BY <1>4, <3>1
    <3>4. \A z \in X : z # x => a[z] # a[y]
      BY <1>6, <3>3
    <3>5. \A z \in X : b[y] # b[z]
      BY <1>3, <3>2, <3>3, <3>4
    <3>6. y \notin X
      BY <3>5
    <3> QED BY <3>3, <3>5, <3>6
  <2>2. CASE ~\E x \in X : a[x] = a[u]
    <3>1. \A z \in X : b[u] # b[z]
      BY <1>3, <2>2
    <3> QED BY <3>1
  <2> QED BY <2>1, <2>2
<1> DEFINE Y == X \cup {y}
<1>9. Y \in SUBSET Nodes /\ Cardinality(Y) = n+1
  <2>1. Cardinality(X \cup {y}) = Cardinality(X) + 1
    BY <1>7, <1>8, FS_AddElement
  <2> QED BY <1>6, <2>1
<1>10. \A x, z \in Y : b[x] = b[z] => x = z
  <2>1. \A x, z \in X : b[x] = b[z] => x = z
    BY <1>3, <1>6
  <2> QED BY <1>8, <2>1
<1> HIDE DEF Y
<1>11. HasColors(b, n+1)
  BY <1>9, <1>10 DEF HasColors
<1> QED BY <1>11 DEF b, m

LEMMA AllColors ==
    ASSUME NEW g \in [Nodes -> SUBSET Nodes], NEW a \in [Nodes -> Nodes], HasColors(a, N)
    PROVE  Equitable(g, a)
<1>1. PICK X \in SUBSET Nodes : /\ Cardinality(X) = N
                                /\ \A x, y \in X : a[x] = a[y] => x = y
  BY DEF HasColors
<1>2. IsFiniteSet(Nodes) /\ Cardinality(Nodes) = N
  BY SizeBelow, NAssumption DEF Nodes
<1>3. X = Nodes
  BY <1>1, <1>2, FS_Subset
<1>4. \A u, v \in Nodes : a[u] = a[v] => u = v
  BY <1>1, <1>3
<1> QED BY <1>4 DEF Equitable, Same

-----------------------------------------------------------------------------
(***************************************************************************)
(* No step separates two nodes that an equitable refinement of the input   *)
(* keeps together.                                                         *)
(***************************************************************************)
SameWithin(c, f) == \A u, v \in Nodes : c[u] = c[v] => f[u] = f[v]

LEMMA NeighboursMatch ==
    ASSUME NEW g \in [Nodes -> SUBSET Nodes], NEW c \in [Nodes -> Nodes], Equitable(g, c),
           NEW f, SameWithin(c, f), NEW u \in Nodes, NEW v \in Nodes, c[u] = c[v]
    PROVE  \E p : Matches(f, f, g[u], g[v], p)
<1> DEFINE S == g[u]
           T == g[v]
<1>1. S \in SUBSET Nodes /\ T \in SUBSET Nodes
  OBVIOUS
<1>2. \A d \in Nodes : Cardinality({w \in S : c[w] = d}) = Cardinality({w \in T : c[w] = d})
  BY DEF Equitable, Same
<1> HIDE DEF S, T
<1>3. PICK p : Matches(c, c, S, T, p)
  BY <1>1, <1>2, CountsMatch
<1>4. \A x \in S : f[p[x]] = f[x]
  <2> TAKE x \in S
  <2>1. x \in Nodes /\ p[x] \in Nodes /\ c[p[x]] = c[x]
    BY <1>1, <1>3 DEF Matches
  <2> QED BY <2>1 DEF SameWithin
<1>5. Matches(f, f, S, T, p)
  BY <1>3, <1>4 DEF Matches
<1> QED BY <1>5 DEF S, T

LEMMA RoundKeepsTogether ==
    ASSUME NEW g \in [Nodes -> SUBSET Nodes], NEW k, InOrder(k),
           NEW c \in [Nodes -> Nodes], Equitable(g, c), SameWithin(c, k.color)
    PROVE  SameWithin(c, RefineRound(g, k).color)
<1> SUFFICES ASSUME NEW u \in Nodes, NEW v \in Nodes, c[u] = c[v]
             PROVE  RefineRound(g, k).color[u] = RefineRound(g, k).color[v]
  BY DEF SameWithin
<1>1. PICK p : Matches(k.color, k.color, g[u], g[v], p)
  <2> DEFINE f == k.color
  <2>1. SameWithin(c, f)
    OBVIOUS
  <2> HIDE DEF f
  <2>2. \E p : Matches(f, f, g[u], g[v], p)
    BY <2>1, NeighboursMatch
  <2> QED BY <2>2 DEF f
<1>2. \A d \in Nodes : Cardinality({w \in g[u] : k.color[w] = d})
                        = Cardinality({w \in g[v] : k.color[w] = d})
  <2> DEFINE f == k.color
             S == g[u]
             T == g[v]
  <2>1. Matches(f, f, S, T, p)
    BY <1>1
  <2> HIDE DEF f, S, T
  <2>2. \A d \in Nodes : CountOf(f, S, d) = CountOf(f, T, d)
    BY <2>1, MatchCounts
  <2> QED BY <2>2 DEF f, S, T, CountOf
<1>3. k.color[u] = k.color[v] /\ k \in Colorings
  BY DEF SameWithin, InOrder, Enumerates
<1>4. Fingerprint(g, k, u) = Fingerprint(g, k, v)
  BY <1>2, <1>3, FingerprintsSame
<1> QED BY <1>4, RoundColors

LEMMA HashRoundKeepsTogether ==
    ASSUME NEW g \in [Nodes -> SUBSET Nodes], NEW f \in Hashed,
           NEW c \in [Nodes -> Nodes], Equitable(g, c), SameWithin(c, f)
    PROVE  SameWithin(c, HashRound(g, f))
<1> SUFFICES ASSUME NEW u \in Nodes, NEW v \in Nodes, c[u] = c[v]
             PROVE  HashRound(g, f)[u] = HashRound(g, f)[v]
  BY DEF SameWithin
<1>1. f[u] = f[v] /\ f[u] \in Words
  BY DEF SameWithin, Hashed
<1> DEFINE base == HashFmix32(f[u])
           S == g[u]
           T == g[v]
<1>2. base \in Words
  BY <1>1, FinalizedWord
<1>3. PICK p : Matches(f, f, S, T, p)
  BY NeighboursMatch
<1>4. HashRound(g, f)[u] = HashFmix32(SumOf(f, S, base))
      /\ HashRound(g, f)[v] = HashFmix32(SumOf(f, T, base))
  BY <1>1 DEF HashRound
<1> HIDE DEF base, S, T
<1>5. SumOf(f, S, base) = SumOf(f, T, base)
  BY <1>2, <1>3, SumCarries
<1> QED BY <1>4, <1>5

LEMMA HashingKeepsTogether ==
    ASSUME FewNodes, NEW g \in [Nodes -> SUBSET Nodes], NEW k, InOrder(k),
           NEW c \in [Nodes -> Nodes], Equitable(g, c), SameWithin(c, k.color)
    PROVE  SameWithin(c, Hashing(g, k, 2).color)
<1> DEFINE a == Start(k)
           b == HashRound(g, a)
<1>1. k \in Colorings
  BY DEF InOrder, Enumerates
<1>2. a \in Hashed /\ b \in Hashed
  BY <1>1, StartHashed, RoundHashed
<1>3. SameWithin(c, a)
  BY DEF SameWithin, Start
<1> HIDE DEF a
<1>4. SameWithin(c, b)
  BY <1>2, <1>3, HashRoundKeepsTogether
<1> HIDE DEF b
<1>5. SameWithin(c, HashRound(g, b))
  BY <1>2, <1>4, HashRoundKeepsTogether
<1>6. SameWithin(c, FinalHash(g, k))
  BY <1>5 DEF FinalHash, a, b
<1>7. HashKeys(g, k, 2) = [u \in Nodes |-> ColorKey(FinalHash(g, k)[u], k.color[u])]
  BY <1>1, KeysHashed
<1>8. SameWithin(c, HashKeys(g, k, 2))
  BY <1>6, <1>7 DEF SameWithin
<1> QED BY <1>8, HashingColors DEF SameWithin

-----------------------------------------------------------------------------
(***************************************************************************)
(* The rounds of refine (naive.hpp:85-131).                                *)
(***************************************************************************)
RoundStates == [coloring : {j \in Colorings : InOrder(j)}, stable : BOOLEAN]

NextRound(g, s) ==
    IF s.stable THEN s
    ELSE [coloring |-> RefineRound(g, s.coloring),
          stable   |-> RefineRound(g, s.coloring).color = s.coloring.color]

AreRounds(g, k, w) ==
    /\ w \in [0 .. N-1 -> RoundStates]
    /\ w[0] = [coloring |-> k, stable |-> FALSE]
    /\ \A i \in 1 .. N-1 : w[i] = NextRound(g, w[i-1])

LEMMA RoundsTaken ==
    ASSUME NEW g \in [Nodes -> SUBSET Nodes], NEW k, InOrder(k)
    PROVE  \E w : AreRounds(g, k, w) /\ RefineRounds(g, k) = w[N-1].coloring
<1> DEFINE V == RoundStates
           n == N-1
           start == [coloring |-> k, stable |-> FALSE]
           Solves(w) == w = [r \in 0 .. N-1 |->
                               IF r = 0 THEN [coloring |-> k, stable |-> FALSE]
                               ELSE LET s == w[r-1]
                                        next == RefineRound(g, s.coloring)
                                    IN  IF s.stable THEN s
                                        ELSE [coloring |-> next, stable |-> next.color = s.coloring.color]]
           after == CHOOSE w : Solves(w)
           step == [i \in 1 .. n |-> [s \in V |-> NextRound(g, s)]]
<1>0. n \in Nat
  BY NAssumption
<1>1. start \in V
  BY DEF RoundStates, InOrder, Enumerates
<1>2. ASSUME NEW s \in V PROVE NextRound(g, s) \in V
  <2>1. InOrder(s.coloring)
    BY DEF RoundStates
  <2> DEFINE m == RefineRound(g, s.coloring)
  <2>2. InOrder(m)
    BY <2>1, RoundColors, WellFormedInOrder
  <2> HIDE DEF m
  <2>3. m \in Colorings
    BY <2>2 DEF InOrder, Enumerates
  <2>4. NextRound(g, s) = IF s.stable THEN s
                          ELSE [coloring |-> m, stable |-> m.color = s.coloring.color]
    BY DEF NextRound, m
  <2>5. [coloring |-> m, stable |-> m.color = s.coloring.color] \in RoundStates
    BY <2>2, <2>3 DEF RoundStates
  <2> QED BY <2>4, <2>5
<1>3. step \in [1 .. n -> [V -> V]]
  <2> HIDE DEF V, n
  <2> QED BY <1>2
<1>4. PICK w : Iterates(n, V, start, step, w)
  <2> HIDE DEF step, V, start, n
  <2> QED BY <1>0, <1>1, <1>3, IterationExists
<1>5. w \in [0 .. n -> V] /\ w[0] = start /\ \A i \in 1 .. n : w[i] = step[i][w[i-1]]
  <2> HIDE DEF step, V, start, n
  <2> QED BY <1>4 DEF Iterates
<1>6. \A i \in 1 .. n : w[i] = NextRound(g, w[i-1])
  <2> TAKE i \in 1 .. n
  <2>1. w[i-1] \in V
    <3>1. i-1 \in 0 .. n
      BY <1>0
    <3> HIDE DEF V, n, start, step
    <3> QED BY <1>5, <3>1
  <2> HIDE DEF V, n
  <2> QED BY <1>5, <2>1
<1>7. AreRounds(g, k, w)
  BY <1>5, <1>6 DEF AreRounds
<1>8. Solves(w)
  <2>1. \A r \in 0 .. n : w[r] = IF r = 0 THEN start ELSE NextRound(g, w[r-1])
    <3> TAKE r \in 0 .. n
    <3>1. r = 0 \/ r \in 1 .. n
      BY <1>0
    <3> HIDE DEF V, n, start, step
    <3> QED BY <1>5, <1>6, <3>1
  <2>2. w = [r \in 0 .. n |-> IF r = 0 THEN start ELSE NextRound(g, w[r-1])]
    <3> HIDE DEF V, n, start, step
    <3> QED BY <1>5, <2>1
  <2> QED BY <2>2 DEF NextRound
<1>9. Solves(after)
  <2> HIDE DEF Solves
  <2> QED BY <1>8
<1>10. RefineRounds(g, k) = after[N-1].coloring
  BY DEF RefineRounds
<1> HIDE DEF after
<1>11. after = [r \in 0 .. n |-> IF r = 0 THEN start ELSE NextRound(g, after[r-1])]
  BY <1>9 DEF NextRound
<1>12. AreRounds(g, k, after)
  <2>1. after[0] = start /\ \A i \in 1 .. n : after[i] = NextRound(g, after[i-1])
    <3> HIDE DEF start, n
    <3>1. \A i \in 1 .. n : i \in 0 .. n /\ i # 0
      BY <1>0
    <3> QED BY <1>0, <1>11, <3>1
  <2> DEFINE T == {i \in 0 .. n : after[i] \in V}
  <2>2. 0 \in T
    BY <1>0, <1>1, <2>1
  <2>3. ASSUME NEW i \in 1 .. n, i-1 \in T PROVE i \in T
    <3>1. i \in 0 .. n /\ after[i-1] \in V
      BY <1>0, <2>3
    <3> HIDE DEF V, n
    <3> QED BY <1>2, <2>1, <3>1
  <2>4. \A i \in 0 .. n : i \in T
    <3> HIDE DEF T, n
    <3> QED BY <1>0, <2>2, <2>3, UpTo
  <2>5. after \in [0 .. n -> V]
    <3> HIDE DEF V, n, start
    <3> QED BY <1>11, <2>4
  <2> QED BY <2>1, <2>5 DEF AreRounds
<1> QED BY <1>10, <1>12

\* A round that changes no color was given an equitable coloring.
LEMMA UnchangedIsEquitable ==
    ASSUME NEW g \in [Nodes -> SUBSET Nodes], NEW k, InOrder(k),
           RefineRound(g, k).color = k.color
    PROVE  Equitable(g, k.color)
<1>1. k \in Colorings
  BY DEF InOrder, Enumerates
<1>2. ASSUME NEW u \in Nodes, NEW v \in Nodes, k.color[u] = k.color[v]
      PROVE  \A c \in Nodes : Cardinality({w \in g[u] : k.color[w] = c})
                               = Cardinality({w \in g[v] : k.color[w] = c})
  <2>1. Fingerprint(g, k, u) = Fingerprint(g, k, v)
    BY <1>2, RoundColors
  <2> QED BY <1>1, <2>1, FingerprintsSame
<1> QED BY <1>2 DEF Equitable, Same

Reached(g, k, i, s) ==
    /\ InOrder(s.coloring)
    /\ KeepsOrder(k, s.coloring)
    /\ i > 0 => WellFormed(s.coloring)
    /\ \/ Equitable(g, s.coloring.color)
       \/ ~s.stable /\ HasColors(s.coloring.color, i+1)

LEMMA NextReached ==
    ASSUME NEW g \in [Nodes -> SUBSET Nodes], NEW k, InOrder(k), NEW i \in Nat \ {0},
           NEW s \in RoundStates, Reached(g, k, i-1, s), i > 1 \/ ~s.stable
    PROVE  Reached(g, k, i, NextRound(g, s))
<1> DEFINE j == s.coloring
           m == RefineRound(g, j)
<1>1. InOrder(j) /\ KeepsOrder(k, j)
  BY DEF Reached
<1>2. CASE s.stable
  BY <1>2 DEF NextRound, Reached
<1>3. CASE ~s.stable
  <2>1. NextRound(g, s) = [coloring |-> m, stable |-> m.color = j.color]
    BY <1>3 DEF NextRound
  <2>2. WellFormed(m) /\ KeepsOrder(j, m)
    BY <1>1, RoundColors
  <2>3. InOrder(m) /\ KeepsOrder(k, m)
    BY <1>1, <2>2, WellFormedInOrder DEF KeepsOrder
  <2>4. Equitable(g, m.color) \/ (m.color # j.color /\ HasColors(m.color, i+1))
    <3>1. CASE Equitable(g, j.color)
      BY <1>1, <3>1, RoundKeepsEquitable
    <3>2. CASE ~Equitable(g, j.color)
      <4>1. HasColors(j.color, (i-1)+1) /\ (i-1)+1 = i
        BY <3>2 DEF Reached
      <4>2. HasColors(m.color, i+1)
        BY <1>1, <3>2, <4>1, RoundSplits
      <4>3. m.color # j.color
        BY <1>1, <3>2, UnchangedIsEquitable
      <4> QED BY <4>2, <4>3
    <3> QED BY <3>1, <3>2
  <2> HIDE DEF j, m
  <2>5. Reached(g, k, i, [coloring |-> m, stable |-> m.color = j.color])
    BY <2>2, <2>3, <2>4 DEF Reached
  <2> QED BY <2>1, <2>5
<1> QED BY <1>2, <1>3

LEMMA RoundsReach ==
    ASSUME NEW g \in [Nodes -> SUBSET Nodes], NEW k, InOrder(k), NEW w, AreRounds(g, k, w),
           NEW i \in 0 .. N-1
    PROVE  Reached(g, k, i, w[i])
<1> DEFINE n == N-1
           T == {r \in 0 .. n : Reached(g, k, r, w[r]) /\ (r = 0 => ~w[r].stable)}
<1>1. n \in Nat
  BY NAssumption
<1>2. /\ w \in [0 .. n -> RoundStates]
      /\ w[0] = [coloring |-> k, stable |-> FALSE]
      /\ \A r \in 1 .. n : w[r] = NextRound(g, w[r-1])
  BY DEF AreRounds
<1> HIDE DEF n
<1>3. HasColors(k.color, 0+1)
  <2> DEFINE X == {0}
  <2>1. X \in SUBSET Nodes /\ Cardinality(X) = 0+1
    <3>1. 0 \in Nodes
      BY NAssumption DEF Nodes
    <3>2. Cardinality({0}) = 1
      BY FS_Singleton
    <3> QED BY <3>1, <3>2
  <2>2. \A x, y \in X : k.color[x] = k.color[y] => x = y
    OBVIOUS
  <2> HIDE DEF X
  <2> QED BY <2>1, <2>2 DEF HasColors
<1>4. 0 \in T
  <2>1. KeepsOrder(k, k)
    BY DEF KeepsOrder
  <2>2. Reached(g, k, 0, [coloring |-> k, stable |-> FALSE])
    BY <1>3, <2>1 DEF Reached
  <2>3. Reached(g, k, 0, w[0]) /\ ~w[0].stable /\ 0 \in 0 .. n
    BY <1>1, <1>2, <2>2
  <2> QED BY <2>3
<1>5. ASSUME NEW r \in 1 .. n, r-1 \in T PROVE r \in T
  <2>1. r \in Nat \ {0} /\ r \in 0 .. n /\ w[r-1] \in RoundStates
    BY <1>1, <1>2
  <2>2. Reached(g, k, r-1, w[r-1]) /\ (r-1 = 0 => ~w[r-1].stable)
    BY <1>5
  <2>3. r > 1 \/ ~w[r-1].stable
    <3>1. r > 1 \/ r-1 = 0
      BY <2>1
    <3> QED BY <2>2, <3>1
  <2>4. Reached(g, k, r, NextRound(g, w[r-1]))
    BY <2>1, <2>2, <2>3, NextReached
  <2> QED BY <1>2, <2>1, <2>4
<1>6. \A r \in 0 .. n : r \in T
  <2> HIDE DEF T
  <2> QED BY <1>1, <1>4, <1>5, UpTo
<1> QED BY <1>6 DEF n

LEMMA RoundsKeepTogether ==
    ASSUME NEW g \in [Nodes -> SUBSET Nodes], NEW k, InOrder(k), NEW w, AreRounds(g, k, w),
           NEW c \in [Nodes -> Nodes], Equitable(g, c), SameWithin(c, k.color), NEW i \in 0 .. N-1
    PROVE  SameWithin(c, w[i].coloring.color)
<1> DEFINE n == N-1
           T == {r \in 0 .. n : SameWithin(c, w[r].coloring.color)}
<1>1. n \in Nat
  BY NAssumption
<1>2. /\ w \in [0 .. n -> RoundStates]
      /\ w[0] = [coloring |-> k, stable |-> FALSE]
      /\ \A r \in 1 .. n : w[r] = NextRound(g, w[r-1])
  BY DEF AreRounds
<1> HIDE DEF n
<1>3. 0 \in T
  BY <1>1, <1>2
<1>4. ASSUME NEW r \in 1 .. n, r-1 \in T PROVE r \in T
  <2> DEFINE s == w[r-1]
  <2>1. r \in 0 .. n /\ s \in RoundStates /\ SameWithin(c, s.coloring.color)
    BY <1>1, <1>2, <1>4
  <2>2. InOrder(s.coloring) /\ w[r] = NextRound(g, s)
    BY <1>2, <2>1 DEF RoundStates
  <2> HIDE DEF s
  <2>3. SameWithin(c, RefineRound(g, s.coloring).color)
    BY <2>1, <2>2, RoundKeepsTogether
  <2>4. SameWithin(c, NextRound(g, s).coloring.color)
    BY <2>1, <2>3 DEF NextRound
  <2> QED BY <2>1, <2>2, <2>4
<1>5. \A r \in 0 .. n : r \in T
  <2> HIDE DEF T
  <2> QED BY <1>1, <1>3, <1>4, UpTo
<1> QED BY <1>5 DEF n

-----------------------------------------------------------------------------
(***************************************************************************)
(* NaiveRefine as a whole.                                                 *)
(***************************************************************************)
LEMMA OneNodeWellFormed ==
    ASSUME NEW k, InOrder(k), N = 1
    PROVE  WellFormed(k)
<1>1. 0 \in Positions /\ Nodes = {0}
  BY NAssumption DEF Positions, Nodes
<1>2. ColorAtLabel(k, 0) \in Nodes
  BY <1>1, ColorsAreNodes DEF InOrder
<1> QED BY <1>1, <1>2 DEF WellFormed, ClassStarts, InOrder

LEMMA NaiveRefines ==
    ASSUME FewNodes, NEW g \in [Nodes -> SUBSET Nodes], NEW k, InOrder(k)
    PROVE  /\ WellFormed(NaiveRefine(g, k))
           /\ KeepsOrder(k, NaiveRefine(g, k))
           /\ Equitable(g, NaiveRefine(g, k).color)
           /\ \A c \in [Nodes -> Nodes] : Equitable(g, c) /\ SameWithin(c, k.color)
                 => SameWithin(c, NaiveRefine(g, k).color)
<1> DEFINE j == Hashing(g, k, 2)
           m == NaiveRefine(g, k)
           n == N-1
<1>1. InOrder(j) /\ KeepsOrder(k, j)
  BY HashingColors
<1>2. n \in Nat /\ n \in 0 .. N-1 /\ n+1 = N /\ (n > 0 \/ N = 1)
  BY NAssumption
<1>3. m = RefineRounds(g, j)
  BY DEF NaiveRefine
<1>4. ASSUME NEW c \in [Nodes -> Nodes], Equitable(g, c), SameWithin(c, k.color)
      PROVE  SameWithin(c, j.color)
  BY <1>4, HashingKeepsTogether
<1> HIDE DEF j, m
<1>5. PICK w : AreRounds(g, j, w) /\ m = w[n].coloring
  BY <1>1, <1>3, RoundsTaken
<1> HIDE DEF n
<1>6. Reached(g, j, n, w[n])
  BY <1>1, <1>2, <1>5, RoundsReach
<1>7. InOrder(m) /\ KeepsOrder(j, m) /\ (n > 0 => WellFormed(m))
      /\ (Equitable(g, m.color) \/ HasColors(m.color, N))
  BY <1>2, <1>5, <1>6 DEF Reached
<1>8. WellFormed(m)
  BY <1>2, <1>7, OneNodeWellFormed
<1>9. KeepsOrder(k, m)
  BY <1>1, <1>7 DEF KeepsOrder
<1>10. Equitable(g, m.color)
  <2>1. m.color \in [Nodes -> Nodes]
    BY <1>7 DEF InOrder, Enumerates, Colorings
  <2> QED BY <1>7, <2>1, AllColors
<1>11. ASSUME NEW c \in [Nodes -> Nodes], Equitable(g, c), SameWithin(c, k.color)
       PROVE  SameWithin(c, m.color)
  <2>1. SameWithin(c, j.color)
    BY <1>4, <1>11
  <2>2. SameWithin(c, w[n].coloring.color)
    BY <1>1, <1>2, <1>5, <1>11, <2>1, RoundsKeepTogether
  <2> QED BY <1>5, <2>2
<1> QED BY <1>8, <1>9, <1>10, <1>11 DEF m

-----------------------------------------------------------------------------
(***************************************************************************)
(* Sorting networks.  Words are pairs of integers; a register holds one    *)
(* for each of the lanes 0 .. n-1.                                         *)
(***************************************************************************)
Pairs == Int \X Int
LanesOf(n) == 0 .. n-1
Registers(n) == [LanesOf(n) -> Pairs]

LEMMA PairParts ==
    ASSUME NEW v \in Pairs
    PROVE  v[1] \in Int /\ v[2] \in Int /\ v = <<v[1], v[2]>>
BY DEF Pairs

LEMMA BelowIsOrder ==
    ASSUME NEW v \in Pairs, NEW w \in Pairs
    PROVE  /\ ~Below(v, v)
           /\ Below(v, w) => ~Below(w, v)
           /\ ~Below(v, w) /\ ~Below(w, v) => v = w
<1>1. v[1] \in Int /\ v[2] \in Int /\ w[1] \in Int /\ w[2] \in Int
  BY PairParts
<1>2. ~Below(v, v) /\ (Below(v, w) => ~Below(w, v))
  BY <1>1 DEF Below
<1>3. ASSUME ~Below(v, w), ~Below(w, v) PROVE v = w
  <2>1. v[1] = w[1] /\ v[2] = w[2]
    BY <1>1, <1>3 DEF Below
  <2>2. v = <<v[1], v[2]>> /\ w = <<w[1], w[2]>>
    BY PairParts
  <2> QED BY <2>1, <2>2
<1> QED BY <1>2, <1>3

LEMMA BelowTransitive ==
    ASSUME NEW v \in Pairs, NEW w \in Pairs, NEW x \in Pairs
    PROVE  /\ Below(v, w) /\ Below(w, x) => Below(v, x)
           /\ ~Below(w, v) /\ ~Below(x, w) => ~Below(x, v)
<1>1. v[1] \in Int /\ v[2] \in Int /\ w[1] \in Int /\ w[2] \in Int /\ x[1] \in Int /\ x[2] \in Int
  BY PairParts
<1> QED BY <1>1 DEF Below

\* A word seen from a threshold.
AtLeast(t, w) == ~Below(w, t)

LEMMA ExchangedAtLeast ==
    ASSUME NEW v \in Pairs, NEW w \in Pairs, NEW t \in Pairs, ~Below(w, v)
    PROVE  /\ AtLeast(t, v) <=> AtLeast(t, v) /\ AtLeast(t, w)
           /\ AtLeast(t, w) <=> AtLeast(t, v) \/ AtLeast(t, w)
<1>1. AtLeast(t, v) => AtLeast(t, w)
  BY BelowTransitive DEF AtLeast
<1> QED BY <1>1

-----------------------------------------------------------------------------
\* The pairs of a layer have no lane in common.
IsLayer(layer, L) ==
    /\ layer \subseteq L \X L
    /\ \A xy \in layer : xy[1] # xy[2]
    /\ \A xy, zw \in layer : {xy[1], xy[2]} \cap {zw[1], zw[2]} # {} => xy = zw

IsPermutation(f, L) ==
    /\ f \in [L -> L]
    /\ \A i, j \in L : f[i] = f[j] => i = j
    /\ \A j \in L : \E i \in L : f[i] = j

\* f moves no lane out of its pair.
WithinPairs(f, layer, L) ==
    \A i \in L : f[i] = i \/ \E xy \in layer : {i, f[i]} = {xy[1], xy[2]}

Misplaced(values, xy, ascending) ==
    IF ascending THEN Below(values[xy[2]], values[xy[1]])
    ELSE Below(values[xy[1]], values[xy[2]])

InPair(i, xy) == i = xy[1] \/ i = xy[2]

\* Where the words of the lanes come from when a layer exchanges misplaced pairs.
Exchange(f, values, layer, ascending, L) ==
    /\ f \in [L -> L]
    /\ \A xy \in layer : IF Misplaced(values, xy, ascending)
                         THEN f[xy[1]] = xy[2] /\ f[xy[2]] = xy[1]
                         ELSE f[xy[1]] = xy[1] /\ f[xy[2]] = xy[2]
    /\ \A i \in L : (\A xy \in layer : ~InPair(i, xy)) => f[i] = i

LEMMA PairFacts ==
    ASSUME NEW L, NEW layer, IsLayer(layer, L), NEW xy \in layer
    PROVE  /\ xy[1] \in L /\ xy[2] \in L /\ xy[1] # xy[2]
           /\ \A zw \in layer : (InPair(xy[1], zw) \/ InPair(xy[2], zw)) => zw = xy
BY DEF IsLayer, InPair

LEMMA LayerExchanges ==
    ASSUME NEW L, NEW layer, IsLayer(layer, L), NEW v \in [L -> Pairs], NEW ascending \in BOOLEAN
    PROVE  \E f : /\ Exchange(f, v, layer, ascending, L)
                  /\ CompareLayer(v, layer, ascending) = [i \in L |-> v[f[i]]]
<1> DEFINE out == {xy \in layer : Misplaced(v, xy, ascending)}
           Of(i) == {xy \in out : i \in {xy[1], xy[2]}}
           Other(i, xy) == IF i = xy[1] THEN xy[2] ELSE xy[1]
           f == [i \in L |-> IF Of(i) = {} THEN i ELSE Other(i, CHOOSE xy \in Of(i) : TRUE)]
<1>1. ASSUME NEW xy \in layer, Misplaced(v, xy, ascending)
      PROVE  f[xy[1]] = xy[2] /\ f[xy[2]] = xy[1]
  <2>1. /\ xy[1] \in L /\ xy[2] \in L /\ xy[1] # xy[2]
        /\ \A zw \in layer : (InPair(xy[1], zw) \/ InPair(xy[2], zw)) => zw = xy
    BY PairFacts
  <2>2. Of(xy[1]) = {xy} /\ Of(xy[2]) = {xy}
    BY <1>1, <2>1 DEF InPair
  <2>3. (CHOOSE zw \in {xy} : TRUE) = xy
    OBVIOUS
  <2>4. f[xy[1]] = Other(xy[1], xy) /\ f[xy[2]] = Other(xy[2], xy)
    <3> HIDE DEF Of, Other
    <3> QED BY <2>1, <2>2, <2>3
  <2> QED BY <2>1, <2>4
<1>2. ASSUME NEW xy \in layer, ~Misplaced(v, xy, ascending)
      PROVE  f[xy[1]] = xy[1] /\ f[xy[2]] = xy[2]
  <2>1. /\ xy[1] \in L /\ xy[2] \in L /\ xy[1] # xy[2]
        /\ \A zw \in layer : (InPair(xy[1], zw) \/ InPair(xy[2], zw)) => zw = xy
    BY PairFacts
  <2>2. Of(xy[1]) = {} /\ Of(xy[2]) = {}
    BY <1>2, <2>1 DEF InPair
  <2> QED BY <2>1, <2>2
<1>3. ASSUME NEW i \in L, \A xy \in layer : ~InPair(i, xy) PROVE f[i] = i
  <2>1. Of(i) = {}
    BY <1>3 DEF InPair
  <2> QED BY <2>1
<1>4. f \in [L -> L]
  <2>1. ASSUME NEW i \in L PROVE f[i] \in L
    <3>1. CASE \E xy \in layer : InPair(i, xy)
      <4>1. PICK xy \in layer : InPair(i, xy)
        BY <3>1
      <4>2. xy[1] \in L /\ xy[2] \in L
        BY PairFacts
      <4> HIDE DEF f
      <4> QED BY <1>1, <1>2, <4>1, <4>2 DEF InPair
    <3>2. CASE \A xy \in layer : ~InPair(i, xy)
      BY <1>3, <3>2
    <3> QED BY <3>1, <3>2
  <2> QED BY <2>1
<1>5. CompareLayer(v, layer, ascending) = [i \in L |-> v[f[i]]]
  <2>1. DOMAIN v = L
    OBVIOUS
  <2>2. CompareLayer(v, layer, ascending)
          = [i \in L |-> IF Of(i) = {} THEN v[i] ELSE v[Other(i, CHOOSE xy \in Of(i) : TRUE)]]
    BY <2>1 DEF CompareLayer, Misplaced
  <2> HIDE DEF Of, Other
  <2> QED BY <2>2
<1>6. Exchange(f, v, layer, ascending, L)
  <2> HIDE DEF f
  <2> QED BY <1>1, <1>2, <1>3, <1>4 DEF Exchange
<1> QED BY <1>5, <1>6

LEMMA ExchangeIsPermutation ==
    ASSUME NEW L, NEW layer, IsLayer(layer, L), NEW v, NEW ascending,
           NEW f, Exchange(f, v, layer, ascending, L)
    PROVE  IsPermutation(f, L) /\ WithinPairs(f, layer, L)
<1>1. f \in [L -> L]
  BY DEF Exchange
<1>2. ASSUME NEW i \in L
      PROVE  /\ f[f[i]] = i
             /\ f[i] = i \/ \E xy \in layer : {i, f[i]} = {xy[1], xy[2]}
  <2>1. CASE \E xy \in layer : InPair(i, xy)
    <3>1. PICK xy \in layer : InPair(i, xy)
      BY <2>1
    <3> QED BY <3>1 DEF InPair, Exchange
  <2>2. CASE \A xy \in layer : ~InPair(i, xy)
    BY <2>2 DEF Exchange
  <2> QED BY <2>1, <2>2
<1>3. IsPermutation(f, L)
  <2>1. \A i, j \in L : f[i] = f[j] => i = j
    BY <1>2
  <2>2. \A j \in L : \E i \in L : f[i] = j
    <3> TAKE j \in L
    <3>1. f[j] \in L /\ f[f[j]] = j
      BY <1>1, <1>2
    <3> QED BY <3>1
  <2> QED BY <1>1, <2>1, <2>2 DEF IsPermutation
<1> QED BY <1>2, <1>3 DEF WithinPairs

\* A layer takes the conjunction in one lane of a pair and the disjunction in the
\* other, at every threshold.
LEMMA LayerAtLeast ==
    ASSUME NEW L, NEW layer, IsLayer(layer, L), NEW v \in [L -> Pairs], NEW ascending \in BOOLEAN,
           NEW c, c = CompareLayer(v, layer, ascending), NEW t \in Pairs
    PROVE  /\ \A xy \in layer :
                 LET least == IF ascending THEN xy[1] ELSE xy[2]
                     most  == IF ascending THEN xy[2] ELSE xy[1]
                 IN  /\ AtLeast(t, c[least]) <=> AtLeast(t, v[xy[1]]) /\ AtLeast(t, v[xy[2]])
                     /\ AtLeast(t, c[most]) <=> AtLeast(t, v[xy[1]]) \/ AtLeast(t, v[xy[2]])
           /\ \A i \in L : (\A xy \in layer : ~InPair(i, xy)) => c[i] = v[i]
<1>1. PICK f : /\ Exchange(f, v, layer, ascending, L)
               /\ c = [i \in L |-> v[f[i]]]
  BY LayerExchanges
<1>2. f \in [L -> L] /\ \A i \in L : c[i] = v[f[i]]
  BY <1>1 DEF Exchange
<1>3. ASSUME NEW xy \in layer
      PROVE  LET least == IF ascending THEN xy[1] ELSE xy[2]
                 most  == IF ascending THEN xy[2] ELSE xy[1]
             IN  /\ AtLeast(t, c[least]) <=> AtLeast(t, v[xy[1]]) /\ AtLeast(t, v[xy[2]])
                 /\ AtLeast(t, c[most]) <=> AtLeast(t, v[xy[1]]) \/ AtLeast(t, v[xy[2]])
  <2> DEFINE x == v[xy[1]]
             y == v[xy[2]]
  <2>1. xy[1] \in L /\ xy[2] \in L /\ x \in Pairs /\ y \in Pairs
    BY PairFacts
  <2>2. IF Misplaced(v, xy, ascending) THEN c[xy[1]] = y /\ c[xy[2]] = x
                                       ELSE c[xy[1]] = x /\ c[xy[2]] = y
    BY <1>1, <1>2, <2>1 DEF Exchange
  <2>3. Misplaced(v, xy, ascending) <=> IF ascending THEN Below(y, x) ELSE Below(x, y)
    BY DEF Misplaced
  <2> HIDE DEF x, y
  <2>4. /\ ~Below(y, x) => /\ AtLeast(t, x) <=> AtLeast(t, x) /\ AtLeast(t, y)
                           /\ AtLeast(t, y) <=> AtLeast(t, x) \/ AtLeast(t, y)
        /\ ~Below(x, y) => /\ AtLeast(t, y) <=> AtLeast(t, y) /\ AtLeast(t, x)
                           /\ AtLeast(t, x) <=> AtLeast(t, y) \/ AtLeast(t, x)
    BY <2>1, ExchangedAtLeast
  <2>5. Below(x, y) => ~Below(y, x)
    BY <2>1, BelowIsOrder
  <2>6. CASE ascending
    BY <2>2, <2>3, <2>4, <2>5, <2>6 DEF x, y
  <2>7. CASE ~ascending
    BY <2>2, <2>3, <2>4, <2>5, <2>7 DEF x, y
  <2> QED BY <2>6, <2>7
<1>4. \A i \in L : (\A xy \in layer : ~InPair(i, xy)) => c[i] = v[i]
  BY <1>1, <1>2 DEF Exchange
<1> QED BY <1>3, <1>4

-----------------------------------------------------------------------------
\* Groups of lanes.
LEMMA LaneInGroup ==
    ASSUME NEW items \in Nat \ {0}, NEW groups \in Nat, NEW x \in LanesOf(items),
           NEW g \in 0 .. groups-1
    PROVE  /\ x + g * items \in LanesOf(items * groups)
           /\ (x + g * items) \div items = g
<1>1. (g+1) * items <= groups * items /\ g * items \in Nat /\ groups * items \in Nat
      /\ groups * items = items * groups
  <2>1. g+1 \in Nat /\ g+1 <= groups /\ g \in Nat
    OBVIOUS
  <2> QED BY <2>1, ProductGrows
<1>2. (g+1) * items = g * items + items
  OBVIOUS
<1> DEFINE b == g * items
           m == groups * items
<1>3. b \in Nat /\ m \in Nat /\ b + items <= m
  BY <1>1, <1>2
<1>4. x \in Nat /\ x < items
  BY DEF LanesOf
<1>5. x + b \in Nat /\ x + b = b + x /\ x + b < m
  <2> HIDE DEF b, m
  <2> QED BY <1>3, <1>4
<1> DEFINE a == x + b
<1>6. a \in Nat /\ g \in Nat /\ a = g * items + x /\ x \in 0 .. items-1
  BY <1>5 DEF LanesOf
<1>7. a \div items = g
  <2> HIDE DEF a
  <2> QED BY <1>6, QuotientUnique
<1>8. a \in 0 .. m-1
  <2> HIDE DEF b, m
  <2> QED BY <1>3, <1>5
<1> QED BY <1>1, <1>7, <1>8 DEF LanesOf

LEMMA GroupOfLane ==
    ASSUME NEW items \in Nat \ {0}, NEW groups \in Nat, NEW i \in LanesOf(items * groups)
    PROVE  /\ i \div items \in 0 .. groups-1
           /\ i % items \in LanesOf(items)
           /\ i = (i % items) + (i \div items) * items
<1> DEFINE q == i \div items
           r == i % items
           m == groups * items
<1>1. i \in Nat /\ m \in Nat /\ i < m
  <2>1. items * groups \in Nat /\ items * groups = m
    OBVIOUS
  <2> DEFINE n == items * groups
  <2>2. n \in Nat /\ n = m /\ i \in 0 .. n-1
    BY <2>1 DEF LanesOf
  <2> HIDE DEF m, n
  <2> QED BY <2>2
<1>2. q \in Nat /\ r \in 0 .. items-1 /\ i = q * items + r
  BY <1>1, Divided
<1>3. q < groups
  <2> SUFFICES ASSUME groups <= q PROVE FALSE
    BY <1>2
  <2>1. groups * items <= q * items /\ q * items \in Nat
    BY <1>2, ProductGrows
  <2> HIDE DEF m
  <2> DEFINE p == q * items
  <2>2. p \in Nat /\ m <= p /\ i = p + r
    BY <1>2, <2>1 DEF m
  <2> HIDE DEF p, q, r
  <2> QED BY <1>1, <1>2, <2>2
<1> HIDE DEF q, r, m
<1>4. q * items \in Nat /\ i = r + q * items
  <2>1. q * items \in Nat
    BY <1>2
  <2> DEFINE p == q * items
  <2>2. p \in Nat /\ i = p + r
    BY <1>2, <2>1
  <2> HIDE DEF p
  <2>3. i = r + p
    BY <1>2, <2>2
  <2> QED BY <2>1, <2>3 DEF p
<1> QED BY <1>2, <1>3, <1>4 DEF q, r, LanesOf

LEMMA GroupLayer ==
    ASSUME NEW items \in Nat \ {0}, NEW groups \in Nat, NEW layer, IsLayer(layer, LanesOf(items)),
           NEW big, big = LayerOfGroups(layer, items, items * groups)
    PROVE  /\ IsLayer(big, LanesOf(items * groups))
           /\ \A xy \in layer, g \in 0 .. groups-1 :
                 <<xy[1] + g * items, xy[2] + g * items>> \in big
           /\ \A x \in LanesOf(items), g \in 0 .. groups-1 :
                 (\A xy \in layer : ~InPair(x, xy))
                    => \A zw \in big : ~InPair(x + g * items, zw)
           /\ \A zw \in big : zw[1] \div items = zw[2] \div items
<1> DEFINE L == LanesOf(items)
           At(xy, g) == <<xy[1] + g * items, xy[2] + g * items>>
<1>1. (items * groups) \div items = groups
  <2> DEFINE m == items * groups
  <2>1. m \in Nat /\ m = groups * items + 0 /\ 0 \in 0 .. items-1
    OBVIOUS
  <2> HIDE DEF m
  <2>2. m \div items = groups
    BY <2>1, QuotientUnique
  <2> QED BY <2>2 DEF m
<1>2. /\ \A xy \in layer, g \in 0 .. groups-1 : At(xy, g) \in big
      /\ \A zw \in big : \E xy \in layer, g \in 0 .. groups-1 : zw = At(xy, g)
  <2> DEFINE k == (items * groups) \div items
  <2>1. /\ \A xy \in layer, g \in 0 .. k-1 : At(xy, g) \in big
        /\ \A zw \in big : \E xy \in layer, g \in 0 .. k-1 : zw = At(xy, g)
    <3>1. big = {<<xy[1] + g * items, xy[2] + g * items>> : xy \in layer, g \in 0 .. k-1}
      BY DEF LayerOfGroups
    <3> HIDE DEF k
    <3>2. \A xy \in layer, g \in 0 .. k-1 : At(xy, g) \in big
      BY <3>1
    <3>3. \A zw \in big : \E xy \in layer, g \in 0 .. k-1 : zw = At(xy, g)
      BY <3>1
    <3> QED BY <3>2, <3>3
  <2>2. k = groups
    BY <1>1
  <2> HIDE DEF k
  <2> QED BY <2>1, <2>2
<1>3. \A xy \in layer : /\ xy[1] \in L /\ xy[2] \in L /\ xy[1] # xy[2]
                        /\ \A ab \in layer : (InPair(xy[1], ab) \/ InPair(xy[2], ab)) => ab = xy
  BY PairFacts
<1>4. \A x \in L, g \in 0 .. groups-1 : /\ x + g * items \in LanesOf(items * groups)
                                        /\ (x + g * items) \div items = g
  BY LaneInGroup
<1>5. ASSUME NEW x \in L, NEW y \in L, NEW g \in 0 .. groups-1, NEW h \in 0 .. groups-1,
             x + g * items = y + h * items
      PROVE  x = y /\ g = h
  <2>1. x \in 0 .. items-1 /\ y \in 0 .. items-1 /\ g \in Nat /\ h \in Nat
    BY DEF LanesOf
  <2>2. g * items + x = h * items + y
    <3>1. g * items \in Nat /\ h * items \in Nat
      BY <2>1
    <3> DEFINE p == g * items
               q == h * items
    <3>2. p \in Nat /\ q \in Nat /\ x + p = y + q
      BY <1>5, <3>1
    <3> HIDE DEF p, q
    <3>3. p + x = q + y
      BY <2>1, <3>2
    <3> QED BY <3>3 DEF p, q
  <2> QED BY <2>1, <2>2, PlaceUnique
<1> HIDE DEF L
<1>6. \A xy \in layer, g \in 0 .. groups-1 :
         At(xy, g)[1] = xy[1] + g * items /\ At(xy, g)[2] = xy[2] + g * items
  OBVIOUS
<1> HIDE DEF At
<1>7. ASSUME NEW xy \in layer, NEW g \in 0 .. groups-1, NEW x \in L, NEW h \in 0 .. groups-1,
             InPair(x + h * items, At(xy, g))
      PROVE  g = h /\ InPair(x, xy)
  BY <1>3, <1>5, <1>6, <1>7 DEF InPair
<1>8. \A zw \in big : \E xy \in layer, g \in 0 .. groups-1 : zw = At(xy, g)
  BY <1>2
<1>9. big \subseteq LanesOf(items * groups) \X LanesOf(items * groups)
  <2> SUFFICES ASSUME NEW xy \in layer, NEW g \in 0 .. groups-1
               PROVE  At(xy, g) \in LanesOf(items * groups) \X LanesOf(items * groups)
    BY <1>8
  <2> QED BY <1>3, <1>4 DEF At
<1>10. \A zw \in big : zw[1] # zw[2] /\ zw[1] \div items = zw[2] \div items
  <2> TAKE zw \in big
  <2>1. PICK xy \in layer, g \in 0 .. groups-1 : zw = At(xy, g)
    BY <1>8
  <2>2. zw[1] = xy[1] + g * items /\ zw[2] = xy[2] + g * items
    BY <1>6, <2>1
  <2>3. xy[1] \in L /\ xy[2] \in L /\ xy[1] # xy[2]
    BY <1>3
  <2>4. (xy[1] + g * items) \div items = g /\ (xy[2] + g * items) \div items = g
    BY <1>4, <2>3
  <2>5. xy[1] + g * items # xy[2] + g * items
    BY <1>5, <2>3
  <2> QED BY <2>2, <2>4, <2>5
<1>11. ASSUME NEW zw \in big, NEW ab \in big, {zw[1], zw[2]} \cap {ab[1], ab[2]} # {}
       PROVE  zw = ab
  <2>1. PICK xy \in layer, g \in 0 .. groups-1 : zw = At(xy, g)
    BY <1>8
  <2>2. PICK cd \in layer, h \in 0 .. groups-1 : ab = At(cd, h)
    BY <1>8
  <2>3. zw[1] = xy[1] + g * items /\ zw[2] = xy[2] + g * items
    BY <1>6, <2>1
  <2>4. InPair(zw[1], ab) \/ InPair(zw[2], ab)
    BY <1>11 DEF InPair
  <2>5. g = h /\ (InPair(xy[1], cd) \/ InPair(xy[2], cd))
    BY <1>3, <1>7, <2>2, <2>3, <2>4
  <2> QED BY <1>3, <2>1, <2>2, <2>5
<1>12. IsLayer(big, LanesOf(items * groups))
  BY <1>9, <1>10, <1>11 DEF IsLayer
<1>13. \A x \in L, g \in 0 .. groups-1 :
          (\A xy \in layer : ~InPair(x, xy)) => \A zw \in big : ~InPair(x + g * items, zw)
  BY <1>7, <1>8
<1>14. \A xy \in layer, g \in 0 .. groups-1 : <<xy[1] + g * items, xy[2] + g * items>> \in big
  BY <1>2 DEF At
<1> QED BY <1>10, <1>12, <1>13, <1>14 DEF L

-----------------------------------------------------------------------------
(***************************************************************************)
(* The networks.  Seen from a threshold a layer works on single bits, and  *)
(* whether all bits come out in order is a question of propositional       *)
(* logic.                                                                  *)
(***************************************************************************)
IsNetwork(network, items) == \A l \in 1 .. Len(network) : IsLayer(network[l], LanesOf(items))

\* The bits b[l] after layer l.
WorksOnBits(network, items, b) ==
    \A l \in 1 .. Len(network) :
       /\ \A xy \in network[l] : /\ b[l][xy[1]] <=> b[l-1][xy[1]] /\ b[l-1][xy[2]]
                                 /\ b[l][xy[2]] <=> b[l-1][xy[1]] \/ b[l-1][xy[2]]
       /\ \A x \in LanesOf(items) :
             (\A xy \in network[l] : ~InPair(x, xy)) => (b[l][x] <=> b[l-1][x])

BitsInOrder(network, items, b) ==
    \A x \in 1 .. items-1 : b[Len(network)][x-1] => b[Len(network)][x]

SortsBits(network, items) ==
    \A b : WorksOnBits(network, items, b) => BitsInOrder(network, items, b)

\* What the words of a pair, and of a lane without one, say after a layer.
LEMMA LayerBits ==
    ASSUME NEW network, NEW items, NEW b, WorksOnBits(network, items, b),
           NEW l \in 1 .. Len(network), NEW k, k = l-1, NEW layer, layer = network[l]
    PROVE  /\ \A x, y : <<x, y>> \in layer => /\ b[l][x] <=> b[k][x] /\ b[k][y]
                                              /\ b[l][y] <=> b[k][x] \/ b[k][y]
           /\ \A x \in LanesOf(items) :
                 (\A xy \in layer : ~InPair(x, xy)) => (b[l][x] <=> b[k][x])
<1>1. /\ \A xy \in layer : /\ b[l][xy[1]] <=> b[k][xy[1]] /\ b[k][xy[2]]
                           /\ b[l][xy[2]] <=> b[k][xy[1]] \/ b[k][xy[2]]
      /\ \A x \in LanesOf(items) :
            (\A xy \in layer : ~InPair(x, xy)) => (b[l][x] <=> b[k][x])
  BY DEF WorksOnBits
<1>2. \A x, y : <<x, y>>[1] = x /\ <<x, y>>[2] = y
  OBVIOUS
<1> QED BY <1>1, <1>2

LEMMA Network2Is == Len(Network2) = 1 /\ IsNetwork(Network2, 2)
<1>1. Len(Network2) = 1
  BY DEF Network2
<1>2. IsLayer(Network2[1], LanesOf(2))
  BY DEF Network2, IsLayer, LanesOf
<1> QED BY <1>1, <1>2 DEF IsNetwork

LEMMA Network2Sorts == SortsBits(Network2, 2)
<1> SUFFICES ASSUME NEW b, WorksOnBits(Network2, 2, b) PROVE BitsInOrder(Network2, 2, b)
  BY DEF SortsBits
<1>1. Len(Network2) = 1
  BY DEF Network2
<1>2. /\ (b[1][0] <=> b[0][0] /\ b[0][1]) /\ (b[1][1] <=> b[0][0] \/ b[0][1])
  <2> DEFINE layer == Network2[1]
  <2>1. /\ <<0, 1>> \in layer
    BY DEF Network2
  <2> HIDE DEF layer
  <2>2. /\ \A x, y : <<x, y>> \in layer => /\ b[1][x] <=> b[0][x] /\ b[0][y]
                                           /\ b[1][y] <=> b[0][x] \/ b[0][y]
        /\ \A x \in LanesOf(2) :
              (\A xy \in layer : ~InPair(x, xy)) => (b[1][x] <=> b[0][x])
    <3>1. 1 \in 1 .. Len(Network2) /\ 0 = 1-1
      BY <1>1
    <3> QED BY <3>1, LayerBits DEF layer
  <2> QED BY <2>1, <2>2
<1>3. /\ (b[1][0] => b[1][1])
  BY <1>2
<1> QED BY <1>1, <1>3 DEF BitsInOrder

LEMMA Network4Is == Len(Network4) = 3 /\ IsNetwork(Network4, 4)
<1>1. Len(Network4) = 3
  BY DEF Network4
<1>2. IsLayer(Network4[1], LanesOf(4))
  BY DEF Network4, IsLayer, LanesOf
<1>3. IsLayer(Network4[2], LanesOf(4))
  BY DEF Network4, IsLayer, LanesOf
<1>4. IsLayer(Network4[3], LanesOf(4))
  BY DEF Network4, IsLayer, LanesOf
<1> QED BY <1>1, <1>2, <1>3, <1>4 DEF IsNetwork

LEMMA Network4Sorts == SortsBits(Network4, 4)
<1> SUFFICES ASSUME NEW b, WorksOnBits(Network4, 4, b) PROVE BitsInOrder(Network4, 4, b)
  BY DEF SortsBits
<1>1. Len(Network4) = 3
  BY DEF Network4
<1>2. /\ (b[1][0] <=> b[0][0] /\ b[0][2]) /\ (b[1][2] <=> b[0][0] \/ b[0][2])
      /\ (b[1][1] <=> b[0][1] /\ b[0][3]) /\ (b[1][3] <=> b[0][1] \/ b[0][3])
  <2> DEFINE layer == Network4[1]
  <2>1. /\ <<0, 2>> \in layer /\ <<1, 3>> \in layer
    BY DEF Network4
  <2> HIDE DEF layer
  <2>2. /\ \A x, y : <<x, y>> \in layer => /\ b[1][x] <=> b[0][x] /\ b[0][y]
                                           /\ b[1][y] <=> b[0][x] \/ b[0][y]
        /\ \A x \in LanesOf(4) :
              (\A xy \in layer : ~InPair(x, xy)) => (b[1][x] <=> b[0][x])
    <3>1. 1 \in 1 .. Len(Network4) /\ 0 = 1-1
      BY <1>1
    <3> QED BY <3>1, LayerBits DEF layer
  <2> QED BY <2>1, <2>2
<1>3. /\ (b[2][0] <=> b[1][0] /\ b[1][1]) /\ (b[2][1] <=> b[1][0] \/ b[1][1])
      /\ (b[2][2] <=> b[1][2] /\ b[1][3]) /\ (b[2][3] <=> b[1][2] \/ b[1][3])
  <2> DEFINE layer == Network4[2]
  <2>1. /\ <<0, 1>> \in layer /\ <<2, 3>> \in layer
    BY DEF Network4
  <2> HIDE DEF layer
  <2>2. /\ \A x, y : <<x, y>> \in layer => /\ b[2][x] <=> b[1][x] /\ b[1][y]
                                           /\ b[2][y] <=> b[1][x] \/ b[1][y]
        /\ \A x \in LanesOf(4) :
              (\A xy \in layer : ~InPair(x, xy)) => (b[2][x] <=> b[1][x])
    <3>1. 2 \in 1 .. Len(Network4) /\ 1 = 2-1
      BY <1>1
    <3> QED BY <3>1, LayerBits DEF layer
  <2> QED BY <2>1, <2>2
<1>4. /\ (b[3][1] <=> b[2][1] /\ b[2][2]) /\ (b[3][2] <=> b[2][1] \/ b[2][2])
      /\ (b[3][0] <=> b[2][0]) /\ (b[3][3] <=> b[2][3])
  <2> DEFINE layer == Network4[3]
  <2>1. /\ <<1, 2>> \in layer
    BY DEF Network4
  <2>3. /\ 0 \in LanesOf(4) /\ \A xy \in layer : ~InPair(0, xy)
        /\ 3 \in LanesOf(4) /\ \A xy \in layer : ~InPair(3, xy)
    BY DEF Network4, InPair, LanesOf
  <2> HIDE DEF layer
  <2>2. /\ \A x, y : <<x, y>> \in layer => /\ b[3][x] <=> b[2][x] /\ b[2][y]
                                           /\ b[3][y] <=> b[2][x] \/ b[2][y]
        /\ \A x \in LanesOf(4) :
              (\A xy \in layer : ~InPair(x, xy)) => (b[3][x] <=> b[2][x])
    <3>1. 3 \in 1 .. Len(Network4) /\ 2 = 3-1
      BY <1>1
    <3> QED BY <3>1, LayerBits DEF layer
  <2> QED BY <2>1, <2>2, <2>3
<1>5. /\ (b[3][0] => b[3][1]) /\ (b[3][1] => b[3][2]) /\ (b[3][2] => b[3][3])
  BY <1>2, <1>3, <1>4
<1> QED BY <1>1, <1>5 DEF BitsInOrder

LEMMA Network8Is == Len(Network8) = 6 /\ IsNetwork(Network8, 8)
<1>1. Len(Network8) = 6
  BY DEF Network8
<1>2. IsLayer(Network8[1], LanesOf(8))
  BY DEF Network8, IsLayer, LanesOf
<1>3. IsLayer(Network8[2], LanesOf(8))
  BY DEF Network8, IsLayer, LanesOf
<1>4. IsLayer(Network8[3], LanesOf(8))
  BY DEF Network8, IsLayer, LanesOf
<1>5. IsLayer(Network8[4], LanesOf(8))
  BY DEF Network8, IsLayer, LanesOf
<1>6. IsLayer(Network8[5], LanesOf(8))
  BY DEF Network8, IsLayer, LanesOf
<1>7. IsLayer(Network8[6], LanesOf(8))
  BY DEF Network8, IsLayer, LanesOf
<1> QED BY <1>1, <1>2, <1>3, <1>4, <1>5, <1>6, <1>7 DEF IsNetwork

LEMMA Network8Sorts == SortsBits(Network8, 8)
<1> SUFFICES ASSUME NEW b, WorksOnBits(Network8, 8, b) PROVE BitsInOrder(Network8, 8, b)
  BY DEF SortsBits
<1>1. Len(Network8) = 6
  BY DEF Network8
<1>2. /\ (b[1][0] <=> b[0][0] /\ b[0][1]) /\ (b[1][1] <=> b[0][0] \/ b[0][1])
      /\ (b[1][3] <=> b[0][3] /\ b[0][2]) /\ (b[1][2] <=> b[0][3] \/ b[0][2])
      /\ (b[1][4] <=> b[0][4] /\ b[0][5]) /\ (b[1][5] <=> b[0][4] \/ b[0][5])
      /\ (b[1][7] <=> b[0][7] /\ b[0][6]) /\ (b[1][6] <=> b[0][7] \/ b[0][6])
  <2> DEFINE layer == Network8[1]
  <2>1. /\ <<0, 1>> \in layer /\ <<3, 2>> \in layer /\ <<4, 5>> \in layer
        /\ <<7, 6>> \in layer
    BY DEF Network8
  <2> HIDE DEF layer
  <2>2. /\ \A x, y : <<x, y>> \in layer => /\ b[1][x] <=> b[0][x] /\ b[0][y]
                                           /\ b[1][y] <=> b[0][x] \/ b[0][y]
        /\ \A x \in LanesOf(8) :
              (\A xy \in layer : ~InPair(x, xy)) => (b[1][x] <=> b[0][x])
    <3>1. 1 \in 1 .. Len(Network8) /\ 0 = 1-1
      BY <1>1
    <3> QED BY <3>1, LayerBits DEF layer
  <2> QED BY <2>1, <2>2
<1>3. /\ (b[2][0] <=> b[1][0] /\ b[1][2]) /\ (b[2][2] <=> b[1][0] \/ b[1][2])
      /\ (b[2][1] <=> b[1][1] /\ b[1][3]) /\ (b[2][3] <=> b[1][1] \/ b[1][3])
      /\ (b[2][6] <=> b[1][6] /\ b[1][4]) /\ (b[2][4] <=> b[1][6] \/ b[1][4])
      /\ (b[2][7] <=> b[1][7] /\ b[1][5]) /\ (b[2][5] <=> b[1][7] \/ b[1][5])
  <2> DEFINE layer == Network8[2]
  <2>1. /\ <<0, 2>> \in layer /\ <<1, 3>> \in layer /\ <<6, 4>> \in layer
        /\ <<7, 5>> \in layer
    BY DEF Network8
  <2> HIDE DEF layer
  <2>2. /\ \A x, y : <<x, y>> \in layer => /\ b[2][x] <=> b[1][x] /\ b[1][y]
                                           /\ b[2][y] <=> b[1][x] \/ b[1][y]
        /\ \A x \in LanesOf(8) :
              (\A xy \in layer : ~InPair(x, xy)) => (b[2][x] <=> b[1][x])
    <3>1. 2 \in 1 .. Len(Network8) /\ 1 = 2-1
      BY <1>1
    <3> QED BY <3>1, LayerBits DEF layer
  <2> QED BY <2>1, <2>2
<1>4. /\ (b[3][0] <=> b[2][0] /\ b[2][1]) /\ (b[3][1] <=> b[2][0] \/ b[2][1])
      /\ (b[3][2] <=> b[2][2] /\ b[2][3]) /\ (b[3][3] <=> b[2][2] \/ b[2][3])
      /\ (b[3][5] <=> b[2][5] /\ b[2][4]) /\ (b[3][4] <=> b[2][5] \/ b[2][4])
      /\ (b[3][7] <=> b[2][7] /\ b[2][6]) /\ (b[3][6] <=> b[2][7] \/ b[2][6])
  <2> DEFINE layer == Network8[3]
  <2>1. /\ <<0, 1>> \in layer /\ <<2, 3>> \in layer /\ <<5, 4>> \in layer
        /\ <<7, 6>> \in layer
    BY DEF Network8
  <2> HIDE DEF layer
  <2>2. /\ \A x, y : <<x, y>> \in layer => /\ b[3][x] <=> b[2][x] /\ b[2][y]
                                           /\ b[3][y] <=> b[2][x] \/ b[2][y]
        /\ \A x \in LanesOf(8) :
              (\A xy \in layer : ~InPair(x, xy)) => (b[3][x] <=> b[2][x])
    <3>1. 3 \in 1 .. Len(Network8) /\ 2 = 3-1
      BY <1>1
    <3> QED BY <3>1, LayerBits DEF layer
  <2> QED BY <2>1, <2>2
<1>5. /\ (b[4][0] <=> b[3][0] /\ b[3][4]) /\ (b[4][4] <=> b[3][0] \/ b[3][4])
      /\ (b[4][1] <=> b[3][1] /\ b[3][5]) /\ (b[4][5] <=> b[3][1] \/ b[3][5])
      /\ (b[4][2] <=> b[3][2] /\ b[3][6]) /\ (b[4][6] <=> b[3][2] \/ b[3][6])
      /\ (b[4][3] <=> b[3][3] /\ b[3][7]) /\ (b[4][7] <=> b[3][3] \/ b[3][7])
  <2> DEFINE layer == Network8[4]
  <2>1. /\ <<0, 4>> \in layer /\ <<1, 5>> \in layer /\ <<2, 6>> \in layer
        /\ <<3, 7>> \in layer
    BY DEF Network8
  <2> HIDE DEF layer
  <2>2. /\ \A x, y : <<x, y>> \in layer => /\ b[4][x] <=> b[3][x] /\ b[3][y]
                                           /\ b[4][y] <=> b[3][x] \/ b[3][y]
        /\ \A x \in LanesOf(8) :
              (\A xy \in layer : ~InPair(x, xy)) => (b[4][x] <=> b[3][x])
    <3>1. 4 \in 1 .. Len(Network8) /\ 3 = 4-1
      BY <1>1
    <3> QED BY <3>1, LayerBits DEF layer
  <2> QED BY <2>1, <2>2
<1>6. /\ (b[5][0] <=> b[4][0] /\ b[4][2]) /\ (b[5][2] <=> b[4][0] \/ b[4][2])
      /\ (b[5][1] <=> b[4][1] /\ b[4][3]) /\ (b[5][3] <=> b[4][1] \/ b[4][3])
      /\ (b[5][4] <=> b[4][4] /\ b[4][6]) /\ (b[5][6] <=> b[4][4] \/ b[4][6])
      /\ (b[5][5] <=> b[4][5] /\ b[4][7]) /\ (b[5][7] <=> b[4][5] \/ b[4][7])
  <2> DEFINE layer == Network8[5]
  <2>1. /\ <<0, 2>> \in layer /\ <<1, 3>> \in layer /\ <<4, 6>> \in layer
        /\ <<5, 7>> \in layer
    BY DEF Network8
  <2> HIDE DEF layer
  <2>2. /\ \A x, y : <<x, y>> \in layer => /\ b[5][x] <=> b[4][x] /\ b[4][y]
                                           /\ b[5][y] <=> b[4][x] \/ b[4][y]
        /\ \A x \in LanesOf(8) :
              (\A xy \in layer : ~InPair(x, xy)) => (b[5][x] <=> b[4][x])
    <3>1. 5 \in 1 .. Len(Network8) /\ 4 = 5-1
      BY <1>1
    <3> QED BY <3>1, LayerBits DEF layer
  <2> QED BY <2>1, <2>2
<1>7. /\ (b[6][0] <=> b[5][0] /\ b[5][1]) /\ (b[6][1] <=> b[5][0] \/ b[5][1])
      /\ (b[6][2] <=> b[5][2] /\ b[5][3]) /\ (b[6][3] <=> b[5][2] \/ b[5][3])
      /\ (b[6][4] <=> b[5][4] /\ b[5][5]) /\ (b[6][5] <=> b[5][4] \/ b[5][5])
      /\ (b[6][6] <=> b[5][6] /\ b[5][7]) /\ (b[6][7] <=> b[5][6] \/ b[5][7])
  <2> DEFINE layer == Network8[6]
  <2>1. /\ <<0, 1>> \in layer /\ <<2, 3>> \in layer /\ <<4, 5>> \in layer
        /\ <<6, 7>> \in layer
    BY DEF Network8
  <2> HIDE DEF layer
  <2>2. /\ \A x, y : <<x, y>> \in layer => /\ b[6][x] <=> b[5][x] /\ b[5][y]
                                           /\ b[6][y] <=> b[5][x] \/ b[5][y]
        /\ \A x \in LanesOf(8) :
              (\A xy \in layer : ~InPair(x, xy)) => (b[6][x] <=> b[5][x])
    <3>1. 6 \in 1 .. Len(Network8) /\ 5 = 6-1
      BY <1>1
    <3> QED BY <3>1, LayerBits DEF layer
  <2> QED BY <2>1, <2>2
<1>8. /\ (b[6][0] => b[6][1]) /\ (b[6][1] => b[6][2]) /\ (b[6][2] => b[6][3])
      /\ (b[6][3] => b[6][4]) /\ (b[6][4] => b[6][5]) /\ (b[6][5] => b[6][6])
      /\ (b[6][6] => b[6][7])
  BY <1>2, <1>3, <1>4, <1>5, <1>6, <1>7
<1> QED BY <1>1, <1>8 DEF BitsInOrder

LEMMA Network16Is == Len(Network16) = 9 /\ IsNetwork(Network16, 16)
<1>1. Len(Network16) = 9
  BY DEF Network16
<1>2. IsLayer(Network16[1], LanesOf(16))
  BY DEF Network16, IsLayer, LanesOf
<1>3. IsLayer(Network16[2], LanesOf(16))
  BY DEF Network16, IsLayer, LanesOf
<1>4. IsLayer(Network16[3], LanesOf(16))
  BY DEF Network16, IsLayer, LanesOf
<1>5. IsLayer(Network16[4], LanesOf(16))
  BY DEF Network16, IsLayer, LanesOf
<1>6. IsLayer(Network16[5], LanesOf(16))
  BY DEF Network16, IsLayer, LanesOf
<1>7. IsLayer(Network16[6], LanesOf(16))
  BY DEF Network16, IsLayer, LanesOf
<1>8. IsLayer(Network16[7], LanesOf(16))
  BY DEF Network16, IsLayer, LanesOf
<1>9. IsLayer(Network16[8], LanesOf(16))
  BY DEF Network16, IsLayer, LanesOf
<1>10. IsLayer(Network16[9], LanesOf(16))
  BY DEF Network16, IsLayer, LanesOf
<1> QED BY <1>1, <1>2, <1>3, <1>4, <1>5, <1>6, <1>7, <1>8, <1>9, <1>10 DEF IsNetwork

LEMMA Network16Sorts == SortsBits(Network16, 16)
<1> SUFFICES ASSUME NEW b, WorksOnBits(Network16, 16, b) PROVE BitsInOrder(Network16, 16, b)
  BY DEF SortsBits
<1>1. Len(Network16) = 9
  BY DEF Network16
<1>2. /\ (b[1][0] <=> b[0][0] /\ b[0][5]) /\ (b[1][5] <=> b[0][0] \/ b[0][5])
      /\ (b[1][1] <=> b[0][1] /\ b[0][4]) /\ (b[1][4] <=> b[0][1] \/ b[0][4])
      /\ (b[1][2] <=> b[0][2] /\ b[0][12]) /\ (b[1][12] <=> b[0][2] \/ b[0][12])
      /\ (b[1][3] <=> b[0][3] /\ b[0][13]) /\ (b[1][13] <=> b[0][3] \/ b[0][13])
      /\ (b[1][6] <=> b[0][6] /\ b[0][7]) /\ (b[1][7] <=> b[0][6] \/ b[0][7])
      /\ (b[1][8] <=> b[0][8] /\ b[0][9]) /\ (b[1][9] <=> b[0][8] \/ b[0][9])
      /\ (b[1][10] <=> b[0][10] /\ b[0][15]) /\ (b[1][15] <=> b[0][10] \/ b[0][15])
      /\ (b[1][11] <=> b[0][11] /\ b[0][14]) /\ (b[1][14] <=> b[0][11] \/ b[0][14])
  <2> DEFINE layer == Network16[1]
  <2>1. /\ <<0, 5>> \in layer /\ <<1, 4>> \in layer /\ <<2, 12>> \in layer
        /\ <<3, 13>> \in layer /\ <<6, 7>> \in layer /\ <<8, 9>> \in layer
        /\ <<10, 15>> \in layer /\ <<11, 14>> \in layer
    BY DEF Network16
  <2> HIDE DEF layer
  <2>2. /\ \A x, y : <<x, y>> \in layer => /\ b[1][x] <=> b[0][x] /\ b[0][y]
                                           /\ b[1][y] <=> b[0][x] \/ b[0][y]
        /\ \A x \in LanesOf(16) :
              (\A xy \in layer : ~InPair(x, xy)) => (b[1][x] <=> b[0][x])
    <3>1. 1 \in 1 .. Len(Network16) /\ 0 = 1-1
      BY <1>1
    <3> QED BY <3>1, LayerBits DEF layer
  <2> QED BY <2>1, <2>2
<1>3. /\ (b[2][0] <=> b[1][0] /\ b[1][2]) /\ (b[2][2] <=> b[1][0] \/ b[1][2])
      /\ (b[2][1] <=> b[1][1] /\ b[1][10]) /\ (b[2][10] <=> b[1][1] \/ b[1][10])
      /\ (b[2][3] <=> b[1][3] /\ b[1][6]) /\ (b[2][6] <=> b[1][3] \/ b[1][6])
      /\ (b[2][4] <=> b[1][4] /\ b[1][7]) /\ (b[2][7] <=> b[1][4] \/ b[1][7])
      /\ (b[2][5] <=> b[1][5] /\ b[1][14]) /\ (b[2][14] <=> b[1][5] \/ b[1][14])
      /\ (b[2][8] <=> b[1][8] /\ b[1][11]) /\ (b[2][11] <=> b[1][8] \/ b[1][11])
      /\ (b[2][9] <=> b[1][9] /\ b[1][12]) /\ (b[2][12] <=> b[1][9] \/ b[1][12])
      /\ (b[2][13] <=> b[1][13] /\ b[1][15]) /\ (b[2][15] <=> b[1][13] \/ b[1][15])
  <2> DEFINE layer == Network16[2]
  <2>1. /\ <<0, 2>> \in layer /\ <<1, 10>> \in layer /\ <<3, 6>> \in layer
        /\ <<4, 7>> \in layer /\ <<5, 14>> \in layer /\ <<8, 11>> \in layer
        /\ <<9, 12>> \in layer /\ <<13, 15>> \in layer
    BY DEF Network16
  <2> HIDE DEF layer
  <2>2. /\ \A x, y : <<x, y>> \in layer => /\ b[2][x] <=> b[1][x] /\ b[1][y]
                                           /\ b[2][y] <=> b[1][x] \/ b[1][y]
        /\ \A x \in LanesOf(16) :
              (\A xy \in layer : ~InPair(x, xy)) => (b[2][x] <=> b[1][x])
    <3>1. 2 \in 1 .. Len(Network16) /\ 1 = 2-1
      BY <1>1
    <3> QED BY <3>1, LayerBits DEF layer
  <2> QED BY <2>1, <2>2
<1>4. /\ (b[3][0] <=> b[2][0] /\ b[2][8]) /\ (b[3][8] <=> b[2][0] \/ b[2][8])
      /\ (b[3][1] <=> b[2][1] /\ b[2][3]) /\ (b[3][3] <=> b[2][1] \/ b[2][3])
      /\ (b[3][2] <=> b[2][2] /\ b[2][11]) /\ (b[3][11] <=> b[2][2] \/ b[2][11])
      /\ (b[3][4] <=> b[2][4] /\ b[2][13]) /\ (b[3][13] <=> b[2][4] \/ b[2][13])
      /\ (b[3][5] <=> b[2][5] /\ b[2][9]) /\ (b[3][9] <=> b[2][5] \/ b[2][9])
      /\ (b[3][6] <=> b[2][6] /\ b[2][10]) /\ (b[3][10] <=> b[2][6] \/ b[2][10])
      /\ (b[3][7] <=> b[2][7] /\ b[2][15]) /\ (b[3][15] <=> b[2][7] \/ b[2][15])
      /\ (b[3][12] <=> b[2][12] /\ b[2][14]) /\ (b[3][14] <=> b[2][12] \/ b[2][14])
  <2> DEFINE layer == Network16[3]
  <2>1. /\ <<0, 8>> \in layer /\ <<1, 3>> \in layer /\ <<2, 11>> \in layer
        /\ <<4, 13>> \in layer /\ <<5, 9>> \in layer /\ <<6, 10>> \in layer
        /\ <<7, 15>> \in layer /\ <<12, 14>> \in layer
    BY DEF Network16
  <2> HIDE DEF layer
  <2>2. /\ \A x, y : <<x, y>> \in layer => /\ b[3][x] <=> b[2][x] /\ b[2][y]
                                           /\ b[3][y] <=> b[2][x] \/ b[2][y]
        /\ \A x \in LanesOf(16) :
              (\A xy \in layer : ~InPair(x, xy)) => (b[3][x] <=> b[2][x])
    <3>1. 3 \in 1 .. Len(Network16) /\ 2 = 3-1
      BY <1>1
    <3> QED BY <3>1, LayerBits DEF layer
  <2> QED BY <2>1, <2>2
<1>5. /\ (b[4][0] <=> b[3][0] /\ b[3][1]) /\ (b[4][1] <=> b[3][0] \/ b[3][1])
      /\ (b[4][2] <=> b[3][2] /\ b[3][4]) /\ (b[4][4] <=> b[3][2] \/ b[3][4])
      /\ (b[4][3] <=> b[3][3] /\ b[3][8]) /\ (b[4][8] <=> b[3][3] \/ b[3][8])
      /\ (b[4][5] <=> b[3][5] /\ b[3][6]) /\ (b[4][6] <=> b[3][5] \/ b[3][6])
      /\ (b[4][7] <=> b[3][7] /\ b[3][12]) /\ (b[4][12] <=> b[3][7] \/ b[3][12])
      /\ (b[4][9] <=> b[3][9] /\ b[3][10]) /\ (b[4][10] <=> b[3][9] \/ b[3][10])
      /\ (b[4][11] <=> b[3][11] /\ b[3][13]) /\ (b[4][13] <=> b[3][11] \/ b[3][13])
      /\ (b[4][14] <=> b[3][14] /\ b[3][15]) /\ (b[4][15] <=> b[3][14] \/ b[3][15])
  <2> DEFINE layer == Network16[4]
  <2>1. /\ <<0, 1>> \in layer /\ <<2, 4>> \in layer /\ <<3, 8>> \in layer
        /\ <<5, 6>> \in layer /\ <<7, 12>> \in layer /\ <<9, 10>> \in layer
        /\ <<11, 13>> \in layer /\ <<14, 15>> \in layer
    BY DEF Network16
  <2> HIDE DEF layer
  <2>2. /\ \A x, y : <<x, y>> \in layer => /\ b[4][x] <=> b[3][x] /\ b[3][y]
                                           /\ b[4][y] <=> b[3][x] \/ b[3][y]
        /\ \A x \in LanesOf(16) :
              (\A xy \in layer : ~InPair(x, xy)) => (b[4][x] <=> b[3][x])
    <3>1. 4 \in 1 .. Len(Network16) /\ 3 = 4-1
      BY <1>1
    <3> QED BY <3>1, LayerBits DEF layer
  <2> QED BY <2>1, <2>2
<1>6. /\ (b[5][1] <=> b[4][1] /\ b[4][3]) /\ (b[5][3] <=> b[4][1] \/ b[4][3])
      /\ (b[5][2] <=> b[4][2] /\ b[4][5]) /\ (b[5][5] <=> b[4][2] \/ b[4][5])
      /\ (b[5][4] <=> b[4][4] /\ b[4][8]) /\ (b[5][8] <=> b[4][4] \/ b[4][8])
      /\ (b[5][6] <=> b[4][6] /\ b[4][9]) /\ (b[5][9] <=> b[4][6] \/ b[4][9])
      /\ (b[5][7] <=> b[4][7] /\ b[4][11]) /\ (b[5][11] <=> b[4][7] \/ b[4][11])
      /\ (b[5][10] <=> b[4][10] /\ b[4][13]) /\ (b[5][13] <=> b[4][10] \/ b[4][13])
      /\ (b[5][12] <=> b[4][12] /\ b[4][14]) /\ (b[5][14] <=> b[4][12] \/ b[4][14])
      /\ (b[5][0] <=> b[4][0]) /\ (b[5][15] <=> b[4][15])
  <2> DEFINE layer == Network16[5]
  <2>1. /\ <<1, 3>> \in layer /\ <<2, 5>> \in layer /\ <<4, 8>> \in layer
        /\ <<6, 9>> \in layer /\ <<7, 11>> \in layer /\ <<10, 13>> \in layer
        /\ <<12, 14>> \in layer
    BY DEF Network16
  <2>3. /\ 0 \in LanesOf(16) /\ \A xy \in layer : ~InPair(0, xy)
        /\ 15 \in LanesOf(16) /\ \A xy \in layer : ~InPair(15, xy)
    BY DEF Network16, InPair, LanesOf
  <2> HIDE DEF layer
  <2>2. /\ \A x, y : <<x, y>> \in layer => /\ b[5][x] <=> b[4][x] /\ b[4][y]
                                           /\ b[5][y] <=> b[4][x] \/ b[4][y]
        /\ \A x \in LanesOf(16) :
              (\A xy \in layer : ~InPair(x, xy)) => (b[5][x] <=> b[4][x])
    <3>1. 5 \in 1 .. Len(Network16) /\ 4 = 5-1
      BY <1>1
    <3> QED BY <3>1, LayerBits DEF layer
  <2> QED BY <2>1, <2>2, <2>3
<1>7. /\ (b[6][1] <=> b[5][1] /\ b[5][2]) /\ (b[6][2] <=> b[5][1] \/ b[5][2])
      /\ (b[6][3] <=> b[5][3] /\ b[5][5]) /\ (b[6][5] <=> b[5][3] \/ b[5][5])
      /\ (b[6][4] <=> b[5][4] /\ b[5][11]) /\ (b[6][11] <=> b[5][4] \/ b[5][11])
      /\ (b[6][6] <=> b[5][6] /\ b[5][8]) /\ (b[6][8] <=> b[5][6] \/ b[5][8])
      /\ (b[6][7] <=> b[5][7] /\ b[5][9]) /\ (b[6][9] <=> b[5][7] \/ b[5][9])
      /\ (b[6][10] <=> b[5][10] /\ b[5][12]) /\ (b[6][12] <=> b[5][10] \/ b[5][12])
      /\ (b[6][13] <=> b[5][13] /\ b[5][14]) /\ (b[6][14] <=> b[5][13] \/ b[5][14])
      /\ (b[6][0] <=> b[5][0]) /\ (b[6][15] <=> b[5][15])
  <2> DEFINE layer == Network16[6]
  <2>1. /\ <<1, 2>> \in layer /\ <<3, 5>> \in layer /\ <<4, 11>> \in layer
        /\ <<6, 8>> \in layer /\ <<7, 9>> \in layer /\ <<10, 12>> \in layer
        /\ <<13, 14>> \in layer
    BY DEF Network16
  <2>3. /\ 0 \in LanesOf(16) /\ \A xy \in layer : ~InPair(0, xy)
        /\ 15 \in LanesOf(16) /\ \A xy \in layer : ~InPair(15, xy)
    BY DEF Network16, InPair, LanesOf
  <2> HIDE DEF layer
  <2>2. /\ \A x, y : <<x, y>> \in layer => /\ b[6][x] <=> b[5][x] /\ b[5][y]
                                           /\ b[6][y] <=> b[5][x] \/ b[5][y]
        /\ \A x \in LanesOf(16) :
              (\A xy \in layer : ~InPair(x, xy)) => (b[6][x] <=> b[5][x])
    <3>1. 6 \in 1 .. Len(Network16) /\ 5 = 6-1
      BY <1>1
    <3> QED BY <3>1, LayerBits DEF layer
  <2> QED BY <2>1, <2>2, <2>3
<1>8. /\ (b[7][2] <=> b[6][2] /\ b[6][3]) /\ (b[7][3] <=> b[6][2] \/ b[6][3])
      /\ (b[7][4] <=> b[6][4] /\ b[6][5]) /\ (b[7][5] <=> b[6][4] \/ b[6][5])
      /\ (b[7][6] <=> b[6][6] /\ b[6][7]) /\ (b[7][7] <=> b[6][6] \/ b[6][7])
      /\ (b[7][8] <=> b[6][8] /\ b[6][9]) /\ (b[7][9] <=> b[6][8] \/ b[6][9])
      /\ (b[7][10] <=> b[6][10] /\ b[6][11]) /\ (b[7][11] <=> b[6][10] \/ b[6][11])
      /\ (b[7][12] <=> b[6][12] /\ b[6][13]) /\ (b[7][13] <=> b[6][12] \/ b[6][13])
      /\ (b[7][0] <=> b[6][0]) /\ (b[7][1] <=> b[6][1]) /\ (b[7][14] <=> b[6][14])
      /\ (b[7][15] <=> b[6][15])
  <2> DEFINE layer == Network16[7]
  <2>1. /\ <<2, 3>> \in layer /\ <<4, 5>> \in layer /\ <<6, 7>> \in layer
        /\ <<8, 9>> \in layer /\ <<10, 11>> \in layer /\ <<12, 13>> \in layer
    BY DEF Network16
  <2>3. /\ 0 \in LanesOf(16) /\ \A xy \in layer : ~InPair(0, xy)
        /\ 1 \in LanesOf(16) /\ \A xy \in layer : ~InPair(1, xy)
        /\ 14 \in LanesOf(16) /\ \A xy \in layer : ~InPair(14, xy)
        /\ 15 \in LanesOf(16) /\ \A xy \in layer : ~InPair(15, xy)
    BY DEF Network16, InPair, LanesOf
  <2> HIDE DEF layer
  <2>2. /\ \A x, y : <<x, y>> \in layer => /\ b[7][x] <=> b[6][x] /\ b[6][y]
                                           /\ b[7][y] <=> b[6][x] \/ b[6][y]
        /\ \A x \in LanesOf(16) :
              (\A xy \in layer : ~InPair(x, xy)) => (b[7][x] <=> b[6][x])
    <3>1. 7 \in 1 .. Len(Network16) /\ 6 = 7-1
      BY <1>1
    <3> QED BY <3>1, LayerBits DEF layer
  <2> QED BY <2>1, <2>2, <2>3
<1>9. /\ (b[8][4] <=> b[7][4] /\ b[7][6]) /\ (b[8][6] <=> b[7][4] \/ b[7][6])
      /\ (b[8][5] <=> b[7][5] /\ b[7][7]) /\ (b[8][7] <=> b[7][5] \/ b[7][7])
      /\ (b[8][8] <=> b[7][8] /\ b[7][10]) /\ (b[8][10] <=> b[7][8] \/ b[7][10])
      /\ (b[8][9] <=> b[7][9] /\ b[7][11]) /\ (b[8][11] <=> b[7][9] \/ b[7][11])
      /\ (b[8][0] <=> b[7][0]) /\ (b[8][1] <=> b[7][1]) /\ (b[8][2] <=> b[7][2])
      /\ (b[8][3] <=> b[7][3]) /\ (b[8][12] <=> b[7][12]) /\ (b[8][13] <=> b[7][13])
      /\ (b[8][14] <=> b[7][14]) /\ (b[8][15] <=> b[7][15])
  <2> DEFINE layer == Network16[8]
  <2>1. /\ <<4, 6>> \in layer /\ <<5, 7>> \in layer /\ <<8, 10>> \in layer
        /\ <<9, 11>> \in layer
    BY DEF Network16
  <2>3. /\ 0 \in LanesOf(16) /\ \A xy \in layer : ~InPair(0, xy)
        /\ 1 \in LanesOf(16) /\ \A xy \in layer : ~InPair(1, xy)
        /\ 2 \in LanesOf(16) /\ \A xy \in layer : ~InPair(2, xy)
        /\ 3 \in LanesOf(16) /\ \A xy \in layer : ~InPair(3, xy)
        /\ 12 \in LanesOf(16) /\ \A xy \in layer : ~InPair(12, xy)
        /\ 13 \in LanesOf(16) /\ \A xy \in layer : ~InPair(13, xy)
        /\ 14 \in LanesOf(16) /\ \A xy \in layer : ~InPair(14, xy)
        /\ 15 \in LanesOf(16) /\ \A xy \in layer : ~InPair(15, xy)
    BY DEF Network16, InPair, LanesOf
  <2> HIDE DEF layer
  <2>2. /\ \A x, y : <<x, y>> \in layer => /\ b[8][x] <=> b[7][x] /\ b[7][y]
                                           /\ b[8][y] <=> b[7][x] \/ b[7][y]
        /\ \A x \in LanesOf(16) :
              (\A xy \in layer : ~InPair(x, xy)) => (b[8][x] <=> b[7][x])
    <3>1. 8 \in 1 .. Len(Network16) /\ 7 = 8-1
      BY <1>1
    <3> QED BY <3>1, LayerBits DEF layer
  <2> QED BY <2>1, <2>2, <2>3
<1>10. /\ (b[9][3] <=> b[8][3] /\ b[8][4]) /\ (b[9][4] <=> b[8][3] \/ b[8][4])
      /\ (b[9][5] <=> b[8][5] /\ b[8][6]) /\ (b[9][6] <=> b[8][5] \/ b[8][6])
      /\ (b[9][7] <=> b[8][7] /\ b[8][8]) /\ (b[9][8] <=> b[8][7] \/ b[8][8])
      /\ (b[9][9] <=> b[8][9] /\ b[8][10]) /\ (b[9][10] <=> b[8][9] \/ b[8][10])
      /\ (b[9][11] <=> b[8][11] /\ b[8][12]) /\ (b[9][12] <=> b[8][11] \/ b[8][12])
      /\ (b[9][0] <=> b[8][0]) /\ (b[9][1] <=> b[8][1]) /\ (b[9][2] <=> b[8][2])
      /\ (b[9][13] <=> b[8][13]) /\ (b[9][14] <=> b[8][14]) /\ (b[9][15] <=> b[8][15])
  <2> DEFINE layer == Network16[9]
  <2>1. /\ <<3, 4>> \in layer /\ <<5, 6>> \in layer /\ <<7, 8>> \in layer
        /\ <<9, 10>> \in layer /\ <<11, 12>> \in layer
    BY DEF Network16
  <2>3. /\ 0 \in LanesOf(16) /\ \A xy \in layer : ~InPair(0, xy)
        /\ 1 \in LanesOf(16) /\ \A xy \in layer : ~InPair(1, xy)
        /\ 2 \in LanesOf(16) /\ \A xy \in layer : ~InPair(2, xy)
        /\ 13 \in LanesOf(16) /\ \A xy \in layer : ~InPair(13, xy)
        /\ 14 \in LanesOf(16) /\ \A xy \in layer : ~InPair(14, xy)
        /\ 15 \in LanesOf(16) /\ \A xy \in layer : ~InPair(15, xy)
    BY DEF Network16, InPair, LanesOf
  <2> HIDE DEF layer
  <2>2. /\ \A x, y : <<x, y>> \in layer => /\ b[9][x] <=> b[8][x] /\ b[8][y]
                                           /\ b[9][y] <=> b[8][x] \/ b[8][y]
        /\ \A x \in LanesOf(16) :
              (\A xy \in layer : ~InPair(x, xy)) => (b[9][x] <=> b[8][x])
    <3>1. 9 \in 1 .. Len(Network16) /\ 8 = 9-1
      BY <1>1
    <3> QED BY <3>1, LayerBits DEF layer
  <2> QED BY <2>1, <2>2, <2>3
<1>11. /\ (b[9][0] => b[9][1]) /\ (b[9][1] => b[9][2]) /\ (b[9][2] => b[9][3])
      /\ (b[9][3] => b[9][4]) /\ (b[9][4] => b[9][5]) /\ (b[9][5] => b[9][6])
      /\ (b[9][6] => b[9][7]) /\ (b[9][7] => b[9][8]) /\ (b[9][8] => b[9][9])
      /\ (b[9][9] => b[9][10]) /\ (b[9][10] => b[9][11]) /\ (b[9][11] => b[9][12])
      /\ (b[9][12] => b[9][13]) /\ (b[9][13] => b[9][14]) /\ (b[9][14] => b[9][15])
  BY <1>2, <1>3, <1>4, <1>5, <1>6, <1>7, <1>8, <1>9, <1>10
<1> QED BY <1>1, <1>11 DEF BitsInOrder

Sizes == {2, 4, 8, 16}

LEMMA NetworkFound ==
    ASSUME NEW items \in Sizes
    PROVE  /\ Len(NetworkFor(items)) \in Nat
           /\ IsNetwork(NetworkFor(items), items)
           /\ SortsBits(NetworkFor(items), items)
<1>1. CASE items = 2
  BY <1>1, Network2Is, Network2Sorts DEF NetworkFor
<1>2. CASE items = 4
  BY <1>2, Network4Is, Network4Sorts DEF NetworkFor
<1>3. CASE items = 8
  BY <1>3, Network8Is, Network8Sorts DEF NetworkFor
<1>4. CASE items = 16
  BY <1>4, Network16Is, Network16Sorts DEF NetworkFor
<1> QED BY <1>1, <1>2, <1>3, <1>4 DEF Sizes

\* The registers after each layer.
AreLayers(network, items, lanes, ascending, values, w) ==
    /\ w \in [0 .. Len(network) -> Registers(lanes)]
    /\ w[0] = values
    /\ \A l \in 1 .. Len(network) :
          w[l] = CompareLayer(w[l-1], LayerOfGroups(network[l], items, lanes), ascending)

LEMMA LayerStays ==
    ASSUME NEW L, NEW layer, IsLayer(layer, L), NEW v \in [L -> Pairs], NEW ascending \in BOOLEAN
    PROVE  CompareLayer(v, layer, ascending) \in [L -> Pairs]
<1>1. PICK f : /\ Exchange(f, v, layer, ascending, L)
               /\ CompareLayer(v, layer, ascending) = [i \in L |-> v[f[i]]]
  BY LayerExchanges
<1>2. f \in [L -> L]
  BY <1>1 DEF Exchange
<1> QED BY <1>1, <1>2

LEMMA SortRun ==
    ASSUME NEW items \in Sizes, NEW groups \in Nat, NEW ascending \in BOOLEAN,
           NEW v \in Registers(items * groups)
    PROVE  \E w : /\ AreLayers(NetworkFor(items), items, items * groups, ascending, v, w)
                  /\ SortBatch(items, ascending, v) = w[Len(NetworkFor(items))]
<1> DEFINE network == NetworkFor(items)
           n == Len(network)
           lanes == items * groups
           V == Registers(lanes)
           Layer(l) == LayerOfGroups(network[l], items, lanes)
           Sorts(w) == w = [l \in 0 .. n |->
                               IF l = 0 THEN v
                               ELSE CompareLayer(w[l-1], Layer(l), ascending)]
           after == CHOOSE w : Sorts(w)
           step == [l \in 1 .. n |-> [r \in V |-> CompareLayer(r, Layer(l), ascending)]]
<1>0. n \in Nat /\ lanes \in Nat
  BY NetworkFound DEF Sizes
<1>1. Cardinality(DOMAIN v) = lanes
  <2>1. DOMAIN v = 0 .. lanes-1
    BY DEF Registers, LanesOf
  <2> HIDE DEF lanes
  <2> QED BY <1>0, <2>1, SizeBelow
<1>2. SortBatch(items, ascending, v) = after[n]
  <2> HIDE DEF lanes
  <2> QED BY <1>1 DEF SortBatch
<1>3. \A l \in 1 .. n : IsLayer(Layer(l), LanesOf(lanes))
  <2> TAKE l \in 1 .. n
  <2>1. IsLayer(network[l], LanesOf(items))
    BY NetworkFound DEF IsNetwork
  <2> HIDE DEF network
  <2>2. items \in Nat \ {0}
    BY DEF Sizes
  <2> QED BY <2>1, <2>2, GroupLayer
<1> HIDE DEF n, lanes, network
<1>4. ASSUME NEW l \in 1 .. n, NEW r \in V PROVE CompareLayer(r, Layer(l), ascending) \in V
  <2> DEFINE y == Layer(l)
  <2>1. IsLayer(y, LanesOf(lanes))
    BY <1>3
  <2> HIDE DEF y
  <2>2. CompareLayer(r, y, ascending) \in V
    BY <2>1, LayerStays DEF Registers
  <2> QED BY <2>2 DEF y
<1> HIDE DEF V, Layer
<1>5. step \in [1 .. n -> [V -> V]]
  BY <1>4
<1>6. v \in V
  BY DEF V, lanes
<1>7. PICK w : Iterates(n, V, v, step, w)
  <2> HIDE DEF step
  <2> QED BY <1>0, <1>5, <1>6, IterationExists
<1>8. w \in [0 .. n -> V] /\ w[0] = v /\ \A l \in 1 .. n : w[l] = step[l][w[l-1]]
  <2> HIDE DEF step
  <2> QED BY <1>7 DEF Iterates
<1>9. \A l \in 1 .. n : w[l] = CompareLayer(w[l-1], Layer(l), ascending)
  <2> TAKE l \in 1 .. n
  <2>1. l-1 \in 0 .. n
    BY <1>0
  <2>2. w[l-1] \in V
    BY <1>8, <2>1
  <2> QED BY <1>8, <2>2
<1> HIDE DEF step
<1>10. Sorts(w)
  <2>1. \A l \in 0 .. n : w[l] = IF l = 0 THEN v ELSE CompareLayer(w[l-1], Layer(l), ascending)
    <3> TAKE l \in 0 .. n
    <3>1. l = 0 \/ l \in 1 .. n
      BY <1>0
    <3> QED BY <1>8, <1>9, <3>1
  <2> QED BY <1>8, <2>1
<1>11. Sorts(after)
  <2> HIDE DEF Sorts
  <2> QED BY <1>10
<1> HIDE DEF after
<1>12. after[0] = v /\ \A l \in 1 .. n : after[l] = CompareLayer(after[l-1], Layer(l), ascending)
  <2>1. \A l \in 1 .. n : l \in 0 .. n /\ l # 0
    BY <1>0
  <2> QED BY <1>0, <1>11, <2>1
<1> DEFINE T == {l \in 0 .. n : after[l] \in V}
<1>13. 0 \in T
  BY <1>0, <1>6, <1>12
<1>14. ASSUME NEW l \in 1 .. n, l-1 \in T PROVE l \in T
  <2>1. l \in 0 .. n /\ after[l-1] \in V
    BY <1>0, <1>14
  <2> QED BY <1>4, <1>12, <2>1
<1>15. \A l \in 0 .. n : l \in T
  <2> HIDE DEF T
  <2> QED BY <1>0, <1>13, <1>14, UpTo
<1>16. after \in [0 .. n -> V]
  BY <1>11, <1>15
<1>17. AreLayers(network, items, lanes, ascending, v, after)
  BY <1>12, <1>16 DEF AreLayers, n, V, Layer
<1> QED BY <1>2, <1>17 DEF network, n, lanes

\* Each layer exchanges words within the groups.
LEMMA LayersPermute ==
    ASSUME NEW items \in Sizes, NEW groups \in Nat, NEW ascending \in BOOLEAN,
           NEW v \in Registers(items * groups),
           NEW w, AreLayers(NetworkFor(items), items, items * groups, ascending, v, w)
    PROVE  \A l \in 0 .. Len(NetworkFor(items)) :
              \E f : /\ IsPermutation(f, LanesOf(items * groups))
                     /\ \A i \in LanesOf(items * groups) :
                           /\ f[i] \div items = i \div items
                           /\ w[l][i] = v[f[i]]
<1> DEFINE network == NetworkFor(items)
           n == Len(network)
           lanes == items * groups
           L == LanesOf(lanes)
           Layer(l) == LayerOfGroups(network[l], items, lanes)
           Good(f, r) == /\ IsPermutation(f, L)
                         /\ \A i \in L : f[i] \div items = i \div items /\ r[i] = v[f[i]]
           T == {l \in 0 .. n : \E f : Good(f, w[l])}
<1>0. n \in Nat /\ items \in Nat \ {0}
  BY NetworkFound DEF Sizes
<1>1. w \in [0 .. n -> [L -> Pairs]] /\ w[0] = v
      /\ \A l \in 1 .. n : w[l] = CompareLayer(w[l-1], Layer(l), ascending)
  BY DEF AreLayers, Registers
<1>2. \A l \in 1 .. n : /\ IsLayer(Layer(l), L)
                        /\ \A zw \in Layer(l) : zw[1] \div items = zw[2] \div items
  <2> TAKE l \in 1 .. n
  <2>1. IsLayer(network[l], LanesOf(items))
    BY NetworkFound DEF IsNetwork
  <2> HIDE DEF network
  <2> QED BY <1>0, <2>1, GroupLayer
<1> HIDE DEF network, n, lanes, Layer
<1>3. 0 \in T
  <2> DEFINE id == [i \in L |-> i]
  <2>1. id \in [L -> L] /\ \A i \in L : id[i] = i
    OBVIOUS
  <2> HIDE DEF id
  <2>2. IsPermutation(id, L)
    BY <2>1 DEF IsPermutation
  <2>3. Good(id, w[0])
    BY <1>1, <2>1, <2>2
  <2> HIDE DEF Good
  <2>4. 0 \in 0 .. n
    BY <1>0
  <2> QED BY <2>3, <2>4
<1>4. ASSUME NEW l \in 1 .. n, l-1 \in T PROVE l \in T
  <2>0. l \in 0 .. n /\ l-1 \in 0 .. n
    BY <1>0
  <2>1. PICK f : Good(f, w[l-1])
    BY <1>4
  <2> DEFINE layer == Layer(l)
             r == w[l-1]
  <2>2. r \in [L -> Pairs] /\ w[l] = CompareLayer(r, layer, ascending)
    BY <1>1, <2>0
  <2>3. IsLayer(layer, L) /\ \A zw \in layer : zw[1] \div items = zw[2] \div items
    BY <1>2
  <2>4. Good(f, r)
    BY <2>1
  <2> HIDE DEF layer, r, L
  <2>5. PICK h : /\ Exchange(h, r, layer, ascending, L)
                 /\ CompareLayer(r, layer, ascending) = [i \in L |-> r[h[i]]]
    BY <2>2, <2>3, LayerExchanges
  <2>6. IsPermutation(h, L) /\ WithinPairs(h, layer, L)
    BY <2>3, <2>5, ExchangeIsPermutation
  <2>7. h \in [L -> L] /\ f \in [L -> L]
    BY <2>4, <2>6 DEF IsPermutation
  <2>8. \A i \in L : h[i] \div items = i \div items
    <3> TAKE i \in L
    <3>1. h[i] = i \/ \E xy \in layer : {i, h[i]} = {xy[1], xy[2]}
      BY <2>6 DEF WithinPairs
    <3>2. ASSUME NEW xy \in layer, {i, h[i]} = {xy[1], xy[2]} PROVE h[i] \div items = i \div items
      <4>1. (i = xy[1] \/ i = xy[2]) /\ (h[i] = xy[1] \/ h[i] = xy[2])
        BY <3>2
      <4> QED BY <2>3, <4>1
    <3> QED BY <3>1, <3>2
  <2> DEFINE c == [i \in L |-> f[h[i]]]
  <2>9. c \in [L -> L] /\ \A i \in L : c[i] = f[h[i]]
    BY <2>7
  <2> HIDE DEF c
  <2>10. IsPermutation(c, L)
    <3>1. ASSUME NEW i \in L, NEW j \in L, c[i] = c[j] PROVE i = j
      BY <2>4, <2>6, <2>7, <2>9, <3>1 DEF IsPermutation
    <3>2. ASSUME NEW j \in L PROVE \E i \in L : c[i] = j
      <4>1. PICK m \in L : f[m] = j
        BY <2>4 DEF IsPermutation
      <4>2. PICK i \in L : h[i] = m
        BY <2>6 DEF IsPermutation
      <4> QED BY <2>9, <4>1, <4>2
    <3> QED BY <2>9, <3>1, <3>2 DEF IsPermutation
  <2>11. \A i \in L : c[i] \div items = i \div items /\ w[l][i] = v[c[i]]
    <3> TAKE i \in L
    <3>1. h[i] \in L /\ c[i] = f[h[i]]
      BY <2>7, <2>9
    <3>2. f[h[i]] \div items = h[i] \div items /\ r[h[i]] = v[f[h[i]]]
      BY <2>4, <3>1
    <3> QED BY <2>2, <2>5, <2>8, <3>1, <3>2
  <2>12. Good(c, w[l])
    BY <2>10, <2>11
  <2> HIDE DEF Good
  <2> QED BY <2>0, <2>12
<1>5. \A l \in 0 .. n : l \in T
  <2> HIDE DEF T
  <2> QED BY <1>0, <1>3, <1>4, UpTo
<1> QED BY <1>5 DEF n, network, L, lanes

\* Seen from a threshold, a run of the layers works on bits.
LEMMA RunWorksOnBits ==
    ASSUME NEW items \in Sizes, NEW groups \in Nat, NEW ascending \in BOOLEAN,
           NEW v \in Registers(items * groups),
           NEW w, AreLayers(NetworkFor(items), items, items * groups, ascending, v, w),
           NEW g \in 0 .. groups-1, NEW t \in Pairs,
           NEW b, b = [l \in 0 .. Len(NetworkFor(items)) |-> [x \in LanesOf(items) |->
                         AtLeast(t, w[l][x + g * items]) <=> ascending]]
    PROVE  WorksOnBits(NetworkFor(items), items, b)
<1> DEFINE network == NetworkFor(items)
           n == Len(network)
           lanes == items * groups
           L == LanesOf(lanes)
           K == LanesOf(items)
           At(x) == x + g * items
<1>0. n \in Nat /\ items \in Nat \ {0}
  BY NetworkFound DEF Sizes
<1>1. w \in [0 .. n -> [L -> Pairs]]
      /\ \A l \in 1 .. n : w[l] = CompareLayer(w[l-1], LayerOfGroups(network[l], items, lanes), ascending)
  BY DEF AreLayers, Registers
<1>2. \A l \in 1 .. n : IsLayer(network[l], K)
  BY NetworkFound DEF IsNetwork
<1>3. \A l \in 0 .. n, x \in K : b[l][x] <=> (AtLeast(t, w[l][At(x)]) <=> ascending)
  OBVIOUS
<1>4. \A x \in K : At(x) \in L
  BY <1>0, LaneInGroup
<1>5. ASSUME NEW l \in 1 .. n
      PROVE  /\ \A xy \in network[l] : /\ b[l][xy[1]] <=> b[l-1][xy[1]] /\ b[l-1][xy[2]]
                                       /\ b[l][xy[2]] <=> b[l-1][xy[1]] \/ b[l-1][xy[2]]
             /\ \A x \in K : (\A xy \in network[l] : ~InPair(x, xy)) => (b[l][x] <=> b[l-1][x])
  <2> DEFINE layer == network[l]
             big == LayerOfGroups(layer, items, lanes)
             r == w[l-1]
             c == w[l]
  <2>1. l-1 \in 0 .. n /\ l \in 0 .. n
    BY <1>0
  <2>2. r \in [L -> Pairs] /\ c \in [L -> Pairs] /\ c = CompareLayer(r, big, ascending)
    BY <1>1, <2>1
  <2>3. IsLayer(layer, K)
    BY <1>2
  <2>4. /\ IsLayer(big, L)
        /\ \A xy \in layer, h \in 0 .. groups-1 : <<xy[1] + h * items, xy[2] + h * items>> \in big
        /\ \A x \in K, h \in 0 .. groups-1 :
              (\A xy \in layer : ~InPair(x, xy)) => \A zw \in big : ~InPair(x + h * items, zw)
    <3> HIDE DEF layer
    <3> QED BY <1>0, <2>3, GroupLayer
  <2>5. /\ \A xy \in layer : <<At(xy[1]), At(xy[2])>> \in big
        /\ \A x \in K : (\A xy \in layer : ~InPair(x, xy)) => \A zw \in big : ~InPair(At(x), zw)
    BY <2>4
  <2>6. \A xy \in layer : xy[1] \in K /\ xy[2] \in K
    BY <2>3 DEF IsLayer
  <2>7. /\ \A x \in K : b[l][x] <=> (AtLeast(t, c[At(x)]) <=> ascending)
        /\ \A x \in K : b[l-1][x] <=> (AtLeast(t, r[At(x)]) <=> ascending)
    BY <1>3, <2>1
  <2> HIDE DEF layer, big, r, c, At, network, L, K
  <2>8. /\ \A zw \in big :
              LET least == IF ascending THEN zw[1] ELSE zw[2]
                  most  == IF ascending THEN zw[2] ELSE zw[1]
              IN  /\ AtLeast(t, c[least]) <=> AtLeast(t, r[zw[1]]) /\ AtLeast(t, r[zw[2]])
                  /\ AtLeast(t, c[most]) <=> AtLeast(t, r[zw[1]]) \/ AtLeast(t, r[zw[2]])
        /\ \A i \in L : (\A zw \in big : ~InPair(i, zw)) => c[i] = r[i]
    BY <2>2, <2>4, LayerAtLeast
  <2>9. ASSUME NEW xy \in layer
        PROVE  /\ b[l][xy[1]] <=> b[l-1][xy[1]] /\ b[l-1][xy[2]]
               /\ b[l][xy[2]] <=> b[l-1][xy[1]] \/ b[l-1][xy[2]]
    <3> DEFINE X == At(xy[1])
               Y == At(xy[2])
    <3>1. LET least == IF ascending THEN X ELSE Y
              most  == IF ascending THEN Y ELSE X
          IN  /\ AtLeast(t, c[least]) <=> AtLeast(t, r[X]) /\ AtLeast(t, r[Y])
              /\ AtLeast(t, c[most]) <=> AtLeast(t, r[X]) \/ AtLeast(t, r[Y])
      <4>1. <<X, Y>> \in big /\ <<X, Y>>[1] = X /\ <<X, Y>>[2] = Y
        BY <2>5
      <4> HIDE DEF X, Y
      <4> QED BY <2>8, <4>1
    <3>2. /\ b[l][xy[1]] <=> (AtLeast(t, c[X]) <=> ascending)
          /\ b[l][xy[2]] <=> (AtLeast(t, c[Y]) <=> ascending)
          /\ b[l-1][xy[1]] <=> (AtLeast(t, r[X]) <=> ascending)
          /\ b[l-1][xy[2]] <=> (AtLeast(t, r[Y]) <=> ascending)
      BY <2>6, <2>7
    <3> HIDE DEF X, Y
    <3>3. CASE ascending
      BY <3>1, <3>2, <3>3
    <3>4. CASE ~ascending
      BY <3>1, <3>2, <3>4
    <3> QED BY <3>3, <3>4
  <2>10. ASSUME NEW x \in K, \A xy \in layer : ~InPair(x, xy) PROVE b[l][x] <=> b[l-1][x]
    <3>1. c[At(x)] = r[At(x)]
      BY <1>4, <2>5, <2>8, <2>10
    <3> QED BY <2>7, <3>1
  <2> QED BY <2>9, <2>10 DEF layer
<1> QED BY <1>5 DEF WorksOnBits

InDirection(v, w, ascending) == IF ascending THEN ~Below(w, v) ELSE ~Below(v, w)

LEMMA NextInDirection ==
    ASSUME NEW items \in Sizes, NEW groups \in Nat, NEW ascending \in BOOLEAN,
           NEW v \in Registers(items * groups),
           NEW w, AreLayers(NetworkFor(items), items, items * groups, ascending, v, w),
           NEW g \in 0 .. groups-1, NEW x \in 1 .. items-1,
           NEW r, r = w[Len(NetworkFor(items))]
    PROVE  InDirection(r[(x-1) + g * items], r[x + g * items], ascending)
<1> DEFINE n == Len(NetworkFor(items))
           y == r[(x-1) + g * items]
           z == r[x + g * items]
           b(t) == [l \in 0 .. n |-> [i \in LanesOf(items) |->
                         AtLeast(t, w[l][i + g * items]) <=> ascending]]
<1>0. n \in Nat /\ items \in Nat \ {0}
  BY NetworkFound DEF Sizes
<1>1. x \in LanesOf(items) /\ x-1 \in LanesOf(items)
  BY <1>0 DEF LanesOf
<1>2. y \in Pairs /\ z \in Pairs
  <2>1. r \in [LanesOf(items * groups) -> Pairs]
    BY <1>0 DEF AreLayers, Registers
  <2> QED BY <1>0, <1>1, <2>1, LaneInGroup
<1>3. ASSUME NEW t \in Pairs
      PROVE  (AtLeast(t, y) <=> ascending) => (AtLeast(t, z) <=> ascending)
  <2>1. WorksOnBits(NetworkFor(items), items, b(t))
    BY RunWorksOnBits
  <2> DEFINE c == b(t)
             Lane(i) == i + g * items
  <2>5. \A l \in 0 .. n, i \in LanesOf(items) :
           c[l][i] <=> (AtLeast(t, w[l][Lane(i)]) <=> ascending)
    OBVIOUS
  <2>2. c[n][x-1] <=> (AtLeast(t, y) <=> ascending)
    <3> HIDE DEF b, c, n, Lane
    <3>1. n \in 0 .. n
      BY <1>0
    <3>2. c[n][x-1] <=> (AtLeast(t, w[n][Lane(x-1)]) <=> ascending)
      BY <1>1, <2>5, <3>1
    <3> QED BY <3>2 DEF Lane, n
  <2>3. c[n][x] <=> (AtLeast(t, z) <=> ascending)
    <3> HIDE DEF b, c, n, Lane
    <3>1. n \in 0 .. n
      BY <1>0
    <3>2. c[n][x] <=> (AtLeast(t, w[n][Lane(x)]) <=> ascending)
      BY <1>1, <2>5, <3>1
    <3> QED BY <3>2 DEF Lane, n
  <2>4. c[n][x-1] => c[n][x]
    <3> HIDE DEF b
    <3>1. BitsInOrder(NetworkFor(items), items, c)
      BY <2>1, NetworkFound DEF SortsBits
    <3> HIDE DEF c
    <3> QED BY <3>1 DEF BitsInOrder
  <2> HIDE DEF b, c, n, y, z
  <2> QED BY <2>2, <2>3, <2>4
<1> HIDE DEF y, z
<1>4. AtLeast(y, y) /\ AtLeast(z, z)
  BY <1>2, BelowIsOrder DEF AtLeast
<1>5. CASE ascending
  BY <1>2, <1>3, <1>4, <1>5 DEF AtLeast, InDirection, y, z
<1>6. CASE ~ascending
  BY <1>2, <1>3, <1>4, <1>6 DEF AtLeast, InDirection, y, z
<1> QED BY <1>5, <1>6

(***************************************************************************)
(* A register is sorted when every group of lanes holds its own words, in  *)
(* order.                                                                  *)
(***************************************************************************)
SortedInGroups(items, groups, ascending, v, r) ==
    LET L == LanesOf(items * groups)
    IN  /\ r \in Registers(items * groups)
        /\ \E f : /\ IsPermutation(f, L)
                  /\ \A i \in L : f[i] \div items = i \div items /\ r[i] = v[f[i]]
        /\ \A i, j \in L : i < j /\ i \div items = j \div items => InDirection(r[i], r[j], ascending)

LEMMA DirectionTransitive ==
    ASSUME NEW ascending \in BOOLEAN, NEW x \in Pairs, NEW y \in Pairs, NEW z \in Pairs,
           InDirection(x, y, ascending), InDirection(y, z, ascending)
    PROVE  InDirection(x, z, ascending)
BY BelowTransitive DEF InDirection

LEMMA GroupInDirection ==
    ASSUME NEW items \in Nat \ {0}, NEW ascending \in BOOLEAN, NEW r \in [LanesOf(items) -> Pairs],
           \A x \in 1 .. items-1 : InDirection(r[x-1], r[x], ascending)
    PROVE  \A x, y \in LanesOf(items) : x < y => InDirection(r[x], r[y], ascending)
<1> DEFINE m == items-1
           T == {y \in 0 .. m : \A x \in 0 .. y-1 : InDirection(r[x], r[y], ascending)}
<1>0. m \in Nat
  OBVIOUS
<1>1. 0 \in T
  OBVIOUS
<1>2. ASSUME NEW y \in 1 .. m, y-1 \in T PROVE y \in T
  <2> SUFFICES ASSUME NEW x \in 0 .. y-1 PROVE InDirection(r[x], r[y], ascending)
    OBVIOUS
  <2>1. InDirection(r[y-1], r[y], ascending)
    OBVIOUS
  <2>2. x \in LanesOf(items) /\ y-1 \in LanesOf(items) /\ y \in LanesOf(items)
    BY DEF LanesOf
  <2>3. CASE x = y-1
    BY <2>1, <2>3
  <2>4. CASE x # y-1
    <3>1. x \in 0 .. (y-1)-1
      BY <2>4
    <3>2. InDirection(r[x], r[y-1], ascending)
      BY <1>2, <3>1
    <3> QED BY <2>1, <2>2, <3>2, DirectionTransitive
  <2> QED BY <2>3, <2>4
<1>3. \A y \in 0 .. m : y \in T
  <2> HIDE DEF T, m
  <2> QED BY <1>0, <1>1, <1>2, UpTo
<1>4. ASSUME NEW x \in LanesOf(items), NEW y \in LanesOf(items), x < y
      PROVE  InDirection(r[x], r[y], ascending)
  <2>1. y \in 0 .. m /\ x \in 0 .. y-1
    BY <1>4 DEF LanesOf
  <2> QED BY <1>3, <2>1
<1> QED BY <1>4

(***************************************************************************)
(* sort_single_batch sorts every register, group by group and in both      *)
(* directions, whatever the words: no word is lost or leaves its group, as *)
(* lines 69-70 of sort_single_batch.hpp say.                               *)
(***************************************************************************)
THEOREM BatchSorted ==
    ASSUME NEW items \in Sizes, NEW groups \in Nat, NEW ascending \in BOOLEAN,
           NEW v \in Registers(items * groups)
    PROVE  SortedInGroups(items, groups, ascending, v, SortBatch(items, ascending, v))
<1> DEFINE n == Len(NetworkFor(items))
           L == LanesOf(items * groups)
           r == SortBatch(items, ascending, v)
<1>0. n \in Nat /\ items \in Nat \ {0}
  BY NetworkFound DEF Sizes
<1>1. PICK w : /\ AreLayers(NetworkFor(items), items, items * groups, ascending, v, w)
               /\ r = w[n]
  BY SortRun
<1>2. r \in [L -> Pairs]
  <2>1. w \in [0 .. n -> [L -> Pairs]]
    BY <1>1 DEF AreLayers, Registers
  <2> HIDE DEF n, r, L
  <2> QED BY <1>0, <1>1, <2>1
<1>3. \E f : /\ IsPermutation(f, L)
             /\ \A i \in L : f[i] \div items = i \div items /\ r[i] = v[f[i]]
  <2>1. \E f : /\ IsPermutation(f, L)
               /\ \A i \in L : f[i] \div items = i \div items /\ w[n][i] = v[f[i]]
    <3>1. n \in 0 .. n
      BY <1>0
    <3> QED BY <1>1, <3>1, LayersPermute
  <2> HIDE DEF n, r, L
  <2> QED BY <1>1, <2>1
<1>4. ASSUME NEW i \in L, NEW j \in L, i < j, i \div items = j \div items
      PROVE  InDirection(r[i], r[j], ascending)
  <2> DEFINE g == i \div items
             p == [x \in LanesOf(items) |-> r[x + g * items]]
             x == i % items
             y == j % items
  <2>1. /\ g \in 0 .. groups-1 /\ x \in LanesOf(items) /\ y \in LanesOf(items)
        /\ i = x + g * items
    BY <1>0, GroupOfLane
  <2>2. j = y + g * items
    <3>1. j = y + (j \div items) * items
      BY <1>0, GroupOfLane
    <3> QED BY <1>4, <3>1
  <2> HIDE DEF g, x, y, r
  <2>3. \A z \in LanesOf(items) : z + g * items \in L
    BY <1>0, <2>1, LaneInGroup
  <2>4. p \in [LanesOf(items) -> Pairs] /\ \A z \in LanesOf(items) : p[z] = r[z + g * items]
    BY <1>2, <2>3
  <2>5. \A z \in 1 .. items-1 : InDirection(p[z-1], p[z], ascending)
    <3> TAKE z \in 1 .. items-1
    <3>1. z \in LanesOf(items) /\ z-1 \in LanesOf(items)
      BY <1>0 DEF LanesOf
    <3>2. InDirection(r[(z-1) + g * items], r[z + g * items], ascending)
      BY <1>1, <2>1, NextInDirection
    <3> HIDE DEF p
    <3> QED BY <2>4, <3>1, <3>2
  <2> HIDE DEF p
  <2>6. \A a, b \in LanesOf(items) : a < b => InDirection(p[a], p[b], ascending)
    BY <1>0, <2>4, <2>5, GroupInDirection
  <2>7. x < y
    <3> DEFINE q == g * items
    <3>1. q \in Int /\ i = x + q /\ j = y + q /\ x \in Int /\ y \in Int
      BY <1>0, <2>1, <2>2 DEF LanesOf
    <3> HIDE DEF q
    <3> QED BY <1>4, <3>1
  <2>8. InDirection(p[x], p[y], ascending)
    BY <2>1, <2>6, <2>7
  <2> QED BY <2>1, <2>2, <2>4, <2>8
<1> HIDE DEF r
<1> QED BY <1>2, <1>3, <1>4 DEF SortedInGroups, r, Registers

-----------------------------------------------------------------------------
(***************************************************************************)
(* Sorting keys that carry their lane in the lowest bits.                  *)
(***************************************************************************)
Widths == {8, 16}

LaneWords(W, a, b) == [u \in LanesOf(W) |-> <<a[u], W * b[u] + u>>]

LEMMA LaneWord ==
    ASSUME NEW W \in Widths, NEW a \in Int, NEW b \in Nat, NEW u \in LanesOf(W),
           NEW w, w = <<a, W * b + u>>
    PROVE  w \in Pairs /\ LaneOf(w, W) = u /\ WithoutLane(w, W) = <<a, b>>
<1> DEFINE c == W * b + u
<1>1. W \in Nat \ {0} /\ u \in 0 .. W-1
  BY DEF Widths, LanesOf
<1>2. c \in Nat /\ c = b * W + u
  BY <1>1
<1>3. w[1] = a /\ w[2] = c
  OBVIOUS
<1> HIDE DEF c
<1>4. c \div W = b /\ c % W = u
  BY <1>1, <1>2, QuotientUnique
<1>5. w = <<a, c>>
  BY DEF c
<1> QED BY <1>2, <1>3, <1>4, <1>5 DEF Pairs, LaneOf, WithoutLane

\* Of two keys in order, the lanes of equal ones are in order.
LEMMA LaneWordsOrder ==
    ASSUME NEW W \in Widths, NEW a \in Int, NEW b \in Nat, NEW u \in LanesOf(W),
           NEW c \in Int, NEW d \in Nat, NEW v \in LanesOf(W), u # v,
           ~Below(<<c, W * d + v>>, <<a, W * b + u>>)
    PROVE  Below(<<a, b>>, <<c, d>>) \/ (a = c /\ b = d /\ u < v)
<1>1. a < c \/ (a = c /\ W * b + u <= W * d + v)
  <2> DEFINE x == W * b + u
             y == W * d + v
  <2>1. x \in Int /\ y \in Int
    BY DEF Widths, LanesOf
  <2> HIDE DEF x, y
  <2>2. ~Below(<<c, y>>, <<a, x>>)
    BY DEF x, y
  <2>3. a < c \/ (a = c /\ x <= y)
    BY <2>1, <2>2 DEF Below
  <2> QED BY <2>3 DEF x, y
<1>2. CASE W = 8
  <2>1. u \in 0 .. 7 /\ v \in 0 .. 7
    BY <1>2 DEF LanesOf
  <2> QED BY <1>1, <1>2, <2>1 DEF Below
<1>3. CASE W = 16
  <2>1. u \in 0 .. 15 /\ v \in 0 .. 15
    BY <1>3 DEF LanesOf
  <2> QED BY <1>1, <1>3, <2>1 DEF Below
<1> QED BY <1>2, <1>3 DEF Widths

SortUp(W, v) == SortBatch(W, TRUE, v)

\* f tells where the words of the sorted register r come from.
SortedFrom(f, W, v, r) ==
    /\ IsPermutation(f, LanesOf(W))
    /\ \A p \in LanesOf(W) : r[p] = v[f[p]]
    /\ \A p, q \in LanesOf(W) : p < q => ~Below(v[f[q]], v[f[p]])

\* One register is one group of lanes.
LEMMA RegisterSorted ==
    ASSUME NEW W \in Widths, NEW v \in [LanesOf(W) -> Pairs], NEW r, r = SortUp(W, v)
    PROVE  \E f : SortedFrom(f, W, v, r)
<1>1. W \in Sizes /\ W \in Nat \ {0} /\ W * 1 = W /\ 1 \in Nat
  BY DEF Widths, Sizes
<1>2. v \in Registers(W * 1)
  BY <1>1 DEF Registers
<1>3. SortedInGroups(W, 1, TRUE, v, r)
  BY <1>1, <1>2, BatchSorted DEF SortUp
<1>4. /\ \E f : /\ IsPermutation(f, LanesOf(W))
                /\ \A i \in LanesOf(W) : f[i] \div W = i \div W /\ r[i] = v[f[i]]
      /\ \A i, j \in LanesOf(W) : i < j /\ i \div W = j \div W => InDirection(r[i], r[j], TRUE)
  BY <1>1, <1>3 DEF SortedInGroups
<1>5. \A i \in LanesOf(W) : i \div W = 0
  <2> TAKE i \in LanesOf(W)
  <2>1. i \in Nat /\ i = 0 * W + i /\ i \in 0 .. W-1 /\ 0 \in Nat
    BY <1>1 DEF LanesOf
  <2> QED BY <1>1, <2>1, QuotientUnique
<1>6. PICK f : /\ IsPermutation(f, LanesOf(W))
               /\ \A i \in LanesOf(W) : r[i] = v[f[i]]
  BY <1>4
<1>7. \A i, j \in LanesOf(W) : i < j => ~Below(r[j], r[i])
  BY <1>4, <1>5 DEF InDirection
<1>8. \A p, q \in LanesOf(W) : p < q => ~Below(v[f[q]], v[f[p]])
  BY <1>6, <1>7
<1> QED BY <1>6, <1>8 DEF SortedFrom

\* Lanes in the order of their keys, equal ones in the order of the lanes.
Ranked(W, a, b, label) ==
    /\ IsPermutation(label, LanesOf(W))
    /\ \A p, q \in LanesOf(W) : p < q =>
          \/ Below(<<a[label[p]], b[label[p]]>>, <<a[label[q]], b[label[q]]>>)
          \/ /\ a[label[p]] = a[label[q]] /\ b[label[p]] = b[label[q]]
             /\ label[p] < label[q]

\* The words of a register sorted that way, without their lanes.
KeysAtRanks(W, a, b, label, sorted) ==
    \A p \in LanesOf(W) : WithoutLane(sorted[p], W) = <<a[label[p]], b[label[p]]>>

LEMMA LanesSorted ==
    ASSUME NEW W \in Widths, NEW a \in [LanesOf(W) -> Int], NEW b \in [LanesOf(W) -> Nat],
           NEW sorted, sorted = SortUp(W, LaneWords(W, a, b)),
           NEW label, label = [p \in LanesOf(W) |-> LaneOf(sorted[p], W)]
    PROVE  Ranked(W, a, b, label) /\ KeysAtRanks(W, a, b, label, sorted)
<1> DEFINE L == LanesOf(W)
           v == LaneWords(W, a, b)
<1>1. \A u \in L : v[u] = <<a[u], W * b[u] + u>> /\ a[u] \in Int /\ b[u] \in Nat
  BY DEF LaneWords
<1>2. \A u \in L : v[u] \in Pairs /\ LaneOf(v[u], W) = u /\ WithoutLane(v[u], W) = <<a[u], b[u]>>
  <2> TAKE u \in L
  <2>1. v[u] = <<a[u], W * b[u] + u>> /\ a[u] \in Int /\ b[u] \in Nat
    BY <1>1
  <2> HIDE DEF v
  <2> QED BY <2>1, LaneWord
<1>3. v \in [L -> Pairs]
  <2>1. v = [u \in L |-> v[u]]
    BY DEF LaneWords
  <2> HIDE DEF v
  <2> QED BY <1>2, <2>1
<1>4. sorted = SortUp(W, v)
  OBVIOUS
<1> HIDE DEF v
<1>0. PICK f : SortedFrom(f, W, v, sorted)
  BY <1>3, <1>4, RegisterSorted
<1>5. /\ IsPermutation(f, L)
      /\ \A p \in L : sorted[p] = v[f[p]]
      /\ \A p, q \in L : p < q => ~Below(v[f[q]], v[f[p]])
  BY <1>0 DEF SortedFrom
<1>6. f \in [L -> L] /\ \A p, q \in L : f[p] = f[q] => p = q
  BY <1>5 DEF IsPermutation
<1>7. \A p \in L : label[p] = f[p]
  BY <1>2, <1>5, <1>6
<1>8. label = f
  <2>1. label = [p \in L |-> label[p]] /\ f = [p \in L |-> f[p]]
    BY <1>6
  <2>2. [p \in L |-> label[p]] = [p \in L |-> f[p]]
    BY <1>7
  <2> QED BY <2>1, <2>2
<1>9. \A p \in L : WithoutLane(sorted[p], W) = <<a[label[p]], b[label[p]]>>
  <2> TAKE p \in L
  <2>1. sorted[p] = v[f[p]] /\ f[p] \in L /\ label[p] = f[p]
    BY <1>5, <1>6, <1>7
  <2> QED BY <1>2, <2>1
<1>10. ASSUME NEW p \in L, NEW q \in L, p < q
       PROVE  \/ Below(<<a[label[p]], b[label[p]]>>, <<a[label[q]], b[label[q]]>>)
              \/ /\ a[label[p]] = a[label[q]] /\ b[label[p]] = b[label[q]]
                 /\ label[p] < label[q]
  <2> DEFINE x == label[p]
             y == label[q]
  <2>1. x \in L /\ y \in L /\ x # y
    <3>1. p # q
      BY <1>10 DEF LanesOf, Widths
    <3> QED BY <1>6, <1>8, <3>1
  <2>2. ~Below(v[y], v[x])
    BY <1>5, <1>8, <1>10
  <2> HIDE DEF x, y
  <2>3. ~Below(<<a[y], W * b[y] + y>>, <<a[x], W * b[x] + x>>)
    BY <1>1, <2>1, <2>2
  <2>4. a[x] \in Int /\ a[y] \in Int /\ b[x] \in Nat /\ b[y] \in Nat
    BY <1>1, <2>1
  <2>5. Below(<<a[x], b[x]>>, <<a[y], b[y]>>) \/ (a[x] = a[y] /\ b[x] = b[y] /\ x < y)
    BY <2>1, <2>3, <2>4, LaneWordsOrder
  <2> QED BY <2>5 DEF x, y
<1> QED BY <1>5, <1>8, <1>9, <1>10 DEF Ranked, KeysAtRanks

-----------------------------------------------------------------------------
\* Lanes m and up that follow all others, in their order, stay where they are.
LEMMA LastLanesStay ==
    ASSUME NEW W \in Nat \ {0}, NEW m \in 0 .. W, NEW f, IsPermutation(f, LanesOf(W)),
           \A p, q \in LanesOf(W) : p < q =>
              \/ f[p] < m
              \/ f[p] < f[q]
    PROVE  /\ \A p \in m .. W-1 : f[p] = p
           /\ \A p \in 0 .. m-1 : f[p] \in 0 .. m-1
<1> DEFINE L == LanesOf(W)
           d == W - m
           T == {i \in 0 .. d : \A p \in (W - i) .. W-1 : f[p] = p}
<1>0. d \in Nat /\ L = 0 .. W-1 /\ f \in [L -> L]
      /\ (\A p, q \in L : f[p] = f[q] => p = q) /\ (\A x \in L : \E p \in L : f[p] = x)
  <2>1. f \in [L -> L]
        /\ (\A p, q \in L : f[p] = f[q] => p = q) /\ (\A x \in L : \E p \in L : f[p] = x)
    BY DEF IsPermutation
  <2>2. d \in Nat /\ L = 0 .. W-1
    BY DEF LanesOf
  <2> QED BY <2>1, <2>2
<1>1. 0 \in T
  BY <1>0
<1>2. ASSUME NEW i \in 1 .. d, i-1 \in T PROVE i \in T
  <2>1. PICK j \in L : j = W - i /\ j >= m
    <3>1. W - i \in L /\ W - i >= m
      BY <1>0
    <3> QED BY <3>1
  <2>2. \A p \in j+1 .. W-1 : f[p] = p
    BY <1>2, <2>1
  <2>3. PICK q \in L : f[q] = j
    BY <1>0
  <2>4. ~(q > j)
    <3> SUFFICES ASSUME q > j PROVE FALSE
      OBVIOUS
    <3>1. q \in j+1 .. W-1
      BY <1>0, <2>1
    <3> QED BY <1>0, <2>2, <2>3, <3>1
  <2>5. ~(q < j)
    <3> SUFFICES ASSUME q < j PROVE FALSE
      OBVIOUS
    <3>1. f[q] < f[j]
      BY <1>0, <2>1, <2>3
    <3>2. f[j] \in j+1 .. W-1
      BY <1>0, <2>1, <2>3, <3>1
    <3>3. f[f[j]] = f[j]
      BY <2>2, <3>2
    <3>4. f[j] = j
      BY <1>0, <2>1, <3>2, <3>3
    <3> QED BY <1>0, <2>1, <3>2, <3>4
  <2>6. f[j] = j
    BY <1>0, <2>1, <2>3, <2>4, <2>5
  <2>7. \A p \in (W - i) .. W-1 : f[p] = p
    BY <1>0, <2>1, <2>2, <2>6
  <2> QED BY <2>7
<1>3. \A i \in 0 .. d : i \in T
  <2> HIDE DEF T, d
  <2> QED BY <1>0, <1>1, <1>2, UpTo
<1>4. \A p \in m .. W-1 : f[p] = p
  <2>1. d \in 0 .. d /\ W - d = m
    BY <1>0
  <2>2. d \in T
    BY <1>3, <2>1
  <2> QED BY <2>1, <2>2
<1>5. ASSUME NEW p \in 0 .. m-1 PROVE f[p] \in 0 .. m-1
  <2>1. p \in L /\ f[p] \in L
    BY <1>0
  <2>2. ~(f[p] >= m)
    <3> SUFFICES ASSUME f[p] >= m PROVE FALSE
      OBVIOUS
    <3>1. f[p] \in m .. W-1
      BY <1>0, <2>1
    <3>2. f[f[p]] = f[p]
      BY <1>4, <3>1
    <3>3. f[p] = p
      BY <1>0, <2>1, <3>2
    <3> QED BY <3>1, <3>3
  <2> QED BY <1>0, <2>1, <2>2
<1> QED BY <1>4, <1>5

\* ColorsByNode gives each lane the color of its rank.
LEMMA ColorsOfLanes ==
    ASSUME NEW W \in Widths, NEW label, IsPermutation(label, LanesOf(W)),
           NEW color \in [LanesOf(W) -> Int], NEW c, c = ColorsByNode(W, label, color)
    PROVE  /\ c \in [LanesOf(W) -> Int]
           /\ \A p \in LanesOf(W) : c[label[p]] = color[p]
<1> DEFINE L == LanesOf(W)
           v == [p \in L |-> <<label[p], color[p]>>]
           r == SortUp(W, v)
<1>0. /\ label \in [L -> L] /\ L = 0 .. W-1 /\ L \subseteq Int /\ W \in Nat \ {0}
      /\ \A p, q \in L : label[p] = label[q] => p = q
      /\ \A x \in L : \E p \in L : label[p] = x
  <2>1. W \in Nat \ {0} /\ L = 0 .. W-1
    BY DEF LanesOf, Widths
  <2>2. L \subseteq Int
    BY <2>1
  <2>3. /\ label \in [L -> L]
        /\ \A p, q \in L : label[p] = label[q] => p = q
        /\ \A x \in L : \E p \in L : label[p] = x
    BY DEF IsPermutation
  <2> QED BY <2>1, <2>2, <2>3
<1>1. c = [u \in L |-> r[u][2]]
  <2>1. DOMAIN label = L
    BY <1>0
  <2> QED BY <2>1 DEF ColorsByNode, SortUp
<1>2. \A p \in L : v[p] = <<label[p], color[p]>> /\ v[p][1] = label[p] /\ v[p][2] = color[p]
      /\ v[p] \in Pairs
  BY <1>0 DEF Pairs
<1>3. v \in [L -> Pairs]
  BY <1>2
<1> HIDE DEF v
<1>12. PICK f : SortedFrom(f, W, v, r)
  BY <1>3, RegisterSorted
<1>4. /\ IsPermutation(f, L)
      /\ \A p \in L : r[p] = v[f[p]]
      /\ \A p, q \in L : p < q => ~Below(v[f[q]], v[f[p]])
  BY <1>12 DEF SortedFrom
<1>5. f \in [L -> L] /\ (\A p, q \in L : f[p] = f[q] => p = q)
      /\ \A x \in L : \E p \in L : f[p] = x
  BY <1>4 DEF IsPermutation
<1> HIDE DEF L, r
<1> DEFINE h == [p \in L |-> label[f[p]]]
<1>6. h \in [L -> L] /\ \A p \in L : h[p] = label[f[p]]
  BY <1>0, <1>5
<1> HIDE DEF h
<1>7. IsPermutation(h, L)
  <2>1. ASSUME NEW p \in L, NEW q \in L, h[p] = h[q] PROVE p = q
    <3>1. f[p] \in L /\ f[q] \in L /\ label[f[p]] = label[f[q]]
      BY <1>5, <1>6, <2>1
    <3>2. f[p] = f[q]
      <4>1. \A x, y \in L : label[x] = label[y] => x = y
        BY <1>0
      <4> QED BY <3>1, <4>1
    <3>3. \A x, y \in L : f[x] = f[y] => x = y
      BY <1>5
    <3> QED BY <3>2, <3>3
  <2>2. ASSUME NEW x \in L PROVE \E p \in L : h[p] = x
    <3>1. PICK y \in L : label[y] = x
      BY <1>0
    <3>2. PICK p \in L : f[p] = y
      BY <1>5
    <3> QED BY <1>6, <3>1, <3>2
  <2> QED BY <1>6, <2>1, <2>2 DEF IsPermutation
<1>8. \A p, q \in L : p < q => h[p] < h[q]
  <2> TAKE p, q \in L
  <2> HAVE p < q
  <2>1. ~Below(v[f[q]], v[f[p]])
    BY <1>4
  <2>2. v[f[q]][1] = h[q] /\ v[f[p]][1] = h[p]
    BY <1>2, <1>5, <1>6
  <2>3. h[p] \in Int /\ h[q] \in Int /\ p # q
    <3>1. h[p] \in L /\ h[q] \in L
      BY <1>6
    <3>2. L \subseteq Int
      BY <1>0
    <3>3. p \in Int /\ q \in Int
      BY <3>2
    <3>4. h[p] \in Int /\ h[q] \in Int
      BY <3>1, <3>2
    <3>5. p # q
      BY <3>3
    <3> QED BY <3>4, <3>5
  <2>4. h[p] # h[q]
    BY <1>7, <2>3 DEF IsPermutation
  <2> QED BY <2>1, <2>2, <2>3, <2>4 DEF Below
<1>9. \A p \in L : h[p] = p
  <2>1. 0 \in 0 .. W
    BY <1>0
  <2>2. \A p \in 0 .. W-1 : h[p] = p
    BY <1>0, <1>7, <1>8, <2>1, LastLanesStay DEF L
  <2> QED BY <1>0, <2>2
<1>10. c \in [L -> Int]
  <2>1. ASSUME NEW u \in L PROVE r[u][2] \in Int
    <3>1. f[u] \in L /\ r[u] = v[f[u]]
      BY <1>4, <1>5
    <3>2. r[u][2] = color[f[u]]
      BY <1>2, <3>1
    <3> QED BY <3>1, <3>2 DEF L
  <2> QED BY <1>1, <2>1
<1>11. ASSUME NEW p \in L PROVE c[label[p]] = color[p]
  <2>1. PICK u \in L : f[u] = p
    BY <1>5
  <2>2. label[p] = u
    BY <1>6, <1>9, <2>1
  <2>3. r[u] = v[p]
    BY <1>4, <2>1
  <2> QED BY <1>1, <1>2, <2>2, <2>3
<1> QED BY <1>10, <1>11 DEF L

-----------------------------------------------------------------------------
(***************************************************************************)
(* Colors by rank: the last class start up to the rank, by table or by a   *)
(* prefix maximum.                                                         *)
(***************************************************************************)
RankColors(W, starts, r) ==
    /\ r \in [LanesOf(W) -> Int]
    /\ \A p \in LanesOf(W) : /\ r[p] \in 0 .. p
                             /\ r[p] = 0 \/ r[p] \in starts
                             /\ \A q \in starts : q <= p => q <= r[p]

LEMMA Mask8Colors ==
    ASSUME NEW starts, starts \subseteq 1 .. 7
    PROVE  RankColors(8, starts, ColorsFromMask8(starts))
<1> DEFINE r == ColorsFromMask8(starts)
           D(p) == {0} \cup {q \in starts : q <= p}
<1>1. LanesOf(8) = 0 .. 7
  BY DEF LanesOf
<1>2. r = [p \in 0 .. 7 |-> Max(D(p))]
  BY DEF ColorsFromMask8
<1>3. ASSUME NEW p \in 0 .. 7
      PROVE  Max(D(p)) \in D(p) /\ \A q \in D(p) : q <= Max(D(p))
  <2>1. \A q \in D(p) : q \in 0 .. 7
    OBVIOUS
  <2>2. 0 \in D(p)
    OBVIOUS
  <2> HIDE DEF D
  <2>3. D(p) \subseteq 0 .. 7 /\ D(p) # {}
    BY <2>1, <2>2
  <2> QED BY <2>3, MaxFound
<1> HIDE DEF r
<1>4. ASSUME NEW p \in 0 .. 7
      PROVE  /\ r[p] \in 0 .. p
             /\ r[p] = 0 \/ r[p] \in starts
             /\ \A q \in starts : q <= p => q <= r[p]
  <2>1. r[p] = Max(D(p))
    BY <1>2
  <2>2. r[p] \in D(p) /\ \A q \in D(p) : q <= r[p]
    <3> HIDE DEF D
    <3> QED BY <1>3, <2>1
  <2>3. \A q \in D(p) : q \in 0 .. p /\ (q = 0 \/ q \in starts)
    OBVIOUS
  <2>4. \A q \in starts : q <= p => q \in D(p)
    OBVIOUS
  <2> HIDE DEF D
  <2> QED BY <2>2, <2>3, <2>4
<1>5. r \in [0 .. 7 -> Int]
  <2>1. \A p \in 0 .. 7 : r[p] \in Int
    BY <1>4
  <2> QED BY <1>2, <2>1
<1> QED BY <1>1, <1>4, <1>5 DEF RankColors, r

\* Each lane holds the maximum of itself and the k-1 lanes to the left.
WindowMax(v, r, k) ==
    /\ r \in [0 .. 15 -> 0 .. 15]
    /\ \A p \in 0 .. 15 :
          /\ \E i \in 0 .. p : r[p] = v[i]
          /\ \A i \in 0 .. p : p - k < i => v[i] <= r[p]

LEMMA PrefixDoubles ==
    ASSUME NEW v \in [0 .. 15 -> 0 .. 15], NEW r, NEW k \in 1 .. 16, WindowMax(v, r, k),
           NEW x, x = PrefixStep(r, k), NEW d, d = k + k
    PROVE  WindowMax(v, x, d)
<1>1. /\ r \in [0 .. 15 -> 0 .. 15]
      /\ \A p \in 0 .. 15 : /\ \E i \in 0 .. p : r[p] = v[i]
                            /\ \A i \in 0 .. p : p - k < i => v[i] <= r[p]
  BY DEF WindowMax
<1>2. x = [p \in 0 .. 15 |-> IF p >= k THEN Max({r[p], r[p-k]}) ELSE r[p]]
  <2>1. DOMAIN r = 0 .. 15
    BY <1>1
  <2> QED BY <2>1 DEF PrefixStep
<1>3. ASSUME NEW p \in 0 .. 15, p >= k
      PROVE  /\ x[p] \in {r[p], r[p-k]} /\ r[p] <= x[p] /\ r[p-k] <= x[p]
             /\ r[p] \in 0 .. 15 /\ r[p-k] \in 0 .. 15 /\ p-k \in 0 .. p /\ p-k \in 0 .. 15
  <2> DEFINE D == {r[p], r[p-k]}
  <2>1. p-k \in 0 .. p /\ p-k \in 0 .. 15
    BY <1>3
  <2>2. r[p] \in 0 .. 15 /\ r[p-k] \in 0 .. 15
    BY <1>1, <2>1
  <2>3. D \subseteq 0 .. 15 /\ D # {} /\ r[p] \in D /\ r[p-k] \in D
    BY <2>2
  <2>4. x[p] = Max(D)
    BY <1>2, <1>3
  <2> HIDE DEF D
  <2>5. x[p] \in D /\ \A j \in D : j <= x[p]
    BY <2>3, <2>4, MaxFound
  <2> QED BY <2>1, <2>2, <2>3, <2>5 DEF D
<1>4. ASSUME NEW p \in 0 .. 15, ~(p >= k) PROVE x[p] = r[p]
  BY <1>2, <1>4
<1>5. ASSUME NEW p \in 0 .. 15
      PROVE  /\ x[p] \in 0 .. 15
             /\ \E i \in 0 .. p : x[p] = v[i]
             /\ \A i \in 0 .. p : p - d < i => v[i] <= x[p]
  <2>1. CASE p >= k
    <3>1. /\ x[p] \in {r[p], r[p-k]} /\ r[p] <= x[p] /\ r[p-k] <= x[p]
          /\ r[p] \in 0 .. 15 /\ r[p-k] \in 0 .. 15 /\ p-k \in 0 .. p /\ p-k \in 0 .. 15
      BY <1>3, <2>1
    <3>2. \E i \in 0 .. p : x[p] = v[i]
      <4>1. PICK i \in 0 .. p : r[p] = v[i]
        BY <1>1
      <4>2. PICK j \in 0 .. p-k : r[p-k] = v[j]
        BY <1>1, <3>1
      <4>3. j \in 0 .. p
        BY <3>1
      <4> QED BY <3>1, <4>1, <4>2, <4>3
    <3>3. ASSUME NEW i \in 0 .. p, p - d < i PROVE v[i] <= x[p]
      <4>0. v[i] \in 0 .. 15
        OBVIOUS
      <4>1. CASE p - k < i
        <5>1. v[i] <= r[p]
          BY <1>1, <4>1
        <5> QED BY <3>1, <4>0, <5>1
      <4>2. CASE ~(p - k < i)
        <5> DEFINE m == p-k
        <5>1. m \in 0 .. 15 /\ i \in 0 .. m /\ m - k < i
          BY <3>1, <3>3, <4>2
        <5>2. v[i] <= r[m]
          BY <1>1, <5>1
        <5> QED BY <3>1, <4>0, <5>2
      <4> QED BY <4>1, <4>2
    <3> QED BY <3>1, <3>2, <3>3
  <2>2. CASE ~(p >= k)
    <3>1. x[p] = r[p]
      BY <1>4, <2>2
    <3>2. \A i \in 0 .. p : p - k < i
      BY <2>2
    <3> QED BY <1>1, <3>1, <3>2
  <2> QED BY <2>1, <2>2
<1>6. x \in [0 .. 15 -> 0 .. 15]
  BY <1>2, <1>5
<1> QED BY <1>5, <1>6 DEF WindowMax

LEMMA Mask16Colors ==
    ASSUME NEW starts, starts \subseteq 1 .. 15
    PROVE  RankColors(16, starts, ColorsFromMask16(starts))
<1> DEFINE v == [p \in 0 .. 15 |-> IF p \in starts THEN p ELSE 0]
           r1 == PrefixStep(v, 1)
           r2 == PrefixStep(r1, 2)
           r3 == PrefixStep(r2, 4)
           r4 == PrefixStep(r3, 8)
<1>1. v \in [0 .. 15 -> 0 .. 15] /\ \A p \in 0 .. 15 : v[p] = IF p \in starts THEN p ELSE 0
  OBVIOUS
<1>2. ColorsFromMask16(starts) = r4
  BY DEF ColorsFromMask16, InclPrefixMax
<1> HIDE DEF v
<1>3. WindowMax(v, v, 1)
  <2>1. \A p \in 0 .. 15 : /\ \E i \in 0 .. p : v[p] = v[i]
                           /\ \A i \in 0 .. p : p - 1 < i => v[i] <= v[p]
    <3> TAKE p \in 0 .. 15
    <3>1. p \in 0 .. p /\ v[p] \in 0 .. 15
      BY <1>1
    <3>2. \A i \in 0 .. p : p - 1 < i => i = p
      OBVIOUS
    <3> QED BY <3>1, <3>2
  <2> QED BY <1>1, <2>1 DEF WindowMax
<1>4. WindowMax(v, r1, 2)
  BY <1>1, <1>3, PrefixDoubles
<1> HIDE DEF r1
<1>5. WindowMax(v, r2, 4)
  BY <1>1, <1>4, PrefixDoubles
<1> HIDE DEF r2
<1>6. WindowMax(v, r3, 8)
  BY <1>1, <1>5, PrefixDoubles
<1> HIDE DEF r3
<1>7. WindowMax(v, r4, 16)
  BY <1>1, <1>6, PrefixDoubles
<1> HIDE DEF r4
<1>8. r4 \in [0 .. 15 -> 0 .. 15]
      /\ \A p \in 0 .. 15 : /\ \E i \in 0 .. p : r4[p] = v[i]
                            /\ \A i \in 0 .. p : v[i] <= r4[p]
  <2>1. \A p \in 0 .. 15 : \A i \in 0 .. p : p - 16 < i
    OBVIOUS
  <2> QED BY <1>7, <2>1 DEF WindowMax
<1>9. ASSUME NEW p \in 0 .. 15
      PROVE  /\ r4[p] \in 0 .. p
             /\ r4[p] = 0 \/ r4[p] \in starts
             /\ \A q \in starts : q <= p => q <= r4[p]
  <2>1. PICK i \in 0 .. p : r4[p] = v[i]
    BY <1>8
  <2>2. i \in 0 .. 15 /\ v[i] = IF i \in starts THEN i ELSE 0
    BY <1>1
  <2>3. ASSUME NEW q \in starts, q <= p PROVE q <= r4[p]
    <3>1. q \in 0 .. 15 /\ q \in 0 .. p
      BY <2>3
    <3>2. v[q] = q
      BY <1>1, <3>1
    <3> QED BY <1>8, <3>1, <3>2
  <2> QED BY <2>1, <2>2, <2>3
<1>10. LanesOf(16) = 0 .. 15
  BY DEF LanesOf
<1>11. r4 \in [0 .. 15 -> Int]
  BY <1>8
<1> QED BY <1>2, <1>9, <1>10, <1>11 DEF RankColors

-----------------------------------------------------------------------------
(***************************************************************************)
(* One round, whatever the keys: the nodes come first, sorted by key, and  *)
(* the disabled lanes stay behind them.                                    *)
(***************************************************************************)
Fits(W) == W \in Widths /\ N <= W

\* Keys a[u], b[u] of the lanes: those of disabled lanes are equal and above.
LaneKeys(W, a, b) ==
    /\ a \in [LanesOf(W) -> Int]
    /\ b \in [LanesOf(W) -> Nat]
    /\ \A u \in Nodes, v \in N .. W-1 : a[u] < a[v]
    /\ \A u, v \in N .. W-1 : a[u] = a[v] /\ b[u] = b[v]

NodeKeys(a, b) == [u \in Nodes |-> <<a[u], b[u]>>]

NodeRanks(label) == [i \in 1 .. N |-> label[i-1]]

NodesFirst(W, label) ==
    /\ IsPermutation(label, LanesOf(W))
    /\ \A p \in N .. W-1 : label[p] = p
    /\ \A p \in Positions : label[p] \in Nodes

LEMMA DisabledBehind ==
    ASSUME NEW W, Fits(W), NEW a, NEW b, LaneKeys(W, a, b), NEW label, Ranked(W, a, b, label)
    PROVE  NodesFirst(W, label)
<1> DEFINE L == LanesOf(W)
<1>0. W \in Nat \ {0} /\ N \in 0 .. W /\ L = 0 .. W-1 /\ Nodes = 0 .. N-1 /\ Positions = 0 .. N-1
  BY NAssumption DEF Fits, Widths, LanesOf, Nodes, Positions
<1>1. IsPermutation(label, L)
  BY DEF Ranked
<1>2. label \in [L -> L]
  BY <1>1 DEF IsPermutation
<1>3. ASSUME NEW p \in L, NEW q \in L, p < q PROVE label[p] < N \/ label[p] < label[q]
  <2> DEFINE x == label[p]
             y == label[q]
  <2>1. x \in L /\ y \in L
    BY <1>2
  <2>2. \/ Below(<<a[x], b[x]>>, <<a[y], b[y]>>)
        \/ x < y
    BY <1>3 DEF Ranked
  <2> HIDE DEF x, y
  <2> SUFFICES ASSUME ~(x < N), Below(<<a[x], b[x]>>, <<a[y], b[y]>>) PROVE x < y
    BY <2>2 DEF x, y
  <2>3. a[x] \in Int /\ a[y] \in Int /\ b[x] \in Nat /\ b[y] \in Nat
    BY <2>1 DEF LaneKeys
  <2>4. a[x] < a[y] \/ (a[x] = a[y] /\ b[x] < b[y])
    BY <2>3 DEF Below
  <2>5. x \in N .. W-1
    BY <1>0, <2>1
  <2>6. CASE y \in N .. W-1
    <3>1. a[x] = a[y] /\ b[x] = b[y]
      BY <2>5, <2>6 DEF LaneKeys
    <3> QED BY <2>3, <2>4, <3>1
  <2>7. CASE y \in Nodes
    <3>1. a[y] < a[x]
      BY <2>5, <2>7 DEF LaneKeys
    <3> QED BY <2>3, <2>4, <3>1
  <2> QED BY <1>0, <2>1, <2>6, <2>7
<1>4. /\ \A p \in N .. W-1 : label[p] = p
      /\ \A p \in 0 .. N-1 : label[p] \in 0 .. N-1
  <2> HIDE DEF L
  <2>1. \A p, q \in LanesOf(W) : p < q => label[p] < N \/ label[p] < label[q]
    BY <1>3 DEF L
  <2> QED BY <1>0, <1>1, <2>1, LastLanesStay DEF L
<1> QED BY <1>0, <1>1, <1>4 DEF NodesFirst

LEMMA NodesEnumerated ==
    ASSUME NEW W, Fits(W), NEW label, NodesFirst(W, label)
    PROVE  /\ EachOnce(NodeRanks(label))
           /\ \A i \in 1 .. N : NodeRanks(label)[i] = label[i-1] /\ label[i-1] \in Nodes
<1> DEFINE L == LanesOf(W)
           t == NodeRanks(label)
<1>0. W \in Nat \ {0} /\ N \in Nat \ {0} /\ N <= W /\ L = 0 .. W-1 /\ Nodes = 0 .. N-1
      /\ Positions = 0 .. N-1
  BY NAssumption DEF Fits, Widths, LanesOf, Nodes, Positions
<1>1. /\ \A p, q \in L : label[p] = label[q] => p = q
      /\ \A x \in L : \E p \in L : label[p] = x
  BY DEF NodesFirst, IsPermutation
<1>2. /\ \A p \in N .. W-1 : label[p] = p
      /\ \A p \in Positions : label[p] \in Nodes
  BY DEF NodesFirst
<1>3. \A i \in 1 .. N : i-1 \in Positions /\ i-1 \in L /\ t[i] = label[i-1]
  BY <1>0 DEF NodeRanks
<1>4. t \in [1 .. N -> Nodes]
  BY <1>2, <1>3 DEF NodeRanks
<1>5. ASSUME NEW i \in 1 .. N, NEW j \in 1 .. N, t[i] = t[j] PROVE i = j
  <2>1. i-1 = j-1
    BY <1>1, <1>3, <1>5
  <2> QED BY <1>0, <2>1
<1>6. ASSUME NEW u \in Nodes PROVE \E i \in 1 .. N : t[i] = u
  <2>0. u \in L
    BY <1>0
  <2>1. PICK p \in L : label[p] = u
    <3> HIDE DEF L
    <3> QED BY <1>1, <2>0
  <2>2. p < N
    <3> SUFFICES ASSUME ~(p < N) PROVE FALSE
      OBVIOUS
    <3>1. p \in N .. W-1
      BY <1>0
    <3> QED BY <1>0, <1>2, <2>1, <3>1
  <2>3. p+1 \in 1 .. N /\ (p+1)-1 = p
    BY <1>0, <2>2
  <2>4. t[p+1] = label[p]
    BY <1>3, <2>3
  <2> QED BY <2>1, <2>3, <2>4
<1>7. EachOnce(t)
  BY <1>4, <1>5, <1>6 DEF EachOnce
<1> QED BY <1>2, <1>3, <1>7

LEMMA KeysOrder ==
    ASSUME NEW key \in [Nodes -> Pairs]
    PROVE  Orders(HashLess(key), key)
<1> DEFINE less == HashLess(key)
<1>1. \A u, v \in Nodes : <<u, v>> \in less <=> Below(key[u], key[v])
  BY DEF HashLess
<1> HIDE DEF less
<1>2. \A u \in Nodes : key[u] \in Pairs
  OBVIOUS
<1>3. \A u, v \in Nodes : <<u, v>> \in less => <<v, u>> \notin less
  BY <1>1, <1>2, BelowIsOrder
<1>4. \A u, v, w \in Nodes : <<u, v>> \in less /\ <<v, w>> \in less => <<u, w>> \in less
  BY <1>1, <1>2, BelowTransitive
<1>5. ASSUME NEW u \in Nodes, NEW v \in Nodes
      PROVE  (<<u, v>> \notin less /\ <<v, u>> \notin less) <=> key[u] = key[v]
  <2>1. <<u, v>> \notin less /\ <<v, u>> \notin less => key[u] = key[v]
    BY <1>1, <1>2, BelowIsOrder
  <2>2. key[u] = key[v] => <<u, v>> \notin less /\ <<v, u>> \notin less
    BY <1>1, <1>2, BelowIsOrder
  <2> QED BY <2>1, <2>2
<1>6. \A u, v, w \in Nodes : key[v] = key[w] =>
         /\ <<u, v>> \in less <=> <<u, w>> \in less
         /\ <<v, u>> \in less <=> <<w, u>> \in less
  BY <1>1
<1>7. Orders(less, key)
  BY <1>3, <1>4, <1>5, <1>6 DEF Orders
<1> QED BY <1>7 DEF less

LEMMA NodesSorted ==
    ASSUME NEW W, Fits(W), NEW a, NEW b, LaneKeys(W, a, b), NEW label, Ranked(W, a, b, label)
    PROVE  /\ NodeKeys(a, b) \in [Nodes -> Pairs]
           /\ SortedNodes(HashLess(NodeKeys(a, b)), NodeRanks(label), N)
<1> DEFINE L == LanesOf(W)
           t == NodeRanks(label)
           key == NodeKeys(a, b)
<1>0. W \in Nat \ {0} /\ N \in Nat \ {0} /\ N <= W /\ L = 0 .. W-1 /\ Nodes = 0 .. N-1
  BY NAssumption DEF Fits, Widths, LanesOf, Nodes
<1>1. NodesFirst(W, label)
  BY DisabledBehind
<1>2. EachOnce(t) /\ \A i \in 1 .. N : t[i] = label[i-1] /\ label[i-1] \in Nodes
  BY <1>1, NodesEnumerated
<1>3. \A u \in Nodes : key[u] = <<a[u], b[u]>> /\ key[u] \in Pairs
  <2> TAKE u \in Nodes
  <2>1. u \in L
    BY <1>0
  <2>2. a[u] \in Int /\ b[u] \in Nat
    BY <2>1 DEF LaneKeys
  <2> QED BY <2>2 DEF NodeKeys, Pairs
<1>4. key \in [Nodes -> Pairs]
  BY <1>3 DEF NodeKeys
<1>5. ASSUME NEW i \in 1 .. N, NEW j \in 1 .. N, i < j PROVE <<t[j], t[i]>> \notin HashLess(key)
  <2> DEFINE p == i-1
             q == j-1
  <2>1. p \in L /\ q \in L /\ p < q
    BY <1>0, <1>5
  <2>2. t[i] = label[p] /\ t[j] = label[q] /\ label[p] \in Nodes /\ label[q] \in Nodes
    BY <1>2
  <2> HIDE DEF p, q, t, key
  <2>3. \/ Below(<<a[label[p]], b[label[p]]>>, <<a[label[q]], b[label[q]]>>)
        \/ a[label[p]] = a[label[q]] /\ b[label[p]] = b[label[q]]
    BY <2>1 DEF Ranked
  <2>4. Below(key[t[i]], key[t[j]]) \/ key[t[i]] = key[t[j]]
    BY <1>3, <2>2, <2>3
  <2>5. ~Below(key[t[j]], key[t[i]])
    <3>1. key[t[i]] \in Pairs /\ key[t[j]] \in Pairs
      BY <1>3, <2>2
    <3> QED BY <2>4, <3>1, BelowIsOrder
  <2> QED BY <2>5 DEF HashLess
<1>6. SortedNodes(HashLess(key), t, N)
  <2> HIDE DEF t, key
  <2>1. t \in [1 .. N -> 0 .. N-1] /\ (\A i, j \in 1 .. N : t[i] = t[j] => i = j)
        /\ \A u \in 0 .. N-1 : \E i \in 1 .. N : t[i] = u
    BY <1>0, <1>2 DEF EachOnce
  <2> QED BY <1>5, <2>1 DEF SortedNodes
<1> QED BY <1>4, <1>6

-----------------------------------------------------------------------------
(***************************************************************************)
(* The ranks at which classes start, and the colors they give.             *)
(***************************************************************************)
StartsAt(W, key, t, starts) ==
    /\ starts \subseteq 1 .. W-1
    /\ \A p \in 1 .. W-1 : p \in starts <=> (p < N /\ key[t[p+1]] # key[t[p]]) \/ p = N

LEMMA ClassesStart ==
    ASSUME NEW W, Fits(W), NEW a, NEW b, LaneKeys(W, a, b), NEW label, Ranked(W, a, b, label),
           NEW sorted, KeysAtRanks(W, a, b, label, sorted)
    PROVE  StartsAt(W, NodeKeys(a, b), NodeRanks(label), NewClasses(sorted, W))
<1> DEFINE L == LanesOf(W)
           t == NodeRanks(label)
           key == NodeKeys(a, b)
           starts == NewClasses(sorted, W)
           At(p) == <<a[label[p]], b[label[p]]>>
<1>0. W \in Nat \ {0} /\ N \in Nat \ {0} /\ N <= W /\ L = 0 .. W-1 /\ Nodes = 0 .. N-1
  BY NAssumption DEF Fits, Widths, LanesOf, Nodes
<1>1. NodesFirst(W, label)
  BY DisabledBehind
<1>2. \A i \in 1 .. N : t[i] = label[i-1] /\ label[i-1] \in Nodes
  BY <1>1, NodesEnumerated
<1>3. \A p \in 1 .. W-1 : p \in starts <=> p <= N /\ At(p) # At(p-1)
  <2> TAKE p \in 1 .. W-1
  <2>1. p \in L /\ p-1 \in L
    BY <1>0
  <2>2. WithoutLane(sorted[p], W) = At(p) /\ WithoutLane(sorted[p-1], W) = At(p-1)
    BY <2>1 DEF KeysAtRanks
  <2> QED BY <2>2 DEF NewClasses, EnabledRanks
<1>4. starts \subseteq 1 .. W-1
  BY DEF NewClasses, EnabledRanks
<1>5. ASSUME NEW p \in 0 .. N-1 PROVE At(p) = key[t[p+1]]
  <2>1. p+1 \in 1 .. N /\ (p+1)-1 = p
    BY <1>0
  <2>2. t[p+1] = label[p] /\ label[p] \in Nodes
    BY <1>2, <2>1
  <2> QED BY <2>2 DEF NodeKeys
<1>6. ASSUME NEW p \in 1 .. W-1, p < N PROVE p \in starts <=> key[t[p+1]] # key[t[p]]
  <2>1. p \in 0 .. N-1 /\ p-1 \in 0 .. N-1 /\ (p-1)+1 = p
    BY <1>0, <1>6
  <2>2. At(p) = key[t[p+1]] /\ At(p-1) = key[t[p]]
    BY <1>5, <2>1
  <2>3. p <= N
    BY <1>0, <1>6
  <2> HIDE DEF At, key, t, starts
  <2> QED BY <1>3, <2>2, <2>3
<1>7. ASSUME NEW p \in 1 .. W-1, p = N PROVE p \in starts
  <2>1. N \in N .. W-1 /\ N-1 \in Positions /\ N <= N
    BY <1>0, <1>7 DEF Positions
  <2>2. label[N] = N /\ label[N-1] \in Nodes
    BY <1>1, <2>1 DEF NodesFirst
  <2>3. a[label[N-1]] < a[N]
    BY <2>1, <2>2 DEF LaneKeys
  <2>4. a[label[N-1]] \in Int /\ a[N] \in Int
    <3>1. label[N-1] \in L /\ N \in L
      BY <1>0, <2>1, <2>2
    <3> QED BY <3>1 DEF LaneKeys
  <2>5. a[label[N-1]] # a[label[N]]
    BY <2>2, <2>3, <2>4
  <2>6. At(N) # At(N-1)
    BY <2>5
  <2> HIDE DEF At, starts
  <2> QED BY <1>3, <1>7, <2>1, <2>6
<1>8. ASSUME NEW p \in 1 .. W-1, p > N PROVE p \notin starts
  <2>1. ~(p <= N)
    BY <1>0, <1>8
  <2> QED BY <1>3, <2>1
<1> HIDE DEF starts, key, t, At
<1>9. \A p \in 1 .. W-1 : p \in starts <=> (p < N /\ key[t[p+1]] # key[t[p]]) \/ p = N
  <2> TAKE p \in 1 .. W-1
  <2>1. p < N \/ p = N \/ p > N
    BY <1>0
  <2>2. p < N => ~(p = N)
    BY <1>0
  <2>3. p > N => ~(p < N) /\ ~(p = N)
    BY <1>0
  <2> QED BY <1>6, <1>7, <1>8, <2>1, <2>2, <2>3
<1>10. StartsAt(W, key, t, starts)
  BY <1>4, <1>9 DEF StartsAt
<1> QED BY <1>10 DEF starts, key, t

FromRanks(r) == [i \in 1 .. N |-> r[i-1]]

\* A class is numbered by the position it starts at.
ByStarts(key, t, c) == Numbering(key, t, c) /\ \A i \in 2 .. N : c[i] \in {c[i-1], i-1}

LEMMA RanksNumber ==
    ASSUME NEW W, Fits(W), NEW key, NEW t, NEW starts, StartsAt(W, key, t, starts),
           NEW r, RankColors(W, starts, r)
    PROVE  /\ ByStarts(key, t, FromRanks(r))
           /\ \A p \in N .. W-1 : r[p] = N
<1> DEFINE c == FromRanks(r)
<1>0. W \in Nat \ {0} /\ N \in Nat \ {0} /\ N <= W /\ LanesOf(W) = 0 .. W-1 /\ Nodes = 0 .. N-1
  BY NAssumption DEF Fits, Widths, LanesOf, Nodes
<1>1. \A p \in 0 .. W-1 : /\ r[p] \in 0 .. p
                          /\ r[p] = 0 \/ r[p] \in starts
                          /\ \A q \in starts : q <= p => q <= r[p]
  BY <1>0 DEF RankColors
<1>2. /\ starts \subseteq 1 .. W-1
      /\ \A p \in 1 .. W-1 : p \in starts <=> (p < N /\ key[t[p+1]] # key[t[p]]) \/ p = N
  BY DEF StartsAt
<1>3. \A i \in 1 .. N : c[i] = r[i-1] /\ i-1 \in 0 .. W-1
  BY <1>0 DEF FromRanks
<1>4. c \in [1 .. N -> Nodes]
  <2>1. \A i \in 1 .. N : c[i] \in Nodes
    <3> TAKE i \in 1 .. N
    <3>1. c[i] \in 0 .. i-1
      BY <1>1, <1>3
    <3> QED BY <1>0, <3>1
  <2> QED BY <2>1 DEF FromRanks
<1> HIDE DEF c
<1>5. c[1] = 0
  <2>1. 1 \in 1 .. N /\ 1-1 = 0
    BY <1>0
  <2>2. c[1] = r[0] /\ 0 \in 0 .. W-1
    BY <1>3, <2>1
  <2> QED BY <1>1, <2>2
<1>6. ASSUME NEW i \in 2 .. N
      PROVE  /\ IF key[t[i]] = key[t[i-1]] THEN c[i] = c[i-1] ELSE c[i] > c[i-1]
             /\ c[i] \in {c[i-1], i-1}
  <2> DEFINE p == i-1
             o == i-2
  <2>1. /\ p \in 1 .. W-1 /\ p < N /\ p \in 0 .. W-1 /\ o \in 0 .. W-1 /\ p+1 = i /\ o = p-1
        /\ i \in 1 .. N /\ i-1 \in 1 .. N /\ (i-1)-1 = o
    BY <1>0
  <2>2. c[i] = r[p] /\ c[i-1] = r[o]
    <3>1. c[i] = r[i-1] /\ c[i-1] = r[(i-1)-1]
      BY <1>3, <2>1
    <3> QED BY <2>1, <3>1
  <2>3. p \in starts <=> key[t[i]] # key[t[i-1]]
    <3>1. p \in starts <=> (p < N /\ key[t[p+1]] # key[t[p]]) \/ p = N
      BY <1>2, <2>1
    <3>2. ~(p = N)
      BY <1>0, <2>1
    <3> QED BY <2>1, <3>1, <3>2
  <2>4. r[p] \in 0 .. p /\ r[o] \in 0 .. o
        /\ (r[p] = 0 \/ r[p] \in starts) /\ (r[o] = 0 \/ r[o] \in starts)
    BY <1>1, <2>1
  <2>5. CASE p \in starts
    <3>1. p <= r[p]
      <4>1. p <= p
        BY <2>1
      <4> QED BY <1>1, <2>1, <2>5, <4>1
    <3>2. r[p] = p /\ r[o] < p
      BY <2>1, <2>4, <3>1
    <3> QED BY <2>1, <2>2, <2>3, <2>4, <2>5, <3>2
  <2>6. CASE p \notin starts
    <3>1. r[p] # p
      BY <2>1, <2>4, <2>6
    <3>2. r[p] <= o
      BY <2>1, <2>4, <3>1
    <3>3. r[p] <= r[o]
      BY <1>1, <2>1, <2>4, <3>2
    <3>4. r[o] <= r[p]
      <4>1. r[o] \in starts => r[o] <= r[p]
        <5>1. r[o] <= p
          BY <2>1, <2>4
        <5> QED BY <1>1, <2>1, <5>1
      <4> QED BY <2>1, <2>4, <4>1
    <3>5. r[p] = r[o]
      BY <2>1, <2>4, <3>3, <3>4
    <3> QED BY <2>2, <2>3, <2>6, <3>5
  <2> QED BY <2>5, <2>6
<1>7. ASSUME NEW p \in N .. W-1 PROVE r[p] = N
  <2>1. p \in 0 .. W-1 /\ N \in 1 .. W-1 /\ N <= p
    BY <1>0
  <2>2. N \in starts
    BY <1>2, <2>1
  <2>3. N <= r[p] /\ r[p] \in 0 .. p /\ (r[p] = 0 \/ r[p] \in starts)
    BY <1>1, <2>1, <2>2
  <2>4. \A q \in starts : q <= N
    <3> TAKE q \in starts
    <3>1. q \in 1 .. W-1
      BY <1>2
    <3>2. q < N \/ q = N
      BY <1>2, <3>1
    <3> QED BY <1>0, <3>1, <3>2
  <2> QED BY <1>0, <2>3, <2>4
<1> QED BY <1>4, <1>5, <1>6, <1>7 DEF Numbering, ByStarts, c

(***************************************************************************)
(* Nodes sorted by their keys and colored by class starts.                 *)
(***************************************************************************)
NodeColoring(color, label) ==
    [color |-> [u \in Nodes |-> color[u]], label |-> [p \in Positions |-> label[p]]]

LEMMA ColoredByStarts ==
    ASSUME NEW W, Fits(W), NEW label, NodesFirst(W, label),
           NEW less, NEW key, Orders(less, key), SortedNodes(less, NodeRanks(label), N),
           NEW c, ByStarts(key, NodeRanks(label), c),
           NEW color, \A i \in 1 .. N : color[label[i-1]] = c[i]
    PROVE  /\ WellFormed(NodeColoring(color, label))
           /\ \A u, v \in Nodes : /\ key[u] = key[v] <=> color[u] = color[v]
                                  /\ <<u, v>> \in less => color[u] < color[v]
<1> DEFINE t == NodeRanks(label)
           m == NodeColoring(color, label)
<1>0. N \in Nat \ {0} /\ Nodes = 0 .. N-1 /\ Positions = 0 .. N-1
  BY NAssumption DEF Nodes, Positions
<1>1. EachOnce(t) /\ \A i \in 1 .. N : t[i] = label[i-1] /\ label[i-1] \in Nodes
  BY NodesEnumerated
<1>2. c \in [1 .. N -> Nodes] /\ c[1] = 0 /\ \A i \in 2 .. N : c[i] \in {c[i-1], i-1}
  BY DEF ByStarts, Numbering
<1>3. \A u \in Nodes : \E i \in 1 .. N : t[i] = u
  BY <1>1 DEF EachOnce
<1>4. \A i \in 1 .. N : color[t[i]] = c[i]
  BY <1>1
<1>5. ASSUME NEW u \in Nodes, NEW v \in Nodes
      PROVE  /\ key[u] = key[v] <=> color[u] = color[v]
             /\ <<u, v>> \in less => color[u] < color[v]
  <2>1. PICK i \in 1 .. N : t[i] = u
    BY <1>3
  <2>2. PICK j \in 1 .. N : t[j] = v
    BY <1>3
  <2>3. /\ key[t[i]] = key[t[j]] <=> c[i] = c[j]
        /\ <<t[i], t[j]>> \in less => c[i] < c[j]
    <3> HIDE DEF t
    <3>1. Numbering(key, t, c) /\ SortedNodes(less, t, N)
      BY DEF ByStarts, t
    <3> QED BY <3>1, NumbersTell
  <2>4. color[u] = c[i] /\ color[v] = c[j]
    BY <1>4, <2>1, <2>2
  <2> HIDE DEF t
  <2> QED BY <2>1, <2>2, <2>3, <2>4
<1>6. \A u \in Nodes : color[u] \in Nodes
  BY <1>2, <1>3, <1>4
<1>7. \A p \in Positions : p+1 \in 1 .. N /\ (p+1)-1 = p
  BY <1>0
<1>8. \A p \in Positions : label[p] \in Nodes /\ label[p] = t[p+1] /\ color[label[p]] = c[p+1]
  <2> TAKE p \in Positions
  <2>1. p+1 \in 1 .. N /\ (p+1)-1 = p
    BY <1>7
  <2> HIDE DEF t
  <2> QED BY <1>1, <2>1
<1>9. m \in Colorings
  <2>1. [u \in Nodes |-> color[u]] \in [Nodes -> Nodes]
    BY <1>6
  <2>2. [p \in Positions |-> label[p]] \in [Positions -> Nodes]
    BY <1>8
  <2> QED BY <2>1, <2>2 DEF Colorings, NodeColoring
<1>10. \A p \in Positions : m.label[p] = label[p] /\ ColorAtLabel(m, p) = c[p+1]
  BY <1>8 DEF NodeColoring, ColorAtLabel
<1> HIDE DEF m, t
<1>11. Enumerates(m)
  <2>1. ASSUME NEW p \in Positions, NEW q \in Positions, m.label[p] = m.label[q] PROVE p = q
    <3>1. t[p+1] = t[q+1]
      BY <1>8, <1>10, <2>1
    <3>2. p+1 = q+1
      BY <1>1, <1>7, <3>1 DEF EachOnce
    <3> QED BY <1>0, <3>2
  <2>2. ASSUME NEW u \in Nodes PROVE \E p \in Positions : m.label[p] = u
    <3>1. PICK i \in 1 .. N : t[i] = u
      BY <1>3
    <3>2. i-1 \in Positions /\ (i-1)+1 = i
      BY <1>0
    <3>3. label[i-1] = t[i]
      BY <1>1
    <3> QED BY <1>10, <3>1, <3>2, <3>3
  <2> QED BY <1>9, <2>1, <2>2 DEF Enumerates, LabelsPermutation
<1>12. ClassStarts(m)
  <2>1. ColorAtLabel(m, 0) = 0
    <3>1. 0 \in Positions /\ 0+1 = 1
      BY <1>0
    <3>2. ColorAtLabel(m, 0) = c[0+1]
      BY <1>10, <3>1
    <3> QED BY <1>2, <3>1, <3>2
  <2>2. ASSUME NEW p \in 1 .. N-1 PROVE ColorAtLabel(m, p) \in {ColorAtLabel(m, p-1), p}
    <3>1. p \in Positions /\ p-1 \in Positions /\ p+1 \in 2 .. N /\ (p+1)-1 = p /\ (p-1)+1 = p
      BY <1>0
    <3>2. c[p+1] \in {c[(p+1)-1], (p+1)-1}
      BY <1>2, <3>1
    <3>3. ColorAtLabel(m, p) = c[p+1] /\ ColorAtLabel(m, p-1) = c[(p-1)+1]
      BY <1>10, <3>1
    <3> QED BY <3>1, <3>2, <3>3
  <2> QED BY <2>1, <2>2 DEF ClassStarts
<1> QED BY <1>5, <1>11, <1>12 DEF WellFormed, m

-----------------------------------------------------------------------------
(***************************************************************************)
(* Colors of lanes, and states after a round.                              *)
(***************************************************************************)
LaneColored(W, color) ==
    /\ color \in [LanesOf(W) -> 0 .. 15]
    /\ \A u \in Nodes, v \in N .. W-1 : color[u] < color[v]
    /\ \A u, v \in N .. W-1 : color[u] = color[v]

Settled(W, s) ==
    /\ NodesFirst(W, s.label)
    /\ LaneColored(W, s.color)
    /\ WellFormed(NodeColoring(s.color, s.label))
    /\ StartsAt(W, s.color, NodeRanks(s.label), s.starts)

\* Keys that begin with the color keep classes apart, and in order.
KeysKeep(color, key) == \A u, v \in Nodes : color[u] < color[v] => Below(key[u], key[v])

\* What sorting the keys gives.
Sorts(W, key, label, starts) ==
    /\ key \in [Nodes -> Pairs]
    /\ NodesFirst(W, label)
    /\ SortedNodes(HashLess(key), NodeRanks(label), N)
    /\ StartsAt(W, key, NodeRanks(label), starts)

LEMMA RoundSorts ==
    ASSUME NEW W, Fits(W), NEW a, NEW b, LaneKeys(W, a, b),
           NEW sorted, sorted = SortUp(W, LaneWords(W, a, b)),
           NEW label, label = [p \in LanesOf(W) |-> LaneOf(sorted[p], W)]
    PROVE  Sorts(W, NodeKeys(a, b), label, NewClasses(sorted, W))
<1>1. W \in Widths /\ a \in [LanesOf(W) -> Int] /\ b \in [LanesOf(W) -> Nat]
  BY DEF Fits, LaneKeys
<1>2. Ranked(W, a, b, label) /\ KeysAtRanks(W, a, b, label, sorted)
  BY <1>1, LanesSorted
<1>3. NodesFirst(W, label)
  BY <1>2, DisabledBehind
<1>4. /\ NodeKeys(a, b) \in [Nodes -> Pairs]
      /\ SortedNodes(HashLess(NodeKeys(a, b)), NodeRanks(label), N)
  BY <1>2, NodesSorted
<1>5. StartsAt(W, NodeKeys(a, b), NodeRanks(label), NewClasses(sorted, W))
  BY <1>2, ClassesStart
<1> QED BY <1>3, <1>4, <1>5 DEF Sorts

\* The colors of new classes.
LEMMA NewColors ==
    ASSUME NEW W, Fits(W), NEW key, NEW label, NEW starts, Sorts(W, key, label, starts),
           NEW r, RankColors(W, starts, r), NEW color, color = ColorsByNode(W, label, r)
    PROVE  /\ WellFormed(NodeColoring(color, label))
           /\ color \in [LanesOf(W) -> Int]
           /\ \A v \in N .. W-1 : color[v] = N
           /\ \A i \in 1 .. N : color[label[i-1]] = r[i-1]
           /\ \A u, v \in Nodes : /\ key[u] = key[v] <=> color[u] = color[v]
                                  /\ Below(key[u], key[v]) => color[u] < color[v]
<1> DEFINE L == LanesOf(W)
           t == NodeRanks(label)
           c == FromRanks(r)
<1>0. W \in Nat \ {0} /\ N \in Nat \ {0} /\ N <= W /\ L = 0 .. W-1 /\ Nodes = 0 .. N-1
  BY NAssumption DEF Fits, Widths, LanesOf, Nodes
<1>1. /\ key \in [Nodes -> Pairs] /\ NodesFirst(W, label)
      /\ SortedNodes(HashLess(key), t, N) /\ StartsAt(W, key, t, starts)
  BY DEF Sorts
<1>2. ByStarts(key, t, c) /\ \A p \in N .. W-1 : r[p] = N
  BY <1>1, RanksNumber
<1>3. color \in [L -> Int] /\ \A p \in L : color[label[p]] = r[p]
  <2>1. W \in Widths /\ IsPermutation(label, L) /\ r \in [L -> Int]
    BY <1>1 DEF Fits, NodesFirst, RankColors
  <2> HIDE DEF L
  <2> QED BY <2>1, ColorsOfLanes DEF L
<1>4. \A v \in N .. W-1 : color[v] = N
  <2> TAKE v \in N .. W-1
  <2>1. v \in L /\ label[v] = v
    BY <1>0, <1>1 DEF NodesFirst
  <2>2. color[label[v]] = r[v] /\ r[v] = N
    BY <1>2, <1>3, <2>1
  <2> QED BY <2>1, <2>2
<1>5. \A i \in 1 .. N : color[label[i-1]] = r[i-1] /\ c[i] = r[i-1]
  <2> TAKE i \in 1 .. N
  <2>1. i-1 \in L
    BY <1>0
  <2> QED BY <1>3, <2>1 DEF FromRanks
<1>6. Orders(HashLess(key), key)
  BY <1>1, KeysOrder
<1> HIDE DEF c, t
<1>7. /\ WellFormed(NodeColoring(color, label))
      /\ \A u, v \in Nodes : /\ key[u] = key[v] <=> color[u] = color[v]
                             /\ <<u, v>> \in HashLess(key) => color[u] < color[v]
  <2>1. \A i \in 1 .. N : color[label[i-1]] = c[i]
    BY <1>5
  <2> QED BY <1>1, <1>2, <1>6, <2>1, ColoredByStarts DEF t
<1>8. \A u, v \in Nodes : Below(key[u], key[v]) => <<u, v>> \in HashLess(key)
  BY DEF HashLess
<1> QED BY <1>3, <1>4, <1>5, <1>7, <1>8

LEMMA StartsOfColors ==
    ASSUME NEW W, Fits(W), NEW key, NEW label, NEW starts, Sorts(W, key, label, starts),
           NEW color, \A u, v \in Nodes : key[u] = key[v] <=> color[u] = color[v]
    PROVE  StartsAt(W, color, NodeRanks(label), starts)
<1> DEFINE t == NodeRanks(label)
<1>1. StartsAt(W, key, t, starts) /\ EachOnce(t)
  BY NodesEnumerated DEF Sorts
<1>2. \A i \in 1 .. N : t[i] \in Nodes
  BY <1>1 DEF EachOnce
<1> HIDE DEF t
<1>3. \A p \in 1 .. W-1 : p < N => (key[t[p+1]] = key[t[p]] <=> color[t[p+1]] = color[t[p]])
  <2> TAKE p \in 1 .. W-1
  <2> HAVE p < N
  <2>1. p \in 1 .. N /\ p+1 \in 1 .. N
    BY NAssumption DEF Fits, Widths
  <2>2. t[p] \in Nodes /\ t[p+1] \in Nodes
    BY <1>2, <2>1
  <2> QED BY <2>2
<1> QED BY <1>1, <1>3 DEF StartsAt, t

\* Along both orders the classes of the old colors are the same.
LEMMA OldColorsAlong ==
    ASSUME NEW W, Fits(W), NEW s, Settled(W, s), NEW key, KeysKeep(s.color, key),
           NEW label, NEW starts, Sorts(W, key, label, starts), NEW p \in Positions
    PROVE  s.color[label[p]] = s.color[s.label[p]]
<1> DEFINE k == NodeColoring(s.color, s.label)
           f == k.color
           a == k.label
           b == [q \in Positions |-> label[q]]
           t == NodeRanks(label)
<1>0. N \in Nat \ {0} /\ Nodes = 0 .. N-1 /\ Positions = 0 .. N-1
  BY NAssumption DEF Nodes, Positions
<1>1. InOrder(k) /\ k \in Colorings
  BY WellFormedInOrder DEF Settled, InOrder, Enumerates
<1>2. f \in [Nodes -> Int] /\ \A u \in Nodes : f[u] = s.color[u]
  BY <1>1, ColorsAreInts DEF NodeColoring
<1>3. Enumeration(a) /\ AscendsAlong(f, a)
  <2>1. Enumeration(a)
    BY <1>1 DEF InOrder, Enumerates, LabelsPermutation, Enumeration, Colorings
  <2> HIDE DEF k
  <2>2. AscendsAlong(f, a)
    BY <1>1, InOrderAscends DEF AscendsAlong, ColorAtLabel
  <2> QED BY <2>1, <2>2
<1>4. /\ EachOnce(t) /\ \A i \in 1 .. N : t[i] = label[i-1] /\ label[i-1] \in Nodes
  BY NodesEnumerated DEF Sorts
<1>5. \A q \in Positions : q+1 \in 1 .. N /\ (q+1)-1 = q
  BY <1>0
<1>6. \A q \in Positions : b[q] = t[q+1] /\ b[q] \in Nodes /\ b[q] = label[q]
  <2> TAKE q \in Positions
  <2>1. q+1 \in 1 .. N /\ (q+1)-1 = q
    BY <1>5
  <2> HIDE DEF t
  <2> QED BY <1>4, <2>1
<1>7. b \in [Positions -> Nodes]
  BY <1>6
<1> HIDE DEF b, t, f, a, k
<1>8. Enumeration(b)
  <2>1. ASSUME NEW q \in Positions, NEW o \in Positions, b[q] = b[o] PROVE q = o
    <3>1. t[q+1] = t[o+1]
      BY <1>6, <2>1
    <3>2. q+1 = o+1
      BY <1>4, <1>5, <3>1 DEF EachOnce
    <3> QED BY <1>0, <3>2
  <2>2. ASSUME NEW u \in Nodes PROVE \E q \in Positions : b[q] = u
    <3>1. PICK i \in 1 .. N : t[i] = u
      BY <1>4 DEF EachOnce
    <3>2. i-1 \in Positions /\ (i-1)+1 = i
      BY <1>0
    <3>3. b[i-1] = t[i]
      BY <1>6, <3>2
    <3> QED BY <3>1, <3>2, <3>3
  <2> QED BY <1>7, <2>1, <2>2 DEF Enumeration
<1>9. AscendsAlong(f, b)
  <2> SUFFICES ASSUME NEW q \in Positions, NEW o \in 0 .. q, ~(f[b[o]] <= f[b[q]]) PROVE FALSE
    BY DEF AscendsAlong
  <2>1. o \in Positions /\ b[o] \in Nodes /\ b[q] \in Nodes
    BY <1>0, <1>6
  <2>2. f[b[o]] \in Int /\ f[b[q]] \in Int
    BY <1>2, <2>1
  <2>3. f[b[q]] < f[b[o]]
    BY <2>2
  <2>4. Below(key[b[q]], key[b[o]])
    BY <1>2, <2>1, <2>3 DEF KeysKeep
  <2>5. o # q
    BY <2>2, <2>3
  <2>6. o+1 \in 1 .. N /\ q+1 \in 1 .. N /\ o+1 < q+1
    BY <1>0, <2>1, <2>5
  <2>7. <<t[q+1], t[o+1]>> \notin HashLess(key)
    BY <2>6 DEF Sorts, SortedNodes, t
  <2>8. <<b[q], b[o]>> \notin HashLess(key)
    BY <1>6, <2>1, <2>7
  <2> QED BY <2>1, <2>4, <2>8 DEF HashLess
<1>10. f[a[p]] = f[b[p]]
  BY <1>2, <1>3, <1>8, <1>9, SameAlong
<1>11. a[p] = s.label[p] /\ s.label[p] \in Nodes
  BY DEF a, k, NodeColoring, Settled, NodesFirst
<1> QED BY <1>2, <1>6, <1>10, <1>11

LEMMA StartsGrow ==
    ASSUME NEW W, Fits(W), NEW s, Settled(W, s), NEW key, KeysKeep(s.color, key),
           NEW label, NEW starts, Sorts(W, key, label, starts)
    PROVE  s.starts \subseteq starts
<1> DEFINE t == NodeRanks(label)
           o == NodeRanks(s.label)
<1>0. N \in Nat \ {0} /\ Nodes = 0 .. N-1 /\ Positions = 0 .. N-1 /\ W \in Nat
  BY NAssumption DEF Nodes, Positions, Fits, Widths
<1>1. /\ s.starts \subseteq 1 .. W-1
      /\ \A p \in 1 .. W-1 : p \in s.starts <=> (p < N /\ s.color[o[p+1]] # s.color[o[p]]) \/ p = N
  BY DEF Settled, StartsAt
<1>2. \A p \in 1 .. W-1 : p \in starts <=> (p < N /\ key[t[p+1]] # key[t[p]]) \/ p = N
  BY DEF Sorts, StartsAt
<1>3. \A i \in 1 .. N : t[i] = label[i-1] /\ o[i] = s.label[i-1]
  BY DEF NodeRanks
<1>4. \A i \in 1 .. N : s.color[t[i]] = s.color[o[i]]
  <2> TAKE i \in 1 .. N
  <2>1. i-1 \in Positions
    BY <1>0
  <2>2. s.color[label[i-1]] = s.color[s.label[i-1]]
    BY <2>1, OldColorsAlong
  <2> QED BY <1>3, <2>2
<1> HIDE DEF t, o
<1> SUFFICES ASSUME NEW p \in s.starts PROVE p \in starts
  OBVIOUS
<1>5. p \in 1 .. W-1
  BY <1>1
<1>6. CASE p = N
  BY <1>2, <1>5, <1>6
<1>7. CASE p < N
  <2>1. p \in 1 .. N /\ p+1 \in 1 .. N /\ p # N
    BY <1>0, <1>5, <1>7
  <2>2. s.color[o[p+1]] # s.color[o[p]]
    BY <1>1, <1>5, <2>1
  <2>3. s.color[t[p+1]] # s.color[t[p]]
    BY <1>4, <2>1, <2>2
  <2>4. key[t[p+1]] # key[t[p]]
    <3> DEFINE u == t[p+1]
               v == t[p]
    <3>1. u \in Nodes /\ v \in Nodes
      <4>1. EachOnce(t)
        BY NodesEnumerated DEF Sorts, t
      <4> QED BY <2>1, <4>1 DEF EachOnce
    <3>2. key \in [Nodes -> Pairs]
      BY DEF Sorts
    <3>3. s.color[u] \in Int /\ s.color[v] \in Int
      <4>1. s.color \in [LanesOf(W) -> 0 .. 15] /\ u \in LanesOf(W) /\ v \in LanesOf(W)
        BY <1>0, <3>1 DEF Settled, LaneColored, LanesOf, Fits
      <4> QED BY <4>1
    <3> HIDE DEF u, v
    <3>4. Below(key[u], key[v]) \/ Below(key[v], key[u])
      <4>1. s.color[u] # s.color[v]
        BY <2>3 DEF u, v
      <4>2. s.color[u] < s.color[v] \/ s.color[v] < s.color[u]
        BY <3>3, <4>1
      <4> QED BY <3>1, <4>2 DEF KeysKeep
    <3>5. key[u] # key[v]
      BY <3>1, <3>2, <3>4, BelowIsOrder
    <3> QED BY <3>5 DEF u, v
  <2> QED BY <1>2, <1>5, <1>7, <2>4
<1> QED BY <1>0, <1>1, <1>5, <1>6, <1>7

\* When no class starts anew, the keys tell the classes of the old colors.
LEMMA SameStarts ==
    ASSUME NEW W, Fits(W), NEW s, Settled(W, s), NEW key, KeysKeep(s.color, key),
           NEW label, Sorts(W, key, label, s.starts)
    PROVE  /\ WellFormed(NodeColoring(s.color, label))
           /\ \A u, v \in Nodes : key[u] = key[v] <=> s.color[u] = s.color[v]
<1> DEFINE t == NodeRanks(label)
           o == NodeRanks(s.label)
           c == [i \in 1 .. N |-> s.color[label[i-1]]]
           k == NodeColoring(s.color, s.label)
<1>0. N \in Nat \ {0} /\ N <= W /\ W \in Nat /\ Nodes = 0 .. N-1 /\ Positions = 0 .. N-1
  BY NAssumption DEF Nodes, Positions, Fits, Widths
<1>1. /\ NodesFirst(W, label) /\ NodesFirst(W, s.label)
      /\ SortedNodes(HashLess(key), t, N) /\ Orders(HashLess(key), key)
  BY KeysOrder DEF Sorts, Settled
<1>2. \A p \in 1 .. W-1 :
         /\ p \in s.starts <=> (p < N /\ key[t[p+1]] # key[t[p]]) \/ p = N
         /\ p \in s.starts <=> (p < N /\ s.color[o[p+1]] # s.color[o[p]]) \/ p = N
  <2>1. \A p \in 1 .. W-1 : p \in s.starts <=> (p < N /\ key[t[p+1]] # key[t[p]]) \/ p = N
    BY DEF Sorts, StartsAt
  <2>2. \A p \in 1 .. W-1 : p \in s.starts <=> (p < N /\ s.color[o[p+1]] # s.color[o[p]]) \/ p = N
    BY DEF Settled, StartsAt
  <2> QED BY <2>1, <2>2
<1>3. \A i \in 1 .. N : i-1 \in Positions /\ c[i] = s.color[t[i]] /\ c[i] = s.color[o[i]]
                        /\ c[i] = ColorAtLabel(k, i-1)
  <2> TAKE i \in 1 .. N
  <2>1. i-1 \in Positions
    BY <1>0
  <2>2. s.color[label[i-1]] = s.color[s.label[i-1]]
    BY <2>1, OldColorsAlong
  <2>3. c[i] = s.color[label[i-1]] /\ t[i] = label[i-1] /\ o[i] = s.label[i-1]
    BY DEF NodeRanks
  <2>4. s.label[i-1] \in Nodes
    BY <1>1, <2>1 DEF NodesFirst
  <2>5. ColorAtLabel(k, i-1) = s.color[s.label[i-1]]
    BY <2>1, <2>4 DEF ColorAtLabel, NodeColoring
  <2> QED BY <2>1, <2>2, <2>3, <2>5
<1>4. /\ \A p \in Positions : ColorAtLabel(k, p) \in Nodes
      /\ ColorAtLabel(k, 0) = 0
      /\ \A p \in 1 .. N-1 : ColorAtLabel(k, p) \in {ColorAtLabel(k, p-1), p}
      /\ \A p \in Positions : ColorAtLabel(k, p) \in 0 .. p
  <2>1. WellFormed(k)
    BY DEF Settled
  <2> HIDE DEF k
  <2>2. \A p \in Positions : ColorAtLabel(k, p) \in 0 .. p
    BY <2>1, ColorsAreStarts
  <2>3. \A p \in Positions : ColorAtLabel(k, p) \in Nodes
    BY <1>0, <2>2
  <2> QED BY <2>1, <2>2, <2>3 DEF WellFormed, ClassStarts
<1>5. c \in [1 .. N -> Nodes]
  <2>1. \A i \in 1 .. N : c[i] \in Nodes
    BY <1>3, <1>4
  <2> QED BY <2>1
<1> HIDE DEF c, k, t, o
<1>6. c[1] = 0
  <2>1. 1 \in 1 .. N /\ 1-1 = 0
    BY <1>0
  <2>2. c[1] = ColorAtLabel(k, 0)
    BY <1>3, <2>1
  <2> QED BY <1>4, <2>2
<1>7. ASSUME NEW i \in 2 .. N
      PROVE  /\ IF key[t[i]] = key[t[i-1]] THEN c[i] = c[i-1] ELSE c[i] > c[i-1]
             /\ c[i] \in {c[i-1], i-1}
  <2> DEFINE p == i-1
  <2>1. /\ p \in 1 .. W-1 /\ p \in 1 .. N-1 /\ p < N /\ p # N /\ p+1 = i /\ p \in 1 .. N /\ i \in 1 .. N
        /\ p-1 \in Positions
    BY <1>0
  <2> HIDE DEF p
  <2>2. c[i] = ColorAtLabel(k, p) /\ c[p] = ColorAtLabel(k, p-1)
    <3>1. i-1 = p
      BY DEF p
    <3> QED BY <1>3, <2>1, <3>1
  <2>3. key[t[i]] # key[t[p]] <=> s.color[o[i]] # s.color[o[p]]
    BY <1>2, <2>1
  <2>4. key[t[i]] = key[t[p]] <=> c[i] = c[p]
    BY <1>3, <2>1, <2>3
  <2>5. c[i] \in {c[p], p} /\ c[p] \in 0 .. p-1
    BY <1>4, <2>1, <2>2
  <2>6. c[i] # c[p] => c[i] > c[p]
    BY <2>1, <2>5
  <2> QED BY <2>4, <2>5, <2>6 DEF p
<1>8. ByStarts(key, t, c)
  BY <1>5, <1>6, <1>7 DEF ByStarts, Numbering
<1>9. \A i \in 1 .. N : s.color[label[i-1]] = c[i]
  BY DEF c
<1>10. /\ WellFormed(NodeColoring(s.color, label))
       /\ \A u, v \in Nodes : /\ key[u] = key[v] <=> s.color[u] = s.color[v]
                              /\ <<u, v>> \in HashLess(key) => s.color[u] < s.color[v]
  BY <1>1, <1>8, <1>9, ColoredByStarts DEF t
<1> QED BY <1>10

-----------------------------------------------------------------------------
(***************************************************************************)
(* One step of either loop.                                                *)
(***************************************************************************)
SameColors(color, key) == \A u, v \in Nodes : key[u] = key[v] <=> color[u] = color[v]

NodesKeepOrder(color, next) == \A u, v \in Nodes : color[u] < color[v] => next[u] < next[v]

Stepped(W, s, key, n) ==
    /\ Settled(W, n)
    /\ SameColors(n.color, key)
    /\ NodesKeepOrder(s.color, n.color)
    /\ n.done => (\A u \in Nodes : n.color[u] = s.color[u]) \/ n.starts = EnabledRanks(W)
    /\ ~n.done => /\ n.starts # EnabledRanks(W)
                  /\ n.starts # s.starts
                  /\ Settled(W, s) => s.starts \subseteq n.starts

\* New colors of the lanes, those of disabled lanes are d.
Recolored(W, color, label, r, d) ==
    /\ color = [u \in LanesOf(W) |-> color[u]]
    /\ \A u \in Nodes : color[u] = ColorsByNode(W, label, r)[u]
    /\ \A v \in N .. W-1 : color[v] = d /\ d \in N .. 15

LEMMA NewLaneColors ==
    ASSUME NEW W, Fits(W), NEW key, NEW label, NEW starts, Sorts(W, key, label, starts),
           NEW r, RankColors(W, starts, r), NEW color, NEW d, Recolored(W, color, label, r, d)
    PROVE  /\ WellFormed(NodeColoring(color, label))
           /\ LaneColored(W, color)
           /\ SameColors(color, key)
           /\ \A i \in 1 .. N : color[label[i-1]] = r[i-1]
           /\ \A u, v \in Nodes : Below(key[u], key[v]) => color[u] < color[v]
<1> DEFINE L == LanesOf(W)
           e == ColorsByNode(W, label, r)
<1>0. W \in Nat \ {0} /\ N \in Nat \ {0} /\ N <= W /\ W <= 16 /\ L = 0 .. W-1 /\ Nodes = 0 .. N-1
  BY NAssumption DEF Fits, Widths, LanesOf, Nodes
<1>1. /\ WellFormed(NodeColoring(e, label))
      /\ \A i \in 1 .. N : e[label[i-1]] = r[i-1]
      /\ \A u, v \in Nodes : /\ key[u] = key[v] <=> e[u] = e[v]
                             /\ Below(key[u], key[v]) => e[u] < e[v]
  <2> HIDE DEF e
  <2> QED BY NewColors DEF e
<1>2. /\ color = [u \in L |-> color[u]]
      /\ \A u \in Nodes : color[u] = e[u]
      /\ \A v \in N .. W-1 : color[v] = d /\ d \in N .. 15
  BY DEF Recolored
<1> HIDE DEF e
<1>3. NodeColoring(color, label) = NodeColoring(e, label)
  BY <1>2 DEF NodeColoring
<1>4. \A i \in 1 .. N : color[label[i-1]] = r[i-1]
  <2> TAKE i \in 1 .. N
  <2>1. label[i-1] \in Nodes
    BY NodesEnumerated DEF Sorts
  <2> QED BY <1>1, <1>2, <2>1
<1>5. \A u \in Nodes : color[u] \in 0 .. N-1
  <2> TAKE u \in Nodes
  <2>1. NodeColoring(e, label).color \in [Nodes -> Nodes]
    BY <1>1 DEF WellFormed, Enumerates, Colorings
  <2>2. NodeColoring(e, label).color[u] = e[u]
    BY DEF NodeColoring
  <2>3. e[u] \in Nodes
    BY <2>1, <2>2
  <2> QED BY <1>0, <1>2, <2>3
<1>6. LaneColored(W, color)
  <2>1. \A u \in L : color[u] \in 0 .. 15
    <3> TAKE u \in L
    <3>1. CASE u \in Nodes
      <4>1. color[u] \in 0 .. N-1
        BY <1>5, <3>1
      <4>2. N \in Nat /\ N <= 16
        BY <1>0
      <4>3. \A i \in 0 .. N-1 : i \in 0 .. 15
        BY <4>2
      <4> QED BY <4>1, <4>3
    <3>2. CASE u \in N .. W-1
      <4>1. color[u] = d /\ d \in N .. 15
        BY <1>2, <3>2
      <4> QED BY <1>0, <4>1
    <3> QED BY <1>0, <3>1, <3>2
  <2>2. color \in [L -> 0 .. 15]
    BY <1>2, <2>1
  <2>3. ASSUME NEW u \in Nodes, NEW v \in N .. W-1 PROVE color[u] < color[v]
    <3>1. color[u] \in 0 .. N-1 /\ color[v] = d /\ d \in N .. 15
      BY <1>2, <1>5
    <3> QED BY <1>0, <3>1
  <2>4. \A u, v \in N .. W-1 : color[u] = color[v]
    BY <1>2
  <2> QED BY <2>2, <2>3, <2>4 DEF LaneColored
<1>7. SameColors(color, key)
  BY <1>1, <1>2 DEF SameColors
<1> QED BY <1>1, <1>2, <1>3, <1>4, <1>6, <1>7

LEMMA NewStep ==
    ASSUME NEW W, Fits(W), NEW s, NEW key, KeysKeep(s.color, key),
           NEW label, NEW starts, Sorts(W, key, label, starts), starts # s.starts,
           NEW r, RankColors(W, starts, r), NEW n, NEW d, Recolored(W, n.color, label, r, d),
           n.label = label, n.starts = starts, n.done <=> starts = EnabledRanks(W)
    PROVE  Stepped(W, s, key, n)
<1> DEFINE color == n.color
<1>1. Recolored(W, color, label, r, d)
  OBVIOUS
<1>2. /\ WellFormed(NodeColoring(color, label))
      /\ LaneColored(W, color)
      /\ SameColors(color, key)
      /\ \A u, v \in Nodes : Below(key[u], key[v]) => color[u] < color[v]
  <2> HIDE DEF color
  <2> QED BY <1>1, NewLaneColors
<1>3. StartsAt(W, color, NodeRanks(label), starts)
  <2> HIDE DEF color
  <2> QED BY <1>2, StartsOfColors DEF SameColors
<1>4. Settled(W, n)
  BY <1>2, <1>3 DEF Settled, Sorts
<1>5. NodesKeepOrder(s.color, n.color)
  BY <1>2 DEF NodesKeepOrder, KeysKeep
<1>6. Settled(W, s) => s.starts \subseteq starts
  BY StartsGrow
<1> QED BY <1>2, <1>4, <1>5, <1>6 DEF Stepped

\* The last step may leave the colors, and the labels, as they are.
LEMMA LastStep ==
    ASSUME NEW W, Fits(W), NEW s, Settled(W, s), NEW key, KeysKeep(s.color, key),
           NEW label, Sorts(W, key, label, s.starts),
           NEW n, n.color = s.color, n.starts = s.starts, n.done, n.label \in {label, s.label}
    PROVE  Stepped(W, s, key, n)
<1>1. /\ WellFormed(NodeColoring(s.color, label))
      /\ \A u, v \in Nodes : key[u] = key[v] <=> s.color[u] = s.color[v]
  BY SameStarts
<1>2. LaneColored(W, s.color)
  BY DEF Settled
<1>3. Settled(W, n)
  <2>1. CASE n.label = s.label
    BY <2>1 DEF Settled
  <2>2. CASE n.label = label
    <3>1. StartsAt(W, s.color, NodeRanks(label), s.starts)
      BY <1>1, StartsOfColors
    <3> QED BY <1>1, <1>2, <2>2, <3>1 DEF Settled, Sorts
  <2> QED BY <2>1, <2>2
<1>4. SameColors(n.color, key)
  BY <1>1 DEF SameColors
<1>5. NodesKeepOrder(s.color, n.color)
  BY DEF NodesKeepOrder
<1> QED BY <1>3, <1>4, <1>5 DEF Stepped

\* A round sorts by the keys and is the last when no class starts anew.
Took(W, s, key, n) ==
    \E label, starts, r, d :
       /\ Sorts(W, key, label, starts)
       /\ RankColors(W, starts, r)
       /\ \/ /\ starts = s.starts
             /\ n.color = s.color /\ n.starts = s.starts /\ n.done
             /\ n.label \in {label, s.label}
          \/ /\ starts # s.starts
             /\ Recolored(W, n.color, label, r, d)
             /\ n.label = label /\ n.starts = starts
             /\ n.done <=> starts = EnabledRanks(W)

\* Before the loop no rank has been looked at.
Running(W, s) ==
    /\ LaneColored(W, s.color)
    /\ s.starts = {0} \/ Settled(W, s)

LEMMA TookSteps ==
    ASSUME NEW W, Fits(W), NEW s, Running(W, s), NEW key, KeysKeep(s.color, key),
           NEW n, Took(W, s, key, n)
    PROVE  Stepped(W, s, key, n)
<1>1. PICK label, starts, r, d :
         /\ Sorts(W, key, label, starts)
         /\ RankColors(W, starts, r)
         /\ \/ /\ starts = s.starts
               /\ n.color = s.color /\ n.starts = s.starts /\ n.done
               /\ n.label \in {label, s.label}
            \/ /\ starts # s.starts
               /\ Recolored(W, n.color, label, r, d)
               /\ n.label = label /\ n.starts = starts
               /\ n.done <=> starts = EnabledRanks(W)
  BY DEF Took
<1>2. CASE starts = s.starts
  <2>1. s.starts # {0}
    <3>1. starts \subseteq 1 .. W-1
      BY <1>1 DEF Sorts, StartsAt
    <3> QED BY <1>2, <3>1
  <2>2. Settled(W, s)
    BY <2>1 DEF Running
  <2>3. Sorts(W, key, label, s.starts)
    BY <1>1, <1>2
  <2> QED BY <1>1, <1>2, <2>2, <2>3, LastStep
<1>3. CASE starts # s.starts
  BY <1>1, <1>3, NewStep
<1> QED BY <1>2, <1>3

-----------------------------------------------------------------------------
(***************************************************************************)
(* The rounds of either loop, and why N+1 of them are enough.              *)
(***************************************************************************)
WalkStep(W, s, n) ==
    IF s.done THEN n = s ELSE \E key : Stepped(W, s, key, n)

Walks(W, w) ==
    /\ w[0].starts = {0} /\ ~w[0].done
    /\ \A i \in 1 .. N+1 : WalkStep(W, w[i-1], w[i])

LEMMA SteppedStarts ==
    ASSUME NEW W, Fits(W), NEW s, Settled(W, s)
    PROVE  s.starts \in SUBSET EnabledRanks(W)
<1>1. /\ s.starts \subseteq 1 .. W-1
      /\ \A p \in 1 .. W-1 : p \in s.starts => p < N \/ p = N
  BY DEF Settled, StartsAt
<1> QED BY <1>1, NAssumption DEF EnabledRanks, Fits, Widths

LEMMA RanksFinite ==
    ASSUME NEW W, Fits(W), NEW S \in SUBSET EnabledRanks(W)
    PROVE  IsFiniteSet(S) /\ Cardinality(S) \in 0 .. N
<1>1. IsFiniteSet(1 .. N) /\ Cardinality(1 .. N) = N
  BY FS_Interval, NAssumption
<1>2. S \in SUBSET (1 .. N)
  BY NAssumption DEF EnabledRanks, Fits, Widths
<1>3. IsFiniteSet(S) /\ Cardinality(S) <= N
  BY <1>1, <1>2, FS_Subset
<1> QED BY <1>3, FS_CardinalityType, NAssumption

\* After r rounds that were not the last at least r-1 classes have a start.
Growing(W, s, r) ==
    \/ s.done
    \/ r = 0 /\ s.starts = {0}
    \/ /\ r >= 1
       /\ Settled(W, s)
       /\ s.starts # EnabledRanks(W)
       /\ Cardinality(s.starts) >= r-1

LEMMA WalkGrows ==
    ASSUME NEW W, Fits(W), NEW s, NEW n, NEW r \in 1 .. N+1, Growing(W, s, r-1), WalkStep(W, s, n)
    PROVE  Growing(W, n, r)
<1>1. CASE s.done
  BY <1>1 DEF WalkStep, Growing
<1>2. CASE ~s.done /\ n.done
  BY <1>2 DEF Growing
<1>3. CASE ~s.done /\ ~n.done
  <2>0. r \in Nat /\ r >= 1
    BY NAssumption
  <2>1. PICK key : Stepped(W, s, key, n)
    BY <1>3 DEF WalkStep
  <2>2. /\ Settled(W, n) /\ n.starts # EnabledRanks(W) /\ n.starts # s.starts
        /\ Settled(W, s) => s.starts \subseteq n.starts
    BY <1>3, <2>1 DEF Stepped
  <2>3. n.starts \in SUBSET EnabledRanks(W)
    BY <2>2, SteppedStarts
  <2>4. IsFiniteSet(n.starts) /\ Cardinality(n.starts) \in Nat
    BY <2>3, RanksFinite
  <2>5. Cardinality(n.starts) >= r-1
    <3>1. CASE r = 1
      BY <2>4, <3>1
    <3>2. CASE r # 1
      <4>1. Settled(W, s) /\ Cardinality(s.starts) >= r-2
        BY <1>3, <2>0, <3>2 DEF Growing
      <4>2. s.starts \in SUBSET n.starts /\ s.starts # n.starts
        BY <2>2, <4>1
      <4>3. /\ IsFiniteSet(s.starts) /\ Cardinality(s.starts) <= Cardinality(n.starts)
            /\ Cardinality(n.starts) # Cardinality(s.starts)
        BY <2>4, <4>2, FS_Subset
      <4>4. Cardinality(s.starts) \in Nat
        BY <4>3, FS_CardinalityType
      <4> QED BY <2>0, <2>4, <4>1, <4>3, <4>4
    <3> QED BY <3>1, <3>2
  <2> QED BY <2>0, <2>2, <2>5 DEF Growing
<1> QED BY <1>1, <1>2, <1>3

LEMMA WalkDone ==
    ASSUME NEW W, Fits(W), NEW w, Walks(W, w)
    PROVE  w[N+1].done
<1> DEFINE T == {r \in 0 .. N+1 : Growing(W, w[r], r)}
           n == N+1
<1>1. n \in Nat /\ n >= 1 /\ N \in Nat
  BY NAssumption
<1>2. /\ w[0].starts = {0}
      /\ \A i \in 1 .. n : WalkStep(W, w[i-1], w[i])
  BY DEF Walks
<1>3. 0 \in T
  BY <1>1, <1>2 DEF Growing
<1>4. ASSUME NEW i \in 1 .. n, i-1 \in T PROVE i \in T
  <2>1. i-1 \in 0 .. n /\ i \in 0 .. n
    BY <1>1
  <2>2. Growing(W, w[i-1], i-1) /\ WalkStep(W, w[i-1], w[i])
    BY <1>2, <1>4
  <2>3. Growing(W, w[i], i)
    BY <2>2, WalkGrows
  <2> QED BY <2>1, <2>3
<1>5. \A i \in 0 .. n : i \in T
  <2> HIDE DEF T, n
  <2> QED BY <1>1, <1>3, <1>4, UpTo
<1>6. Growing(W, w[n], n)
  BY <1>1, <1>5
<1> HIDE DEF n, T
<1> SUFFICES ASSUME ~w[n].done PROVE FALSE
  BY DEF n
<1>7. Settled(W, w[n]) /\ w[n].starts # EnabledRanks(W) /\ Cardinality(w[n].starts) >= n-1
  BY <1>1, <1>6 DEF Growing
<1>8. w[n].starts \in SUBSET EnabledRanks(W)
  BY <1>7, SteppedStarts
<1> DEFINE E == EnabledRanks(W)
           S == w[n].starts
<1>9. E \in SUBSET E
  OBVIOUS
<1>10. IsFiniteSet(E) /\ Cardinality(E) \in 0 .. N
  BY RanksFinite
<1>11. Cardinality(S) \in 0 .. N
  BY <1>8, RanksFinite
<1> HIDE DEF E, S
<1>12. Cardinality(S) <= Cardinality(E) /\ (Cardinality(E) = Cardinality(S) => E = S)
  BY <1>8, <1>10, FS_Subset DEF E, S
<1>13. n-1 = N
  BY <1>1 DEF n
<1>14. Cardinality(S) >= N
  BY <1>7, <1>13 DEF S
<1>15. Cardinality(E) = Cardinality(S)
  BY <1>1, <1>10, <1>11, <1>12, <1>14
<1> QED BY <1>7, <1>12, <1>15 DEF E, S

\* The last round before the loop stops.
LastRound(w, i) == ~w[i-1].done /\ w[i].done /\ w[N+1] = w[i]

LEMMA WalkEnds ==
    ASSUME NEW W, Fits(W), NEW w, Walks(W, w)
    PROVE  \E i \in 1 .. N+1 : LastRound(w, i)
<1> DEFINE n == N+1
           Stopped(r) == w[r].done => \E i \in 1 .. n : ~w[i-1].done /\ w[i].done /\ w[r] = w[i]
           T == {r \in 0 .. n : Stopped(r)}
<1>1. n \in Nat /\ n \in 0 .. n
  BY NAssumption
<1>2. ~w[0].done /\ \A i \in 1 .. n : WalkStep(W, w[i-1], w[i])
  BY DEF Walks
<1> HIDE DEF n
<1>3. 0 \in T
  BY <1>1, <1>2
<1>4. ASSUME NEW r \in 1 .. n, r-1 \in T PROVE r \in T
  <2>1. r \in 0 .. n
    BY <1>1
  <2>2. Stopped(r)
    <3>1. CASE w[r-1].done
      <4>1. w[r] = w[r-1]
        BY <1>2, <3>1 DEF WalkStep
      <4> QED BY <1>4, <3>1, <4>1
    <3>2. CASE ~w[r-1].done
      BY <3>2
    <3> QED BY <3>1, <3>2
  <2> HIDE DEF Stopped
  <2> QED BY <2>1, <2>2
<1>5. \A r \in 0 .. n : r \in T
  <2> HIDE DEF T
  <2> QED BY <1>1, <1>3, <1>4, UpTo
<1>6. w[n].done
  BY WalkDone DEF n
<1> QED BY <1>1, <1>5, <1>6 DEF LastRound, n

LEMMA WalkKeepsOrder ==
    ASSUME NEW W, Fits(W), NEW w, Walks(W, w), NEW j \in 0 .. N+1
    PROVE  NodesKeepOrder(w[0].color, w[j].color)
<1> DEFINE n == N+1
           T == {r \in 0 .. n : NodesKeepOrder(w[0].color, w[r].color)}
<1>1. n \in Nat
  BY NAssumption
<1>2. \A i \in 1 .. n : WalkStep(W, w[i-1], w[i])
  BY DEF Walks
<1>3. 0 \in T
  BY <1>1 DEF NodesKeepOrder
<1>4. ASSUME NEW r \in 1 .. n, r-1 \in T PROVE r \in T
  <2>1. r \in 0 .. n
    BY <1>1
  <2>2. NodesKeepOrder(w[0].color, w[r-1].color) /\ WalkStep(W, w[r-1], w[r])
    BY <1>2, <1>4
  <2>3. NodesKeepOrder(w[r-1].color, w[r].color)
    BY <2>2 DEF WalkStep, Stepped, NodesKeepOrder
  <2>4. NodesKeepOrder(w[0].color, w[r].color)
    BY <2>2, <2>3 DEF NodesKeepOrder
  <2> QED BY <2>1, <2>4
<1>5. \A r \in 0 .. n : r \in T
  <2> HIDE DEF T, n
  <2> QED BY <1>1, <1>3, <1>4, UpTo
<1> QED BY <1>5

\* A loop as a function of the rounds it has taken.
Loop(n, V, start, R, w) ==
    /\ w \in [0 .. n -> V]
    /\ w[0] = start
    /\ \A i \in 1 .. n : w[i] = R[w[i-1]]

LEMMA LoopExists ==
    ASSUME NEW n \in Nat, NEW V, NEW start \in V, NEW R \in [V -> V]
    PROVE  \E w : Loop(n, V, start, R, w)
<1> DEFINE step == [i \in 1 .. n |-> R]
<1>1. step \in [1 .. n -> [V -> V]]
  OBVIOUS
<1>2. \A i \in 1 .. n : step[i] = R
  OBVIOUS
<1> HIDE DEF step
<1>3. PICK w : Iterates(n, V, start, step, w)
  BY <1>1, IterationExists
<1>4. Loop(n, V, start, R, w)
  BY <1>2, <1>3 DEF Iterates, Loop
<1> QED BY <1>4

LEMMA LoopStays ==
    ASSUME NEW n \in Nat, NEW V, NEW start \in V, NEW R \in [V -> V],
           NEW w, w = [i \in 0 .. n |-> w[i]], w[0] = start,
           \A i \in 1 .. n : w[i-1] \in V => w[i] = R[w[i-1]]
    PROVE  Loop(n, V, start, R, w)
<1> DEFINE T == {i \in 0 .. n : w[i] \in V}
<1>1. 0 \in T
  OBVIOUS
<1>2. ASSUME NEW i \in 1 .. n, i-1 \in T PROVE i \in T
  <2>1. i \in 0 .. n /\ w[i-1] \in V
    BY <1>2
  <2>2. w[i] \in V
    BY <2>1
  <2> QED BY <2>1, <2>2
<1>3. \A i \in 0 .. n : i \in T
  <2> HIDE DEF T
  <2> QED BY <1>1, <1>2, UpTo
<1>4. w \in [0 .. n -> V]
  BY <1>3
<1>5. \A i \in 1 .. n : w[i] = R[w[i-1]]
  <2> TAKE i \in 1 .. n
  <2>1. i-1 \in 0 .. n
    OBVIOUS
  <2>2. w[i-1] \in V
    BY <1>3, <2>1
  <2> QED BY <2>2
<1> QED BY <1>4, <1>5 DEF Loop

\* What is exported at the end.
LEMMA FinalExported ==
    ASSUME NEW W, Fits(W), NEW f, f.done, Settled(W, f), NEW m, m = Exported(f),
           NEW h, h = LabelsBehindNodes(f, W)
    PROVE  /\ WellFormed(m) /\ InOrder(m)
           /\ \A u \in Nodes : m.color[u] = f.color[u]
           /\ h = [p \in N .. W-1 |-> p]
<1>1. m = NodeColoring(f.color, f.label)
  BY DEF Exported, NodeColoring
<1>2. WellFormed(m)
  BY <1>1 DEF Settled
<1>3. InOrder(m)
  BY <1>2, WellFormedInOrder
<1>4. \A u \in Nodes : m.color[u] = f.color[u]
  BY <1>1 DEF NodeColoring
<1>5. \A p \in N .. W-1 : f.label[p] = p
  BY DEF Settled, NodesFirst
<1>6. h = [p \in N .. W-1 |-> p]
  BY <1>5 DEF LabelsBehindNodes
<1> QED BY <1>2, <1>3, <1>4, <1>6

-----------------------------------------------------------------------------
(***************************************************************************)
(* 8 lanes.                                                                *)
(***************************************************************************)
CountsOf(g, color, u) == [c \in 0 .. 7 |-> CountOf(color, g[u], c)]

\* Digits, the highest first, in base 8.
Packs(count, w) ==
    /\ w \in [0 .. 8 -> Nat]
    /\ w[0] = 0
    /\ \A i \in 1 .. 8 : w[i] = 8 * w[i-1] + count[8-i]

LEMMA CountsPacked ==
    ASSUME NEW g \in [Nodes -> SUBSET Nodes], NEW color, NEW u \in Nodes
    PROVE  \E w : Packs(CountsOf(g, color, u), w) /\ ColorCounts(g, color, u) = w[8]
<1> DEFINE cnt == CountsOf(g, color, u)
           digit(c) == Cardinality({v \in g[u] : color[v] = c})
           Solves(w) == w = [c \in 0 .. 8 |-> IF c = 0 THEN 0 ELSE 8 * w[c-1] + digit(8-c)]
           packed == CHOOSE w : Solves(w)
           next == [i \in 1 .. 8 |-> [x \in Nat |-> 8 * x + digit(8-i)]]
<1>1. \A c \in 0 .. 7 : digit(c) \in Nat /\ cnt[c] = digit(c)
  <2> TAKE c \in 0 .. 7
  <2>1. {v \in g[u] : color[v] = c} \in SUBSET Nodes
    OBVIOUS
  <2>2. digit(c) \in 0 .. N
    BY <2>1, NodeSetsFinite
  <2> QED BY <2>2, NAssumption DEF CountsOf, CountOf
<1> HIDE DEF digit, cnt
<1>2. \A i \in 1 .. 8 : 8-i \in 0 .. 7 /\ i-1 \in 0 .. 8 /\ digit(8-i) \in Nat /\ cnt[8-i] = digit(8-i)
  BY <1>1
<1>3. next \in [1 .. 8 -> [Nat -> Nat]]
  <2>1. \A i \in 1 .. 8 : \A x \in Nat : 8 * x + digit(8-i) \in Nat
    BY <1>2
  <2> QED BY <2>1
<1>4. PICK w : Iterates(8, Nat, 0, next, w)
  <2> HIDE DEF next
  <2> QED BY <1>3, IterationExists
<1>5. w \in [0 .. 8 -> Nat] /\ w[0] = 0 /\ \A i \in 1 .. 8 : w[i] = next[i][w[i-1]]
  BY <1>4 DEF Iterates
<1>6. \A i \in 1 .. 8 : w[i] = 8 * w[i-1] + digit(8-i)
  BY <1>2, <1>5
<1>7. Solves(w)
  <2>1. \A c \in 0 .. 8 : w[c] = IF c = 0 THEN 0 ELSE 8 * w[c-1] + digit(8-c)
    BY <1>5, <1>6
  <2> QED BY <1>5, <2>1
<1>8. Solves(packed)
  <2> HIDE DEF Solves
  <2> QED BY <1>7
<1> HIDE DEF packed
<1>9. /\ DOMAIN packed = 0 .. 8
      /\ packed[0] = 0
      /\ \A i \in 1 .. 8 : packed[i] = 8 * packed[i-1] + digit(8-i)
  BY <1>8
<1> DEFINE T == {i \in 0 .. 8 : packed[i] \in Nat}
<1>10. \A i \in 0 .. 8 : i \in T
  <2>1. 0 \in T /\ 8 \in Nat
    BY <1>9
  <2>2. \A i \in 1 .. 8 : i-1 \in T => i \in T
    <3> TAKE i \in 1 .. 8
    <3> HAVE i-1 \in T
    <3>1. packed[i-1] \in Nat /\ digit(8-i) \in Nat /\ packed[i] = 8 * packed[i-1] + digit(8-i)
      BY <1>2, <1>9
    <3>2. packed[i] \in Nat
      BY <3>1
    <3> QED BY <3>2
  <2> HIDE DEF T
  <2> QED BY <2>1, <2>2, UpTo
<1>11. packed \in [0 .. 8 -> Nat]
  <2>1. packed = [i \in 0 .. 8 |-> packed[i]]
    BY <1>8
  <2> QED BY <1>10, <2>1
<1>12. Packs(cnt, packed)
  BY <1>2, <1>9, <1>11 DEF Packs
<1>13. ColorCounts(g, color, u) = packed[8]
  BY DEF ColorCounts, packed, digit
<1> QED BY <1>12, <1>13 DEF cnt

LaneCounts(g, color) == [u \in LanesOf(8) |-> IF u \in Nodes THEN ColorCounts(g, color, u) ELSE 0]

Key8(g, color) == NodeKeys(color, LaneCounts(g, color))

LEMMA Lanes8 ==
    ASSUME Fits(8), NEW g \in [Nodes -> SUBSET Nodes], NEW color, LaneColored(8, color)
    PROVE  /\ LaneKeys(8, color, LaneCounts(g, color))
           /\ Fingerprints8(g, color) = LaneWords(8, color, LaneCounts(g, color))
           /\ KeysKeep(color, Key8(g, color))
<1> DEFINE b == LaneCounts(g, color)
<1>0. LanesOf(8) = 0 .. 7 /\ Nodes = 0 .. N-1 /\ N \in Nat /\ N <= 8
  BY NAssumption DEF LanesOf, Nodes, Fits
<1>1. \A u \in LanesOf(8) : b[u] = IF u \in Nodes THEN ColorCounts(g, color, u) ELSE 0
  BY DEF LaneCounts
<1>2. \A u \in LanesOf(8) : b[u] \in Nat
  <2> TAKE u \in LanesOf(8)
  <2>1. CASE u \in Nodes
    <3>1. PICK w : Packs(CountsOf(g, color, u), w) /\ ColorCounts(g, color, u) = w[8]
      BY <2>1, CountsPacked
    <3>2. w[8] \in Nat
      BY <3>1 DEF Packs
    <3> QED BY <1>1, <2>1, <3>1, <3>2
  <2>2. CASE u \notin Nodes
    BY <1>1, <2>2
  <2> QED BY <2>1, <2>2
<1>3. b \in [LanesOf(8) -> Nat]
  BY <1>2 DEF LaneCounts
<1>4. /\ color \in [LanesOf(8) -> 0 .. 15]
      /\ \A u \in Nodes, v \in N .. 8-1 : color[u] < color[v]
      /\ \A u, v \in N .. 8-1 : color[u] = color[v]
  BY DEF LaneColored
<1>5. \A u \in N .. 8-1 : b[u] = 0
  <2> TAKE u \in N .. 8-1
  <2>1. u \in LanesOf(8) /\ u \notin Nodes
    BY <1>0
  <2> QED BY <1>1, <2>1
<1>6. LaneKeys(8, color, b)
  <2>1. color \in [LanesOf(8) -> Int]
    BY <1>4
  <2>2. \A u, v \in N .. 8-1 : color[u] = color[v] /\ b[u] = b[v]
    BY <1>4, <1>5
  <2> HIDE DEF b
  <2> QED BY <1>3, <1>4, <2>1, <2>2 DEF LaneKeys
<1>7. Fingerprints8(g, color) = LaneWords(8, color, b)
  <2>1. \A u \in 0 .. 7 :
           <<color[u], 8 * (IF u \in Nodes THEN ColorCounts(g, color, u) ELSE 0) + u>>
              = <<color[u], 8 * b[u] + u>>
    BY <1>0, <1>1
  <2> HIDE DEF b
  <2> QED BY <1>0, <2>1 DEF Fingerprints8, LaneWords
<1>8. KeysKeep(color, Key8(g, color))
  BY DEF KeysKeep, Key8, NodeKeys, Below
<1> QED BY <1>6, <1>7, <1>8

IsState8(n) ==
    /\ n = [color |-> n.color, label |-> n.label, starts |-> n.starts, done |-> n.done]
    /\ n.done \in BOOLEAN

LEMMA Took8 ==
    ASSUME Fits(8), NEW g \in [Nodes -> SUBSET Nodes],
           NEW s, s = [color |-> s.color, label |-> s.label, starts |-> s.starts, done |-> s.done],
           LaneColored(8, s.color), NEW n, n = Round8(g, s)
    PROVE  Took(8, s, Key8(g, s.color), n) /\ IsState8(n)
<1> DEFINE b == LaneCounts(g, s.color)
           key == Key8(g, s.color)
           sorted == SortUp(8, LaneWords(8, s.color, b))
           label == [p \in LanesOf(8) |-> LaneOf(sorted[p], 8)]
           starts == NewClasses(sorted, 8)
           r == ColorsFromMask8(starts)
           color == LaneColors(ColorsByNode(8, label, r), 8)
<1>0. LanesOf(8) = 0 .. 7 /\ Nodes = 0 .. N-1 /\ N \in Nat /\ N <= 8
  BY NAssumption DEF LanesOf, Nodes, Fits
<1>1. /\ LaneKeys(8, s.color, b)
      /\ Fingerprints8(g, s.color) = LaneWords(8, s.color, b)
  BY Lanes8
<1>2. SortBatch(8, TRUE, Fingerprints8(g, s.color)) = sorted
  BY <1>1 DEF SortUp
<1> HIDE DEF sorted
<1>3. n = IF starts = s.starts
          THEN [s EXCEPT !.label = label, !.done = TRUE]
          ELSE [color |-> color, label |-> label, starts |-> starts, done |-> starts = EnabledRanks(8)]
  BY <1>0, <1>2 DEF Round8
<1>4. Sorts(8, key, label, starts)
  <2> HIDE DEF b
  <2> QED BY <1>1, RoundSorts DEF sorted, Key8, b
<1>5. starts \subseteq 1 .. 7
  BY <1>4 DEF Sorts, StartsAt
<1> HIDE DEF starts, label
<1>6. RankColors(8, starts, r)
  BY <1>5, Mask8Colors
<1>7. Recolored(8, color, label, r, 15)
  <2> DEFINE e == ColorsByNode(8, label, r)
  <2>1. color = [u \in 0 .. 7 |-> IF u \in Nodes THEN e[u] ELSE 15]
    BY DEF LaneColors, DisabledColor
  <2>2. \A u \in Nodes : color[u] = e[u]
    BY <1>0, <2>1
  <2>3. \A v \in N .. 8-1 : color[v] = 15 /\ 15 \in N .. 15
    BY <1>0, <2>1
  <2>4. color = [u \in LanesOf(8) |-> color[u]]
    BY <1>0, <2>1
  <2> HIDE DEF color
  <2> QED BY <2>2, <2>3, <2>4 DEF Recolored
<1> HIDE DEF r, color, key
<1>8. CASE starts = s.starts
  <2>1. n = [s EXCEPT !.label = label, !.done = TRUE]
    BY <1>3, <1>8
  <2>2. n = [color |-> s.color, label |-> label, starts |-> s.starts, done |-> TRUE]
    BY <2>1
  <2>3. n.color = s.color /\ n.starts = s.starts /\ n.done /\ n.label \in {label, s.label}
    BY <2>2
  <2>4. IsState8(n)
    BY <2>2 DEF IsState8
  <2> QED BY <1>4, <1>6, <1>8, <2>3, <2>4 DEF Took, key
<1>9. CASE starts # s.starts
  <2>1. n = [color |-> color, label |-> label, starts |-> starts, done |-> starts = EnabledRanks(8)]
    BY <1>3, <1>9
  <2>2. n.color = color /\ n.label = label /\ n.starts = starts
    BY <2>1
  <2>3. n.done <=> starts = EnabledRanks(8)
    <3> DEFINE e == starts = EnabledRanks(8)
    <3>1. n = [color |-> color, label |-> label, starts |-> starts, done |-> e]
      BY <2>1
    <3> HIDE DEF e
    <3>2. n.done = e
      BY <3>1
    <3>3. n.done <=> e
      BY <3>2
    <3> QED BY <3>3 DEF e
  <2>4. IsState8(n)
    <3> DEFINE e == starts = EnabledRanks(8)
    <3>1. n = [color |-> color, label |-> label, starts |-> starts, done |-> e] /\ e \in BOOLEAN
      BY <2>1
    <3> HIDE DEF e
    <3> QED BY <3>1 DEF IsState8
  <2> QED BY <1>4, <1>6, <1>7, <1>9, <2>2, <2>3, <2>4 DEF Took, key
<1> QED BY <1>8, <1>9

States8 ==
    {s \in [color : [LanesOf(8) -> 0 .. 15], label : {<<>>} \cup [LanesOf(8) -> LanesOf(8)],
            starts : SUBSET (0 .. 7), done : BOOLEAN] : Running(8, s)}

Opening8(k) == [color |-> LaneColors(k.color, 8), label |-> <<>>, starts |-> {0}, done |-> FALSE]

Next8(g, s) == IF s.done THEN s ELSE Round8(g, s)

Loop8(g) == [s \in States8 |-> Next8(g, s)]

LEMMA NodesColored ==
    ASSUME NEW W, Fits(W), NEW k \in Colorings, NEW color, color = LaneColors(k.color, W)
    PROVE  LaneColored(W, color) /\ \A u \in Nodes : color[u] = k.color[u]
<1>0. LanesOf(W) = 0 .. W-1 /\ Nodes = 0 .. N-1 /\ N \in Nat /\ N <= W /\ W \in Nat /\ W <= 16
  BY NAssumption DEF LanesOf, Nodes, Fits, Widths
<1>1. \A u \in Nodes : k.color[u] \in 0 .. N-1
  BY <1>0 DEF Colorings
<1>2. color = [u \in LanesOf(W) |-> IF u \in Nodes THEN k.color[u] ELSE 15]
  BY <1>0 DEF LaneColors, DisabledColor
<1>3. \A u \in Nodes : u \in LanesOf(W) /\ color[u] = k.color[u]
  BY <1>0, <1>2
<1>4. \A v \in N .. W-1 : v \in LanesOf(W) /\ color[v] = 15
  BY <1>0, <1>2
<1>5. \A u \in LanesOf(W) : color[u] \in 0 .. 15
  <2> TAKE u \in LanesOf(W)
  <2>1. CASE u \in Nodes
    <3>1. \A i \in 0 .. N-1 : i \in 0 .. 15
      BY <1>0
    <3> QED BY <1>1, <1>3, <2>1, <3>1
  <2>2. CASE u \notin Nodes
    BY <1>2, <2>2
  <2> QED BY <2>1, <2>2
<1>6. color \in [LanesOf(W) -> 0 .. 15]
  BY <1>2, <1>5
<1>7. ASSUME NEW u \in Nodes, NEW v \in N .. W-1 PROVE color[u] < color[v]
  <2>1. color[u] \in 0 .. N-1 /\ color[v] = 15 /\ N < 16
    BY <1>0, <1>1, <1>3, <1>4
  <2> QED BY <1>0, <2>1
<1> QED BY <1>3, <1>4, <1>6, <1>7 DEF LaneColored

LEMMA Round8Steps ==
    ASSUME Fits(8), NEW g \in [Nodes -> SUBSET Nodes], NEW s \in States8
    PROVE  /\ Took(8, s, Key8(g, s.color), Round8(g, s))
           /\ Stepped(8, s, Key8(g, s.color), Round8(g, s))
           /\ Next8(g, s) \in States8
<1> DEFINE n == Round8(g, s)
           key == Key8(g, s.color)
<1>1. /\ s = [color |-> s.color, label |-> s.label, starts |-> s.starts, done |-> s.done]
      /\ Running(8, s) /\ LaneColored(8, s.color)
  BY DEF States8, Running
<1>2. Took(8, s, key, n) /\ IsState8(n)
  BY <1>1, Took8
<1>3. KeysKeep(s.color, key)
  BY <1>1, Lanes8
<1>4. Stepped(8, s, key, n)
  <2> HIDE DEF n, key
  <2> QED BY <1>1, <1>2, <1>3, TookSteps
<1>5. n \in States8
  <2> HIDE DEF n, key
  <2>1. Settled(8, n)
    BY <1>4 DEF Stepped
  <2>2. n.color \in [LanesOf(8) -> 0 .. 15] /\ Running(8, n)
    BY <2>1 DEF Settled, LaneColored, Running
  <2>3. n.label \in [LanesOf(8) -> LanesOf(8)]
    BY <2>1 DEF Settled, NodesFirst, IsPermutation
  <2>4. n.starts \in SUBSET (0 .. 7)
    BY <2>1 DEF Settled, StartsAt
  <2> QED BY <1>2, <2>2, <2>3, <2>4 DEF States8, IsState8
<1> QED BY <1>2, <1>4, <1>5 DEF Next8

LEMMA Loop8Taken ==
    ASSUME Fits(8), NEW g \in [Nodes -> SUBSET Nodes], NEW k \in Colorings
    PROVE  \E w : Loop(N+1, States8, Opening8(k), Loop8(g), w) /\ Avx8Final(g, k) = w[N+1]
<1> DEFINE n == N+1
           start == Opening8(k)
           V == States8
           R == Loop8(g)
           Solves(w) == w = [r \in 0 .. N+1 |->
                               IF r = 0 THEN [color |-> LaneColors(k.color, 8), label |-> <<>>,
                                              starts |-> {0}, done |-> FALSE]
                               ELSE LET s == w[r-1] IN IF s.done THEN s ELSE Round8(g, s)]
           after == CHOOSE w : Solves(w)
<1>0. n \in Nat
  BY NAssumption
<1>1. start \in V
  <2> DEFINE color == LaneColors(k.color, 8)
  <2>1. LaneColored(8, color)
    BY NodesColored
  <2> HIDE DEF color
  <2>2. color \in [LanesOf(8) -> 0 .. 15]
    BY <2>1 DEF LaneColored
  <2>3. start = [color |-> color, label |-> <<>>, starts |-> {0}, done |-> FALSE]
    BY DEF Opening8, color
  <2> QED BY <2>1, <2>2, <2>3 DEF States8, Running
<1>2. R \in [V -> V] /\ \A s \in V : R[s] = Next8(g, s)
  <2>1. \A s \in V : Next8(g, s) \in V
    BY Round8Steps
  <2> HIDE DEF V
  <2> QED BY <2>1 DEF Loop8, V
<1>3. \A w : Solves(w) <=> w = [r \in 0 .. n |-> IF r = 0 THEN start ELSE Next8(g, w[r-1])]
  BY DEF Opening8, Next8
<1> HIDE DEF V, R, start, n
<1>4. PICK w : Loop(n, V, start, R, w)
  BY <1>0, <1>1, <1>2, LoopExists
<1>5. w \in [0 .. n -> V] /\ w[0] = start /\ \A i \in 1 .. n : w[i] = R[w[i-1]]
  BY <1>4 DEF Loop
<1>6. \A i \in 1 .. n : w[i] = Next8(g, w[i-1])
  <2> TAKE i \in 1 .. n
  <2>1. i-1 \in 0 .. n
    BY <1>0
  <2>2. w[i-1] \in V
    BY <1>5, <2>1
  <2> QED BY <1>2, <1>5, <2>2
<1>7. w = [r \in 0 .. n |-> IF r = 0 THEN start ELSE Next8(g, w[r-1])]
  <2>1. \A r \in 0 .. n : w[r] = IF r = 0 THEN start ELSE Next8(g, w[r-1])
    <3> TAKE r \in 0 .. n
    <3>1. r = 0 \/ r \in 1 .. n
      BY <1>0
    <3> QED BY <1>5, <1>6, <3>1
  <2> QED BY <1>5, <2>1
<1>8. Solves(w)
  BY <1>3, <1>7
<1>9. Solves(after)
  <2> HIDE DEF Solves
  <2> QED BY <1>8
<1>10. Avx8Final(g, k) = after[n]
  BY DEF Avx8Final, Iterated, n
<1> HIDE DEF after
<1>11. after = [r \in 0 .. n |-> IF r = 0 THEN start ELSE Next8(g, after[r-1])]
  <2> HIDE DEF Solves
  <2> QED BY <1>3, <1>9
<1>12. Loop(n, V, start, R, after)
  <2>1. after = [i \in 0 .. n |-> after[i]]
    BY <1>11
  <2>2. after[0] = start
    BY <1>0, <1>11
  <2>3. \A i \in 1 .. n : after[i] = Next8(g, after[i-1])
    <3> TAKE i \in 1 .. n
    <3>1. i \in 0 .. n /\ i # 0
      BY <1>0
    <3> QED BY <1>11, <3>1
  <2>4. \A i \in 1 .. n : after[i-1] \in V => after[i] = R[after[i-1]]
    BY <1>2, <2>3
  <2> QED BY <1>0, <1>1, <1>2, <2>1, <2>2, <2>4, LoopStays
<1> QED BY <1>10, <1>12 DEF n, V, start, R

LEMMA Loop8Walks ==
    ASSUME Fits(8), NEW g \in [Nodes -> SUBSET Nodes], NEW k \in Colorings,
           NEW w, Loop(N+1, States8, Opening8(k), Loop8(g), w)
    PROVE  /\ Walks(8, w)
           /\ \A i \in 1 .. N+1 : w[i-1] \in States8 /\ w[i] = Next8(g, w[i-1])
<1> DEFINE n == N+1
           V == States8
<1>0. n \in Nat
  BY NAssumption
<1>1. /\ w \in [0 .. n -> V]
      /\ w[0] = Opening8(k)
      /\ \A i \in 1 .. n : w[i] = Loop8(g)[w[i-1]]
  BY DEF Loop
<1> HIDE DEF n, V
<1>2. \A i \in 1 .. n : w[i-1] \in V /\ w[i] = Next8(g, w[i-1])
  <2> TAKE i \in 1 .. n
  <2>1. i-1 \in 0 .. n
    BY <1>0
  <2>2. w[i-1] \in V
    BY <1>1, <2>1
  <2> QED BY <1>1, <2>2 DEF Loop8, V
<1>3. ASSUME NEW i \in 1 .. n PROVE WalkStep(8, w[i-1], w[i])
  <2> DEFINE s == w[i-1]
  <2>1. s \in States8 /\ w[i] = Next8(g, s)
    BY <1>2 DEF V
  <2> HIDE DEF s
  <2>2. Stepped(8, s, Key8(g, s.color), Round8(g, s))
    BY <2>1, Round8Steps
  <2>3. WalkStep(8, s, w[i])
    BY <2>1, <2>2 DEF WalkStep, Next8
  <2> QED BY <2>3 DEF s
<1>4. w[0].starts = {0} /\ ~w[0].done
  BY <1>1 DEF Opening8
<1> QED BY <1>2, <1>3, <1>4 DEF Walks, n, V

\* The state at the end, and the one before the last round.
Ended8(g, k, f, s) ==
    /\ f.done /\ Settled(8, f) /\ NodesKeepOrder(k.color, f.color)
    /\ LaneColored(8, s.color)
    /\ Stepped(8, s, Key8(g, s.color), f)

LEMMA Avx8Ends ==
    ASSUME Fits(8), NEW g \in [Nodes -> SUBSET Nodes], NEW k \in Colorings
    PROVE  \E s : Ended8(g, k, Avx8Final(g, k), s)
<1> DEFINE f == Avx8Final(g, k)
<1>1. PICK w : Loop(N+1, States8, Opening8(k), Loop8(g), w) /\ f = w[N+1]
  BY Loop8Taken
<1>2. /\ Walks(8, w)
      /\ \A i \in 1 .. N+1 : w[i-1] \in States8 /\ w[i] = Next8(g, w[i-1])
  BY <1>1, Loop8Walks
<1>3. PICK i \in 1 .. N+1 : LastRound(w, i)
  BY <1>2, WalkEnds
<1> DEFINE s == w[i-1]
<1>4. s \in States8 /\ ~s.done /\ f.done /\ f = Next8(g, s)
  BY <1>1, <1>2, <1>3 DEF LastRound
<1>5. w[0] = Opening8(k)
  BY <1>1 DEF Loop
<1> HIDE DEF s, f
<1>6. f = Round8(g, s) /\ LaneColored(8, s.color)
  BY <1>4 DEF Next8, States8, Running
<1>7. Stepped(8, s, Key8(g, s.color), f)
  BY <1>4, <1>6, Round8Steps
<1>8. NodesKeepOrder(k.color, f.color)
  <2>1. N+1 \in 0 .. N+1
    BY NAssumption
  <2>2. NodesKeepOrder(w[0].color, f.color)
    BY <1>1, <1>2, <2>1, WalkKeepsOrder
  <2>3. \A u \in Nodes : w[0].color[u] = k.color[u]
    <3>1. w[0].color = LaneColors(k.color, 8)
      BY <1>5 DEF Opening8
    <3> QED BY <3>1, NodesColored
  <2> QED BY <2>2, <2>3 DEF NodesKeepOrder
<1>9. Ended8(g, k, f, s)
  BY <1>4, <1>6, <1>7, <1>8 DEF Ended8, Stepped
<1> QED BY <1>9 DEF f

-----------------------------------------------------------------------------
(***************************************************************************)
(* 16 lanes.                                                               *)
(***************************************************************************)
LEMMA BelowBound ==
    ASSUME NEW h \in Nat, NEW i \in Nat, i < h
    PROVE  i \in 0 .. h-1
OBVIOUS

LEMMA HalvesMakeWord ==
    ASSUME NEW i \in Nat, NEW j \in Nat, i < 65536, j < 65536
    PROVE  <<i, j>> \in Words
<1>1. H \in Nat /\ i < H /\ j < H
  BY HalfSize DEF H
<1>2. i \in 0 .. H-1 /\ j \in 0 .. H-1
  BY <1>1, BelowBound
<1> QED BY <1>2 DEF Words

LEMMA TablesHoldWords == \A i \in 1 .. 16 : ColorTable[i] \in Words /\ DegreeTable[i] \in Words
<1>1. ColorTable[1] \in Words /\ DegreeTable[1] \in Words
  BY HalvesMakeWord DEF ColorTable, DegreeTable
<1>2. ColorTable[2] \in Words /\ DegreeTable[2] \in Words
  BY HalvesMakeWord DEF ColorTable, DegreeTable
<1>3. ColorTable[3] \in Words /\ DegreeTable[3] \in Words
  BY HalvesMakeWord DEF ColorTable, DegreeTable
<1>4. ColorTable[4] \in Words /\ DegreeTable[4] \in Words
  BY HalvesMakeWord DEF ColorTable, DegreeTable
<1>5. ColorTable[5] \in Words /\ DegreeTable[5] \in Words
  BY HalvesMakeWord DEF ColorTable, DegreeTable
<1>6. ColorTable[6] \in Words /\ DegreeTable[6] \in Words
  BY HalvesMakeWord DEF ColorTable, DegreeTable
<1>7. ColorTable[7] \in Words /\ DegreeTable[7] \in Words
  BY HalvesMakeWord DEF ColorTable, DegreeTable
<1>8. ColorTable[8] \in Words /\ DegreeTable[8] \in Words
  BY HalvesMakeWord DEF ColorTable, DegreeTable
<1>9. ColorTable[9] \in Words /\ DegreeTable[9] \in Words
  BY HalvesMakeWord DEF ColorTable, DegreeTable
<1>10. ColorTable[10] \in Words /\ DegreeTable[10] \in Words
  BY HalvesMakeWord DEF ColorTable, DegreeTable
<1>11. ColorTable[11] \in Words /\ DegreeTable[11] \in Words
  BY HalvesMakeWord DEF ColorTable, DegreeTable
<1>12. ColorTable[12] \in Words /\ DegreeTable[12] \in Words
  BY HalvesMakeWord DEF ColorTable, DegreeTable
<1>13. ColorTable[13] \in Words /\ DegreeTable[13] \in Words
  BY HalvesMakeWord DEF ColorTable, DegreeTable
<1>14. ColorTable[14] \in Words /\ DegreeTable[14] \in Words
  BY HalvesMakeWord DEF ColorTable, DegreeTable
<1>15. ColorTable[15] \in Words /\ DegreeTable[15] \in Words
  BY HalvesMakeWord DEF ColorTable, DegreeTable
<1>16. ColorTable[16] \in Words /\ DegreeTable[16] \in Words
  BY HalvesMakeWord DEF ColorTable, DegreeTable
<1> DEFINE Holds(i) == ColorTable[i] \in Words /\ DegreeTable[i] \in Words
<1>17. \A i \in 1 .. 16 : Holds(i)
  <2>1. /\ Holds(1) /\ Holds(2) /\ Holds(3) /\ Holds(4)
        /\ Holds(5) /\ Holds(6) /\ Holds(7) /\ Holds(8)
        /\ Holds(9) /\ Holds(10) /\ Holds(11) /\ Holds(12)
        /\ Holds(13) /\ Holds(14) /\ Holds(15) /\ Holds(16)
    BY <1>1, <1>2, <1>3, <1>4, <1>5, <1>6, <1>7, <1>8, <1>9, <1>10, <1>11, <1>12, <1>13, <1>14,
       <1>15, <1>16
  <2> HIDE DEF Holds
  <2> QED BY <2>1
<1> QED BY <1>17

\* The hashes of all lanes: those of disabled lanes are equal.
LaneHashes ==
    {f \in [1 .. 16 -> Words] : \A i, j \in N+1 .. 16 : f[i] = f[j]}

LEMMA DegreesFit ==
    ASSUME Fits(16), NEW g \in SimpleGraphs, NEW u \in Nodes
    PROVE  Cardinality(g[u]) \in 0 .. 15
<1> DEFINE S == g[u]
<1>1. S \in SUBSET (Nodes \ {u})
  BY DEF SimpleGraphs
<1>2. IsFiniteSet(Nodes) /\ Cardinality(Nodes) = N /\ N \in Nat /\ N <= 16
  BY SizeBelow, NAssumption DEF Nodes, Fits
<1>3. IsFiniteSet(Nodes \ {u}) /\ Cardinality(Nodes \ {u}) = N - 1
  BY <1>2, FS_RemoveElement
<1>4. IsFiniteSet(S) /\ Cardinality(S) <= N - 1
  BY <1>1, <1>3, FS_Subset
<1>5. Cardinality(S) \in Nat
  BY <1>4, FS_CardinalityType
<1> QED BY <1>2, <1>4, <1>5

\* The hash a lane of color c with d neighbours begins with.
FirstHash(c, d, first) ==
    IF first THEN Xor32(ColorTable[c+1], DegreeTable[d+1]) ELSE ColorTable[c+1]

LEMMA FirstHashWord ==
    ASSUME NEW c \in 0 .. 15, NEW d \in 0 .. 15, NEW first \in BOOLEAN
    PROVE  FirstHash(c, d, first) \in Words
<1> DEFINE x == ColorTable[c+1]
           y == DegreeTable[d+1]
<1>1. c+1 \in 1 .. 16 /\ d+1 \in 1 .. 16
  OBVIOUS
<1>2. x \in Words /\ y \in Words
  BY <1>1, TablesHoldWords
<1>3. FirstHash(c, d, first) = IF first THEN Xor32(x, y) ELSE x
  BY DEF FirstHash
<1> HIDE DEF x, y
<1>4. x \in Nat \X Nat /\ y \in Nat \X Nat
  <2>1. 0 .. H-1 \subseteq Nat
    BY HalfSize
  <2> QED BY <1>2, <2>1 DEF Words
<1>5. Xor32(x, y) \in Words
  BY <1>4, XorWord
<1> QED BY <1>2, <1>3, <1>5

LEMMA OpeningHashes ==
    ASSUME Fits(16), NEW g \in SimpleGraphs, NEW color, LaneColored(16, color),
           NEW first \in BOOLEAN, NEW hash, hash = InitialHashes(g, color, first)
    PROVE  /\ hash \in LaneHashes
           /\ \A u \in Nodes : hash[u+1] = FirstHash(color[u], Cardinality(g[u]), first)
<1> DEFINE degree(u) == IF u \in Nodes THEN Cardinality(g[u]) ELSE 0
<1>0. LanesOf(16) = 0 .. 15 /\ Nodes = 0 .. N-1 /\ N \in Nat /\ N <= 16
  BY NAssumption DEF LanesOf, Nodes, Fits
<1>1. \A i \in 1 .. 16 : i-1 \in 0 .. 15 /\ color[i-1] \in 0 .. 15 /\ color[i-1] % 16 = color[i-1]
  <2> TAKE i \in 1 .. 16
  <2>1. i-1 \in 0 .. 15
    OBVIOUS
  <2>2. color[i-1] \in 0 .. 15
    BY <1>0, <2>1 DEF LaneColored
  <2> QED BY <2>1, <2>2
<1>2. \A u : degree(u) \in 0 .. 15
  BY DegreesFit
<1>3. hash = [i \in 1 .. 16 |-> FirstHash(color[i-1], degree(i-1), first)]
  <2>1. hash = [i \in 1 .. 16 |-> FirstHash(color[i-1] % 16, degree(i-1), first)]
    BY DEF InitialHashes, FirstHash
  <2> HIDE DEF degree
  <2> QED BY <1>1, <2>1
<1> HIDE DEF degree
<1>4. \A i \in 1 .. 16 : hash[i] = FirstHash(color[i-1], degree(i-1), first) /\ hash[i] \in Words
  BY <1>1, <1>2, <1>3, FirstHashWord
<1>5. ASSUME NEW i \in N+1 .. 16, NEW j \in N+1 .. 16 PROVE hash[i] = hash[j]
  <2>1. i-1 \in N .. 15 /\ j-1 \in N .. 15 /\ i-1 \notin Nodes /\ j-1 \notin Nodes
        /\ i \in 1 .. 16 /\ j \in 1 .. 16
    BY <1>0
  <2>2. color[i-1] = color[j-1]
    BY <2>1 DEF LaneColored
  <2>3. degree(i-1) = degree(j-1)
    BY <2>1 DEF degree
  <2> QED BY <1>4, <2>1, <2>2, <2>3
<1>6. hash \in LaneHashes
  BY <1>3, <1>4, <1>5 DEF LaneHashes
<1>7. ASSUME NEW u \in Nodes PROVE hash[u+1] = FirstHash(color[u], Cardinality(g[u]), first)
  <2>1. u+1 \in 1 .. 16 /\ (u+1)-1 = u
    BY <1>0
  <2>2. degree(u) = Cardinality(g[u])
    BY DEF degree
  <2> QED BY <1>4, <2>1, <2>2
<1> QED BY <1>6, <1>7

NodeHashes(hash) == [v \in Nodes |-> hash[v+1]]

LEMMA HashesAdvance ==
    ASSUME Fits(16), NEW g \in SimpleGraphs, NEW hash \in LaneHashes,
           NEW next, next = NextHashes(g, hash)
    PROVE  /\ next \in LaneHashes
           /\ \A u \in Nodes : next[u+1] = SumOf(NodeHashes(hash), g[u], HashFmix32(hash[u+1]))
<1> DEFINE old == NodeHashes(hash)
           x == [i \in 1 .. N |-> SumOf(old, {v \in Nodes : i-1 \in g[v]}, HashFmix32(hash[i]))]
           y == [i \in 1 .. 16-N |-> HashFmix32(hash[N+i])]
<1>0. Nodes = 0 .. N-1 /\ N \in Nat /\ N <= 16 /\ 16-N \in Nat
  BY NAssumption DEF Nodes, Fits
<1>1. \A i \in 1 .. 16 : hash[i] \in Words /\ HashFmix32(hash[i]) \in Words
  BY FinalizedWord DEF LaneHashes
<1>2. old \in Hashed /\ \A v \in Nodes : old[v] = hash[v+1]
  <2>1. \A v \in Nodes : v+1 \in 1 .. 16
    BY <1>0
  <2> QED BY <1>1, <2>1 DEF NodeHashes, Hashed
<1>3. next = x \o y
  BY DEF NextHashes, NodeHashes
<1> HIDE DEF old
<1>4. \A i \in 1 .. N : i \in 1 .. 16 /\ x[i] \in Words
  <2> TAKE i \in 1 .. N
  <2> DEFINE S == {v \in Nodes : i-1 \in g[v]}
             base == HashFmix32(hash[i])
  <2>0. i \in 1 .. 16
    BY <1>0
  <2>1. i \in 1 .. 16 /\ base \in Words
    BY <1>1, <2>0
  <2>2. x[i] = SumOf(old, S, base)
    OBVIOUS
  <2> HIDE DEF S, base, x
  <2>3. SumOf(old, S, base) \in Words
    BY <1>2, <2>1, SumIsWord
  <2> QED BY <2>1, <2>2, <2>3
<1>5. \A i \in 1 .. 16-N : N+i \in 1 .. 16 /\ y[i] = HashFmix32(hash[N+i]) /\ y[i] \in Words
  <2> TAKE i \in 1 .. 16-N
  <2>1. N+i \in 1 .. 16
    BY <1>0
  <2>2. y[i] = HashFmix32(hash[N+i])
    OBVIOUS
  <2> QED BY <1>1, <2>1, <2>2
<1>6. x = [i \in 1 .. N |-> x[i]] /\ y = [i \in 1 .. 16-N |-> y[i]]
  OBVIOUS
<1>7. \A u \in Nodes : x[u+1] = SumOf(old, g[u], HashFmix32(hash[u+1]))
  <2> TAKE u \in Nodes
  <2>1. u+1 \in 1 .. N /\ (u+1)-1 = u
    BY <1>0
  <2>2. {v \in Nodes : u \in g[v]} = g[u]
    BY DEF SimpleGraphs
  <2> QED BY <2>1, <2>2
<1> HIDE DEF x, y
<1>8. x \in Seq(Words) /\ Len(x) = N
  <2>1. x \in [1 .. N -> Words]
    BY <1>4, <1>6
  <2> QED BY <1>0, <2>1
<1>9. y \in Seq(Words) /\ Len(y) = 16-N
  <2>1. y \in [1 .. 16-N -> Words]
    BY <1>5, <1>6
  <2> QED BY <1>0, <2>1
<1>10. /\ next \in Seq(Words) /\ Len(next) = 16
       /\ \A i \in 1 .. 16 : next[i] = IF i <= N THEN x[i] ELSE y[i - N]
  <2>1. N + (16-N) = 16
    BY <1>0
  <2>2. /\ x \o y \in Seq(Words) /\ Len(x \o y) = Len(x) + Len(y)
        /\ \A i \in 1 .. Len(x) + Len(y) : (x \o y)[i] = IF i <= Len(x) THEN x[i] ELSE y[i - Len(x)]
    BY <1>8, <1>9, ConcatProperties
  <2>3. Len(x) + Len(y) = 16 /\ Len(x) = N
    BY <1>8, <1>9, <2>1
  <2> QED BY <1>3, <2>2, <2>3
<1>11. next \in [1 .. 16 -> Words]
  <2>1. next \in [1 .. Len(next) -> Words]
    BY <1>10, LenProperties
  <2> QED BY <1>10, <2>1
<1>12. \A i \in N+1 .. 16 : next[i] = HashFmix32(hash[i])
  <2> TAKE i \in N+1 .. 16
  <2>1. i \in 1 .. 16 /\ ~(i <= N) /\ i - N \in 1 .. 16-N /\ N + (i - N) = i
    BY <1>0
  <2> QED BY <1>5, <1>10, <2>1
<1>13. next \in LaneHashes
  <2>1. \A i, j \in N+1 .. 16 : hash[i] = hash[j]
    BY DEF LaneHashes
  <2>2. \A i, j \in N+1 .. 16 : next[i] = next[j]
    BY <1>12, <2>1
  <2> QED BY <1>11, <2>2 DEF LaneHashes
<1>14. \A u \in Nodes : next[u+1] = SumOf(old, g[u], HashFmix32(hash[u+1]))
  <2> TAKE u \in Nodes
  <2>1. u+1 \in 1 .. 16 /\ u+1 <= N
    BY <1>0
  <2> QED BY <1>7, <1>10, <2>1
<1> QED BY <1>13, <1>14 DEF old

\* What the fingerprint takes of a hash.
Upper(w) == w[1] % 4096
Lower(w) == w[2] \div 16

KeyHigh(hash, color) == [u \in LanesOf(16) |-> Upper(hash[u+1]) + (color[u] % 16) * 4096]
KeyLow(hash) == [u \in LanesOf(16) |-> Lower(hash[u+1])]

Key16(hash, color) == NodeKeys(KeyHigh(hash, color), KeyLow(hash))

LEMMA HashParts ==
    ASSUME NEW w \in Words
    PROVE  Upper(w) \in 0 .. 4095 /\ Lower(w) \in Nat
<1> DEFINE x == w[1]
           y == w[2]
<1>1. x \in 0 .. H-1 /\ y \in 0 .. H-1
  BY WordParts
<1> HIDE DEF x, y
<1>2. x \in Nat /\ y \in Nat
  BY <1>1, HalfSize
<1>3. x % 4096 \in 0 .. 4095 /\ y \div 16 \in Nat
  BY <1>2
<1> QED BY <1>3 DEF Upper, Lower, x, y

LEMMA LaneHash ==
    ASSUME NEW hash \in LaneHashes, NEW u \in LanesOf(16)
    PROVE  Upper(hash[u+1]) \in 0 .. 4095 /\ Lower(hash[u+1]) \in Nat
<1>1. u+1 \in 1 .. 16
  BY DEF LanesOf
<1>2. hash[u+1] \in Words
  BY <1>1 DEF LaneHashes
<1> QED BY <1>2, HashParts

LEMMA Lanes16 ==
    ASSUME Fits(16), NEW hash \in LaneHashes, NEW color, LaneColored(16, color)
    PROVE  /\ LaneKeys(16, KeyHigh(hash, color), KeyLow(hash))
           /\ Fingerprints16(hash, color) = LaneWords(16, KeyHigh(hash, color), KeyLow(hash))
           /\ KeysKeep(color, Key16(hash, color))
<1> DEFINE a == KeyHigh(hash, color)
           b == KeyLow(hash)
           low(u) == Upper(hash[u+1])
<1>0. LanesOf(16) = 0 .. 15 /\ Nodes = 0 .. N-1 /\ N \in Nat /\ N <= 16
  BY NAssumption DEF LanesOf, Nodes, Fits
<1>1. \A u \in LanesOf(16) : color[u] \in 0 .. 15 /\ color[u] % 16 = color[u]
  <2> TAKE u \in LanesOf(16)
  <2>1. color[u] \in 0 .. 15
    BY DEF LaneColored
  <2> QED BY <2>1
<1>2. \A u \in LanesOf(16) : low(u) \in 0 .. 4095 /\ b[u] \in Nat /\ b[u] = Lower(hash[u+1])
  BY LaneHash DEF KeyLow
<1>3. \A u \in LanesOf(16) : a[u] = low(u) + color[u] * 4096
  BY <1>1 DEF KeyHigh
<1>4. a = [u \in LanesOf(16) |-> a[u]] /\ b = [u \in LanesOf(16) |-> b[u]]
  BY DEF KeyHigh, KeyLow
<1>5. Fingerprints16(hash, color) = LaneWords(16, a, b)
  <2>1. Fingerprints16(hash, color) =
           [u \in 0 .. 15 |-> <<(hash[u+1][1] % 4096) + (color[u] % 16) * 4096,
                                (hash[u+1][2] \div 16) * 16 + u>>]
    BY DEF Fingerprints16
  <2>2. LaneWords(16, a, b) = [u \in 0 .. 15 |-> <<a[u], 16 * b[u] + u>>]
    BY <1>0 DEF LaneWords
  <2>3. \A u \in 0 .. 15 : <<(hash[u+1][1] % 4096) + (color[u] % 16) * 4096,
                             (hash[u+1][2] \div 16) * 16 + u>> = <<a[u], 16 * b[u] + u>>
    <3> TAKE u \in 0 .. 15
    <3>1. u \in LanesOf(16)
      BY <1>0
    <3>2. a[u] = (hash[u+1][1] % 4096) + (color[u] % 16) * 4096
      BY <3>1 DEF KeyHigh, Upper
    <3>3. b[u] \in Nat /\ b[u] = hash[u+1][2] \div 16
      <4> HIDE DEF b
      <4> QED BY <1>2, <3>1 DEF Lower
    <3> DEFINE c == b[u]
    <3>4. c * 16 + u = 16 * c + u
      <4>1. c \in Nat
        BY <3>3
      <4> HIDE DEF c
      <4> QED BY <4>1
    <3> HIDE DEF a, b, c
    <3>5. (hash[u+1][2] \div 16) * 16 + u = 16 * b[u] + u
      BY <3>3, <3>4 DEF c
    <3> QED BY <3>2, <3>5
  <2> HIDE DEF a, b
  <2> QED BY <2>1, <2>2, <2>3
<1> HIDE DEF a, b, low
<1>6. ASSUME NEW u \in LanesOf(16), NEW v \in LanesOf(16), color[u] < color[v] PROVE a[u] < a[v]
  <2>1. color[u] \in 0 .. 15 /\ color[v] \in 0 .. 15
        /\ low(u) \in 0 .. 4095 /\ low(v) \in 0 .. 4095
    BY <1>1, <1>2
  <2>2. a[u] = low(u) + color[u] * 4096 /\ a[v] = low(v) + color[v] * 4096
    BY <1>3
  <2> DEFINE c == color[u]
             d == color[v]
             x == low(u)
             y == low(v)
  <2>3. c \in Int /\ d \in Int /\ c < d /\ x \in 0 .. 4095 /\ y \in 0 .. 4095
    BY <1>6, <2>1
  <2> HIDE DEF c, d, x, y
  <2>4. x + c * 4096 < y + d * 4096
    BY <2>3
  <2> QED BY <2>2, <2>4 DEF c, d, x, y
<1>7. \A u \in LanesOf(16) : a[u] \in Int
  <2> TAKE u \in LanesOf(16)
  <2> DEFINE c == color[u]
             x == low(u)
  <2>1. a[u] = x + c * 4096
    BY <1>3
  <2>2. color[u] \in 0 .. 15
    BY <1>1
  <2>3. low(u) \in 0 .. 4095
    BY <1>2
  <2>4. c \in Int /\ x \in Int
    BY <2>2, <2>3
  <2> HIDE DEF c, x
  <2> QED BY <2>1, <2>4
<1>8. \A u \in N .. 15 : u \in LanesOf(16) /\ u+1 \in N+1 .. 16
  <2> TAKE u \in N .. 15
  <2>1. N \in Nat /\ LanesOf(16) = 0 .. 15
    BY <1>0
  <2>2. u \in 0 .. 15
    BY <2>1
  <2>3. u+1 \in N+1 .. 16
    BY <2>1
  <2> QED BY <2>1, <2>2, <2>3
<1>9. \A u \in Nodes : u \in LanesOf(16)
  BY <1>0
<1>10. LaneKeys(16, a, b)
  <2>1. a \in [LanesOf(16) -> Int] /\ b \in [LanesOf(16) -> Nat]
    BY <1>2, <1>4, <1>7
  <2>2. ASSUME NEW u \in Nodes, NEW v \in N .. 16-1 PROVE a[u] < a[v]
    <3>1. color[u] < color[v]
      BY DEF LaneColored
    <3>2. v \in N .. 15
      OBVIOUS
    <3> QED BY <1>6, <1>8, <1>9, <3>1, <3>2
  <2>3. ASSUME NEW u \in N .. 16-1, NEW v \in N .. 16-1 PROVE a[u] = a[v] /\ b[u] = b[v]
    <3>1. color[u] = color[v]
      BY DEF LaneColored
    <3>2. u \in N .. 15 /\ v \in N .. 15
      OBVIOUS
    <3>3. hash[u+1] = hash[v+1]
      BY <1>8, <3>2 DEF LaneHashes
    <3>4. low(u) = low(v)
      BY <3>3 DEF low
    <3>5. a[u] = a[v]
      BY <1>3, <1>8, <3>1, <3>2, <3>4
    <3> QED BY <1>2, <1>8, <3>2, <3>3, <3>5
  <2> QED BY <2>1, <2>2, <2>3 DEF LaneKeys
<1>11. KeysKeep(color, Key16(hash, color))
  <2> SUFFICES ASSUME NEW u \in Nodes, NEW v \in Nodes, color[u] < color[v]
               PROVE  Below(Key16(hash, color)[u], Key16(hash, color)[v])
    BY DEF KeysKeep
  <2>1. a[u] < a[v]
    BY <1>6, <1>9
  <2>2. Key16(hash, color)[u] = <<a[u], b[u]>> /\ Key16(hash, color)[v] = <<a[v], b[v]>>
    BY DEF Key16, NodeKeys, a, b
  <2> QED BY <2>1, <2>2 DEF Below
<1> QED BY <1>5, <1>10, <1>11 DEF a, b

IsState16(n) ==
    /\ n = [color |-> n.color, label |-> n.label, starts |-> n.starts, hash |-> n.hash,
            done |-> n.done]
    /\ n.done \in BOOLEAN /\ n.hash \in LaneHashes

LEMMA Took16 ==
    ASSUME Fits(16), NEW g \in SimpleGraphs, NEW s, IsState16(s), LaneColored(16, s.color),
           NEW next, next = NextHashes(g, s.hash), NEW n, n = Round16(g, s)
    PROVE  /\ Took(16, s, Key16(next, s.color), n)
           /\ IsState16(n)
           /\ ~n.done => n.hash = next
<1> DEFINE a == KeyHigh(next, s.color)
           b == KeyLow(next)
           key == Key16(next, s.color)
           sorted == SortUp(16, LaneWords(16, a, b))
           label == [p \in LanesOf(16) |-> LaneOf(sorted[p], 16)]
           starts == NewClasses(sorted, 16)
           r == ColorsFromMask16(starts)
           color == ColorsByNode(16, label, r)
<1>0. LanesOf(16) = 0 .. 15 /\ Nodes = 0 .. N-1 /\ N \in Nat /\ N <= 16
  BY NAssumption DEF LanesOf, Nodes, Fits
<1>1. s.hash \in LaneHashes /\ next \in LaneHashes
  BY HashesAdvance DEF IsState16
<1>2. /\ LaneKeys(16, a, b)
      /\ Fingerprints16(next, s.color) = LaneWords(16, a, b)
  BY <1>1, Lanes16
<1>3. SortBatch(16, TRUE, Fingerprints16(next, s.color)) = sorted
  BY <1>2 DEF SortUp
<1> HIDE DEF sorted
<1>4. n = IF starts = s.starts
          THEN [s EXCEPT !.done = TRUE]
          ELSE [color |-> color, label |-> label, starts |-> starts, hash |-> next,
                done |-> starts = EnabledRanks(16)]
  BY <1>0, <1>3 DEF Round16
<1>5. Sorts(16, key, label, starts)
  <2> HIDE DEF a, b
  <2> QED BY <1>2, RoundSorts DEF sorted, Key16, a, b
<1>6. starts \subseteq 1 .. 15
  BY <1>5 DEF Sorts, StartsAt
<1> HIDE DEF starts, label
<1>8. RankColors(16, starts, r)
  BY <1>6, Mask16Colors
<1> HIDE DEF r, key
<1>9. Recolored(16, color, label, r, N)
  <2>1. color = ColorsByNode(16, label, r)
    OBVIOUS
  <2> HIDE DEF color
  <2>2. color \in [LanesOf(16) -> Int] /\ \A v \in N .. 16-1 : color[v] = N
    BY <1>5, <1>8, <2>1, NewColors
  <2>3. \A v \in N .. 16-1 : N \in N .. 15
    BY <1>0
  <2>4. color = [u \in LanesOf(16) |-> color[u]]
    BY <2>2
  <2>5. \A u \in Nodes : color[u] = ColorsByNode(16, label, r)[u]
    BY <2>1
  <2> QED BY <2>2, <2>3, <2>4, <2>5 DEF Recolored
<1> HIDE DEF color
<1>10. CASE starts = s.starts
  <2>1. n = [s EXCEPT !.done = TRUE]
    BY <1>4, <1>10
  <2>2. n = [color |-> s.color, label |-> s.label, starts |-> s.starts, hash |-> s.hash,
             done |-> TRUE]
    BY <2>1 DEF IsState16
  <2>3. n.color = s.color /\ n.starts = s.starts /\ n.done /\ n.label \in {label, s.label}
    BY <2>2
  <2>4. IsState16(n)
    BY <1>1, <2>2 DEF IsState16
  <2>5. Took(16, s, key, n)
    BY <1>5, <1>8, <1>10, <2>3 DEF Took
  <2> QED BY <2>3, <2>4, <2>5 DEF key
<1>11. CASE starts # s.starts
  <2> DEFINE e == starts = EnabledRanks(16)
  <2>1. n = [color |-> color, label |-> label, starts |-> starts, hash |-> next, done |-> e]
        /\ e \in BOOLEAN
    BY <1>4, <1>11
  <2> HIDE DEF e
  <2>2. n.color = color /\ n.label = label /\ n.starts = starts /\ n.hash = next
    BY <2>1
  <2>3. n.done <=> starts = EnabledRanks(16)
    <3>1. n.done = e
      BY <2>1
    <3>2. n.done <=> e
      BY <3>1
    <3> QED BY <3>2 DEF e
  <2>4. IsState16(n)
    BY <1>1, <2>1 DEF IsState16
  <2>5. Took(16, s, key, n)
    BY <1>5, <1>8, <1>9, <1>11, <2>2, <2>3 DEF Took
  <2> QED BY <2>2, <2>4, <2>5 DEF key
<1> QED BY <1>10, <1>11

States16 ==
    {s \in [color : [LanesOf(16) -> 0 .. 15], label : {<<>>} \cup [LanesOf(16) -> LanesOf(16)],
            starts : SUBSET (0 .. 15), hash : LaneHashes, done : BOOLEAN] : Running(16, s)}

Opening16(g, k, first) ==
    [color |-> LaneColors(k.color, 16), label |-> <<>>, starts |-> {0},
     hash |-> InitialHashes(g, LaneColors(k.color, 16), first), done |-> FALSE]

Next16(g, s) == IF s.done THEN s ELSE Round16(g, s)

Loop16(g) == [s \in States16 |-> Next16(g, s)]

\* The keys a round sorts by.
RoundKey16(g, s) == Key16(NextHashes(g, s.hash), s.color)

LEMMA Round16Steps ==
    ASSUME Fits(16), NEW g \in SimpleGraphs, NEW s \in States16
    PROVE  /\ Took(16, s, RoundKey16(g, s), Round16(g, s))
           /\ Stepped(16, s, RoundKey16(g, s), Round16(g, s))
           /\ Next16(g, s) \in States16
           /\ ~Round16(g, s).done => Round16(g, s).hash = NextHashes(g, s.hash)
<1> DEFINE n == Round16(g, s)
           next == NextHashes(g, s.hash)
           key == Key16(next, s.color)
<1>1. IsState16(s) /\ Running(16, s) /\ LaneColored(16, s.color) /\ s.hash \in LaneHashes
  BY DEF States16, Running, IsState16
<1>2. /\ Took(16, s, key, n) /\ IsState16(n)
      /\ ~n.done => n.hash = next
  BY <1>1, Took16
<1>3. KeysKeep(s.color, key)
  BY <1>1, HashesAdvance, Lanes16
<1>4. Stepped(16, s, key, n)
  <2> HIDE DEF n, key
  <2> QED BY <1>1, <1>2, <1>3, TookSteps
<1>5. n \in States16
  <2> HIDE DEF n, key
  <2>1. Settled(16, n)
    BY <1>4 DEF Stepped
  <2>2. n.color \in [LanesOf(16) -> 0 .. 15] /\ Running(16, n)
    BY <2>1 DEF Settled, LaneColored, Running
  <2>3. n.label \in [LanesOf(16) -> LanesOf(16)]
    BY <2>1 DEF Settled, NodesFirst, IsPermutation
  <2>4. n.starts \in SUBSET (0 .. 15)
    BY <2>1 DEF Settled, StartsAt
  <2> QED BY <1>2, <2>2, <2>3, <2>4 DEF States16, IsState16
<1> QED BY <1>2, <1>4, <1>5 DEF Next16, RoundKey16

LEMMA Loop16Taken ==
    ASSUME Fits(16), NEW g \in SimpleGraphs, NEW k \in Colorings, NEW first \in BOOLEAN
    PROVE  \E w : Loop(N+1, States16, Opening16(g, k, first), Loop16(g), w)
                 /\ Avx16Final(g, k, first) = w[N+1]
<1> DEFINE n == N+1
           start == Opening16(g, k, first)
           V == States16
           R == Loop16(g)
           Solves(w) == w = [r \in 0 .. N+1 |->
                               IF r = 0 THEN [color |-> LaneColors(k.color, 16), label |-> <<>>,
                                              starts |-> {0},
                                              hash |-> InitialHashes(g, LaneColors(k.color, 16),
                                                                     first),
                                              done |-> FALSE]
                               ELSE LET s == w[r-1] IN IF s.done THEN s ELSE Round16(g, s)]
           after == CHOOSE w : Solves(w)
<1>0. n \in Nat
  BY NAssumption
<1>1. start \in V
  <2> DEFINE color == LaneColors(k.color, 16)
             hash == InitialHashes(g, color, first)
  <2>1. LaneColored(16, color)
    BY NodesColored
  <2>2. start = [color |-> color, label |-> <<>>, starts |-> {0}, hash |-> hash, done |-> FALSE]
    BY DEF Opening16
  <2> HIDE DEF color
  <2>3. hash \in LaneHashes
    BY <2>1, OpeningHashes
  <2>4. color \in [LanesOf(16) -> 0 .. 15]
    BY <2>1 DEF LaneColored
  <2> HIDE DEF hash
  <2> QED BY <2>1, <2>2, <2>3, <2>4 DEF States16, Running
<1>2. R \in [V -> V] /\ \A s \in V : R[s] = Next16(g, s)
  <2>1. \A s \in V : Next16(g, s) \in V
    BY Round16Steps
  <2> HIDE DEF V
  <2> QED BY <2>1 DEF Loop16, V
<1>3. \A w : Solves(w) <=> w = [r \in 0 .. n |-> IF r = 0 THEN start ELSE Next16(g, w[r-1])]
  BY DEF Opening16, Next16
<1> HIDE DEF V, R, start, n
<1>4. PICK w : Loop(n, V, start, R, w)
  BY <1>0, <1>1, <1>2, LoopExists
<1>5. w \in [0 .. n -> V] /\ w[0] = start /\ \A i \in 1 .. n : w[i] = R[w[i-1]]
  BY <1>4 DEF Loop
<1>6. \A i \in 1 .. n : w[i] = Next16(g, w[i-1])
  <2> TAKE i \in 1 .. n
  <2>1. i-1 \in 0 .. n
    BY <1>0
  <2>2. w[i-1] \in V
    BY <1>5, <2>1
  <2> QED BY <1>2, <1>5, <2>2
<1>7. w = [r \in 0 .. n |-> IF r = 0 THEN start ELSE Next16(g, w[r-1])]
  <2>1. \A r \in 0 .. n : w[r] = IF r = 0 THEN start ELSE Next16(g, w[r-1])
    <3> TAKE r \in 0 .. n
    <3>1. r = 0 \/ r \in 1 .. n
      BY <1>0
    <3> QED BY <1>5, <1>6, <3>1
  <2> QED BY <1>5, <2>1
<1>8. Solves(w)
  BY <1>3, <1>7
<1>9. Solves(after)
  <2> HIDE DEF Solves
  <2> QED BY <1>8
<1>10. Avx16Final(g, k, first) = after[n]
  BY DEF Avx16Final, Iterated, n
<1> HIDE DEF after
<1>11. after = [r \in 0 .. n |-> IF r = 0 THEN start ELSE Next16(g, after[r-1])]
  <2> HIDE DEF Solves
  <2> QED BY <1>3, <1>9
<1>12. Loop(n, V, start, R, after)
  <2>1. after = [i \in 0 .. n |-> after[i]]
    BY <1>11
  <2>2. after[0] = start
    BY <1>0, <1>11
  <2>3. \A i \in 1 .. n : after[i] = Next16(g, after[i-1])
    <3> TAKE i \in 1 .. n
    <3>1. i \in 0 .. n /\ i # 0
      BY <1>0
    <3> QED BY <1>11, <3>1
  <2>4. \A i \in 1 .. n : after[i-1] \in V => after[i] = R[after[i-1]]
    BY <1>2, <2>3
  <2> QED BY <1>0, <1>1, <1>2, <2>1, <2>2, <2>4, LoopStays
<1> QED BY <1>10, <1>12 DEF n, V, start, R

LEMMA Loop16Walks ==
    ASSUME Fits(16), NEW g \in SimpleGraphs, NEW k \in Colorings, NEW first \in BOOLEAN,
           NEW w, Loop(N+1, States16, Opening16(g, k, first), Loop16(g), w)
    PROVE  /\ Walks(16, w)
           /\ \A i \in 1 .. N+1 : w[i-1] \in States16 /\ w[i] = Next16(g, w[i-1])
<1> DEFINE n == N+1
           V == States16
<1>0. n \in Nat
  BY NAssumption
<1>1. /\ w \in [0 .. n -> V]
      /\ w[0] = Opening16(g, k, first)
      /\ \A i \in 1 .. n : w[i] = Loop16(g)[w[i-1]]
  BY DEF Loop
<1> HIDE DEF n, V
<1>2. \A i \in 1 .. n : w[i-1] \in V /\ w[i] = Next16(g, w[i-1])
  <2> TAKE i \in 1 .. n
  <2>1. i-1 \in 0 .. n
    BY <1>0
  <2>2. w[i-1] \in V
    BY <1>1, <2>1
  <2> QED BY <1>1, <2>2 DEF Loop16, V
<1>3. ASSUME NEW i \in 1 .. n PROVE WalkStep(16, w[i-1], w[i])
  <2> DEFINE s == w[i-1]
  <2>1. s \in States16 /\ w[i] = Next16(g, s)
    BY <1>2 DEF V
  <2> HIDE DEF s
  <2>2. Stepped(16, s, RoundKey16(g, s), Round16(g, s))
    BY <2>1, Round16Steps
  <2>3. WalkStep(16, s, w[i])
    BY <2>1, <2>2 DEF WalkStep, Next16
  <2> QED BY <2>3 DEF s
<1>4. w[0].starts = {0} /\ ~w[0].done
  BY <1>1 DEF Opening16
<1> QED BY <1>2, <1>3, <1>4 DEF Walks, n, V

\* The state at the end.
Ended16(k, f) == f.done /\ Settled(16, f) /\ NodesKeepOrder(k.color, f.color)

LEMMA Avx16Ends ==
    ASSUME Fits(16), NEW g \in SimpleGraphs, NEW k \in Colorings, NEW first \in BOOLEAN
    PROVE  Ended16(k, Avx16Final(g, k, first))
<1> DEFINE f == Avx16Final(g, k, first)
<1>1. PICK w : Loop(N+1, States16, Opening16(g, k, first), Loop16(g), w) /\ f = w[N+1]
  BY Loop16Taken
<1>2. /\ Walks(16, w)
      /\ \A i \in 1 .. N+1 : w[i-1] \in States16 /\ w[i] = Next16(g, w[i-1])
  BY <1>1, Loop16Walks
<1>3. PICK i \in 1 .. N+1 : LastRound(w, i)
  BY <1>2, WalkEnds
<1> DEFINE s == w[i-1]
<1>4. s \in States16 /\ ~s.done /\ f.done /\ f = Next16(g, s)
  BY <1>1, <1>2, <1>3 DEF LastRound
<1>5. w[0] = Opening16(g, k, first)
  BY <1>1 DEF Loop
<1> HIDE DEF s, f
<1>6. f = Round16(g, s)
  BY <1>4 DEF Next16
<1>7. Stepped(16, s, RoundKey16(g, s), f)
  BY <1>4, <1>6, Round16Steps
<1>8. NodesKeepOrder(k.color, f.color)
  <2>1. N+1 \in 0 .. N+1
    BY NAssumption
  <2>2. NodesKeepOrder(w[0].color, f.color)
    BY <1>1, <1>2, <2>1, WalkKeepsOrder
  <2>3. \A u \in Nodes : w[0].color[u] = k.color[u]
    <3>1. w[0].color = LaneColors(k.color, 16)
      BY <1>5 DEF Opening16
    <3> QED BY <3>1, NodesColored
  <2> QED BY <2>2, <2>3 DEF NodesKeepOrder
<1>9. Ended16(k, f)
  BY <1>4, <1>7, <1>8 DEF Ended16, Stepped
<1> QED BY <1>9 DEF f

-----------------------------------------------------------------------------
(***************************************************************************)
(* The vectorised refinements leave well-formed colorings, with classes in *)
(* the order they had.                                                     *)
(***************************************************************************)
LEMMA Avx8Refines ==
    ASSUME Fits(8), NEW g \in [Nodes -> SUBSET Nodes], NEW k \in Colorings,
           NEW m, m = Avx8Refine(g, k)
    PROVE  WellFormed(m) /\ InOrder(m) /\ KeepsOrder(k, m)
<1> DEFINE f == Avx8Final(g, k)
<1>1. m = Exported(f)
  BY DEF Avx8Refine
<1>2. PICK s : Ended8(g, k, f, s)
  BY Avx8Ends
<1> HIDE DEF f
<1>3. f.done /\ Settled(8, f) /\ NodesKeepOrder(k.color, f.color)
  BY <1>2 DEF Ended8
<1>4. WellFormed(m) /\ InOrder(m) /\ \A u \in Nodes : m.color[u] = f.color[u]
  BY <1>1, <1>3, FinalExported
<1> QED BY <1>3, <1>4 DEF KeepsOrder, NodesKeepOrder

LEMMA Avx16Refines ==
    ASSUME Fits(16), NEW g \in SimpleGraphs, NEW k \in Colorings, NEW first \in BOOLEAN,
           NEW m, m = Avx16Refine(g, k, first)
    PROVE  WellFormed(m) /\ InOrder(m) /\ KeepsOrder(k, m)
<1> DEFINE f == Avx16Final(g, k, first)
<1>1. m = Exported(f)
  BY DEF Avx16Refine
<1>2. Ended16(k, f)
  BY Avx16Ends
<1> HIDE DEF f
<1>3. f.done /\ Settled(16, f) /\ NodesKeepOrder(k.color, f.color)
  BY <1>2 DEF Ended16
<1>4. WellFormed(m) /\ InOrder(m) /\ \A u \in Nodes : m.color[u] = f.color[u]
  BY <1>1, <1>3, FinalExported
<1> QED BY <1>3, <1>4 DEF KeepsOrder, NodesKeepOrder
=============================================================================
