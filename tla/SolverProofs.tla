---------------------------- MODULE SolverProofs ----------------------------
(***************************************************************************)
(* For every graph and number of nodes: the stack of canonize is a path of *)
(* the search tree, and best_leaf_lca is the number of frames it shares    *)
(* with the path of the best leaf, whatever Refine and Compare do.  Then   *)
(* what canonize promises when its parts keep theirs, and that the forms   *)
(* for 8 and 16 nodes stand for the generic ones.                          *)
(***************************************************************************)
EXTENDS SolverProperties, RefineLemmas, SequenceTheorems, FiniteSetTheorems, TLAPS

\* The shapes of the records that the steps update, colorings left open.
IsFrame(f) ==
    /\ f = [coloring |-> f.coloring, vertex |-> f.vertex, col |-> f.col]
    /\ f.vertex \in 0 .. N

IsBest(b) ==
    /\ b = [has_value |-> b.has_value, leaf |-> b.leaf, graph |-> b.graph,
            path |-> b.path, orbits |-> b.orbits, group_size |-> b.group_size]
    /\ b.has_value \in BOOLEAN
    /\ b.path \in Seq(Nat)

IsSequence(s) == \E S : s \in Seq(S)

Shapes ==
    /\ IsSequence(stack)
    /\ \A i \in 1 .. Len(stack) : IsFrame(stack[i])
    /\ IsBest(best)
    /\ lca \in Nat
    /\ pc \in {"start", "select", "scan", "done"}
    /\ pc = "start" => stack = <<>> /\ coloring = input /\ ~best.has_value
    /\ pc = "scan" => Len(stack) > 0

(***************************************************************************)
(* What lca = number of shared frames rests on: below lca the pointers     *)
(* agree with the path; the pointer at lca never falls behind it, and is   *)
(* strictly ahead as soon as the search has descended from there.          *)
(***************************************************************************)
LcaInv ==
    best.has_value =>
        /\ lca <= Len(stack) /\ lca <= Len(best.path)
        /\ \A j \in 1 .. lca-1 : stack[j].vertex = best.path[j]
        /\ lca = 0 => Len(stack) = 0 /\ pc = "done"
        /\ lca > 0 => stack[lca].vertex >= best.path[lca]
        /\ lca > 0 /\ (lca < Len(stack) \/ pc = "select")
              => stack[lca].vertex > best.path[lca]

IInv == Shapes /\ FramesArePath /\ LcaInv

-----------------------------------------------------------------------------
(***************************************************************************)
(* What the three operations on the stack do to its frames.                *)
(***************************************************************************)

\* Raising the pointer of the top frame.
LEMMA TopRaised ==
    ASSUME IsSequence(stack), \A i \in 1 .. Len(stack) : IsFrame(stack[i]),
           Len(stack) > 0, NEW v, stack' = WithTopVertex(v)
    PROVE  /\ IsSequence(stack')
           /\ Len(stack') = Len(stack)
           /\ \A i \in 1 .. Len(stack)-1 : stack'[i] = stack[i]
           /\ stack'[Len(stack)] =
                 [coloring |-> Top.coloring, vertex |-> v, col |-> Top.col]
<1>1. PICK S : stack \in Seq(S)
  BY DEF IsSequence
<1> DEFINE n == Len(stack)
           f == [coloring |-> Top.coloring, vertex |-> v, col |-> Top.col]
<1>2. n \in Nat /\ n \in 1 .. n /\ DOMAIN stack = 1 .. n
  BY <1>1
<1>3. [stack[n] EXCEPT !.vertex = v] = f
  BY <1>2 DEF IsFrame, Top
<1>4. stack' = [stack EXCEPT ![n] = f]
  BY <1>3 DEF WithTopVertex
<1> HIDE DEF f
<1>5. stack' \in Seq(S \cup {f})
  BY <1>1, <1>2, <1>4
<1>6. IsSequence(stack')
  BY <1>5 DEF IsSequence
<1>7. /\ Len(stack') = Len(stack)
      /\ \A i \in 1 .. n-1 : stack'[i] = stack[i]
      /\ stack'[n] = f
  BY <1>1, <1>2, <1>4
<1> QED
  BY <1>6, <1>7 DEF f

\* Popping to a level.
LEMMA Popped ==
    ASSUME IsSequence(stack), NEW level \in 0 .. Len(stack),
           stack' = SubSeq(stack, 1, level)
    PROVE  /\ IsSequence(stack')
           /\ Len(stack') = level
           /\ \A i \in 1 .. level : stack'[i] = stack[i]
<1>1. PICK S : stack \in Seq(S)
  BY DEF IsSequence
<1>2. stack' \in Seq(S) /\ Len(stack') = level
  BY <1>1
<1>3. \A i \in 1 .. level : stack'[i] = stack[i]
  BY <1>1
<1> QED
  BY <1>2, <1>3 DEF IsSequence

\* Pushing a frame.
LEMMA Pushed ==
    ASSUME IsSequence(stack), NEW f, stack' = Append(stack, f)
    PROVE  /\ IsSequence(stack')
           /\ Len(stack) \in Nat
           /\ Len(stack') = Len(stack) + 1
           /\ \A i \in 1 .. Len(stack) : stack'[i] = stack[i]
           /\ stack'[Len(stack) + 1] = f
<1>1. PICK S : stack \in Seq(S)
  BY DEF IsSequence
<1>2. stack \in Seq(S \cup {f}) /\ f \in S \cup {f}
  BY <1>1
<1> QED
  BY <1>2, AppendProperties DEF IsSequence

\* A sequence has a length, and an empty one has length 0.
LEMMA SequenceLength ==
    ASSUME IsSequence(stack)
    PROVE  /\ Len(stack) \in Nat
           /\ stack = <<>> <=> Len(stack) = 0
<1>1. PICK S : stack \in Seq(S)
  BY DEF IsSequence
<1> QED
  BY <1>1, EmptySeq

-----------------------------------------------------------------------------
\* The initial state satisfies the invariant.
LEMMA InitIInv == Init => IInv
<1> SUFFICES ASSUME Init PROVE IInv
  OBVIOUS
<1>1. IsSequence(stack) /\ Len(stack) = 0
  <2>1. <<>> \in Seq({})
    BY EmptySeq
  <2> QED
    BY <2>1, EmptySeq DEF Init, IsSequence
<1>2. IsBest(best) /\ ~best.has_value
  BY EmptySeq DEF Init, NoLeaf, IsBest
<1>3. Shapes
  BY <1>1, <1>2 DEF Init, Shapes
<1>4. FramesArePath
  BY <1>1 DEF Init, FramesArePath
<1>5. LcaInv
  BY <1>2 DEF LcaInv
<1> QED
  BY <1>3, <1>4, <1>5 DEF IInv

\* The path copied from the stack has the pointers of the frames.
LEMMA PathCopied ==
    ASSUME Shapes
    PROVE  /\ Path \in Seq(Nat)
           /\ Len(Path) = Len(stack)
           /\ \A i \in 1 .. Len(stack) : Path[i] = stack[i].vertex
<1>1. Len(stack) \in Nat
  BY SequenceLength DEF Shapes
<1>2. \A i \in 1 .. Len(stack) : stack[i].vertex \in Nat
  <2>1. \A i \in 1 .. Len(stack) : stack[i].vertex \in 0 .. N
    BY Zenon DEF Shapes, IsFrame
  <2> QED
    BY <2>1, NAssumption
<1>3. Path \in [1 .. Len(stack) -> Nat]
  BY <1>2 DEF Path
<1> QED
  BY <1>1, <1>3 DEF Path

-----------------------------------------------------------------------------
(***************************************************************************)
(* FramesArePath with its variables as parameters, so that it can be said  *)
(* of the frames before and after a step.                                  *)
(***************************************************************************)
TreePath(g, k, s) ==
    \A i \in 1 .. Len(s) :
        /\ s[i].coloring =
              IF i = 1 THEN Refine(g, k)
              ELSE Refine(g, Individualize(s[i-1].coloring, s[i-1].vertex - 1))
        /\ ~IsDiscrete(s[i].coloring)
        /\ s[i].col = SelectFirst(s[i].coloring)

LEMMA PathByParts ==
    FramesArePath <=>
        /\ TreePath(graph, input, stack)
        /\ pc = "scan" => coloring = Top.coloring
        /\ pc = "select" =>
              coloring = IF stack = <<>> THEN Refine(graph, input)
                         ELSE Refine(graph, Individualize(Top.coloring, Top.vertex - 1))
  BY DEF FramesArePath, TreePath, Root, Child

\* The same of the state after a step.
LEMMA NextPathByParts ==
    FramesArePath' <=>
        /\ TreePath(graph', input', stack')
        /\ pc' = "scan" => coloring' = stack'[Len(stack')].coloring
        /\ pc' = "select" =>
              coloring' = IF stack' = <<>> THEN Refine(graph', input')
                          ELSE Refine(graph', Individualize(stack'[Len(stack')].coloring,
                                                    stack'[Len(stack')].vertex - 1))
  BY DEF FramesArePath, TreePath, Root, Child, Top

\* Any frames whose lower part are frames of a path are a path.
LEMMA PathPrefix ==
    ASSUME NEW g, NEW k, NEW s, NEW t, TreePath(g, k, s),
           Len(s) \in Nat, Len(t) \in 0 .. Len(s),
           \A i \in 1 .. Len(t) : t[i] = s[i]
    PROVE  TreePath(g, k, t)
<1> SUFFICES ASSUME NEW i \in 1 .. Len(t)
             PROVE  /\ t[i].coloring =
                          IF i = 1 THEN Refine(g, k)
                          ELSE Refine(g, Individualize(t[i-1].coloring, t[i-1].vertex - 1))
                    /\ ~IsDiscrete(t[i].coloring)
                    /\ t[i].col = SelectFirst(t[i].coloring)
  BY DEF TreePath
<1>1. i \in 1 .. Len(s) /\ t[i] = s[i]
  OBVIOUS
<1>2. i # 1 => i-1 \in 1 .. Len(t) /\ t[i-1] = s[i-1]
  OBVIOUS
<1> QED
  BY <1>1, <1>2 DEF TreePath

(***************************************************************************)
(* Backtracking to a level keeps the frames below it, restores the         *)
(* coloring of the last of them, and ends the search at level 0.           *)
(***************************************************************************)
LEMMA Backtracks ==
    ASSUME Shapes, FramesArePath, NEW level \in 0 .. Len(stack),
           BacktrackTo(level), UNCHANGED <<graph, input>>
    PROVE  /\ IsSequence(stack')
           /\ Len(stack') = level
           /\ \A i \in 1 .. level : stack'[i] = stack[i]
           /\ \A i \in 1 .. level : IsFrame(stack'[i])
           /\ pc' = IF level = 0 THEN "done" ELSE "scan"
           /\ FramesArePath'
<1>1. /\ IsSequence(stack')
      /\ Len(stack') = level
      /\ \A i \in 1 .. level : stack'[i] = stack[i]
  BY Popped DEF Shapes, BacktrackTo
<1>2. Len(stack) \in Nat /\ level \in Nat
  BY SequenceLength DEF Shapes
<1>3. \A i \in 1 .. level : IsFrame(stack'[i])
  BY <1>1, <1>2 DEF Shapes
<1>4. pc' = IF level = 0 THEN "done" ELSE "scan"
  BY DEF BacktrackTo
<1>5. TreePath(graph', input', stack')
  <2>1. TreePath(graph, input, stack)
    BY PathByParts
  <2>2. TreePath(graph, input, stack')
    BY <1>1, <1>2, <2>1, PathPrefix
  <2> QED
    BY <2>2
<1>6. pc' = "scan" => coloring' = stack'[Len(stack')].coloring
  BY <1>1, <1>2, <1>4 DEF BacktrackTo
<1>7. pc' # "select"
  BY <1>4
<1>8. FramesArePath'
  BY <1>5, <1>6, <1>7, NextPathByParts
<1> QED
  BY <1>1, <1>3, <1>4, <1>8

\* A frame is one whatever its coloring and color.
LEMMA FrameBuilt ==
    ASSUME NEW k, NEW v \in 0 .. N, NEW c
    PROVE  IsFrame([coloring |-> k, vertex |-> v, col |-> c])
  BY DEF IsFrame

\* Raising the pointer of the top frame keeps the frames a path.
LEMMA TopRaisedKeepsPath ==
    ASSUME Shapes, FramesArePath, pc = "scan", Top.vertex < N,
           stack' = WithTopVertex(Top.vertex + 1), UNCHANGED <<graph, input>>
    PROVE  /\ IsSequence(stack')
           /\ Len(stack') = Len(stack)
           /\ \A i \in 1 .. Len(stack)-1 : stack'[i] = stack[i]
           /\ stack'[Len(stack)].vertex = Top.vertex + 1
           /\ stack'[Len(stack)].coloring = Top.coloring
           /\ \A i \in 1 .. Len(stack) : IsFrame(stack'[i])
           /\ TreePath(graph', input', stack')
<1> DEFINE n == Len(stack)
<1>1. n \in Nat /\ n > 0
  BY SequenceLength DEF Shapes
<1>2. /\ IsSequence(stack')
      /\ Len(stack') = n
      /\ \A i \in 1 .. n-1 : stack'[i] = stack[i]
      /\ stack'[n] = [coloring |-> Top.coloring, vertex |-> Top.vertex + 1,
                      col |-> Top.col]
  BY <1>1, TopRaised DEF Shapes
<1>3. Top.vertex \in 0 .. N
  <2>1. IsFrame(stack[n])
    BY <1>1 DEF Shapes
  <2> QED
    BY <2>1, Zenon DEF IsFrame, Top
<1>4. /\ stack'[n].vertex = Top.vertex + 1
      /\ stack'[n].coloring = Top.coloring
      /\ stack'[n].col = Top.col
  BY <1>2
<1>5. \A i \in 1 .. n : IsFrame(stack'[i])
  <2>1. IsFrame(stack'[n])
    <3>1. Top.vertex + 1 \in 0 .. N
      BY <1>3, NAssumption
    <3> QED
      BY <1>2, <3>1, FrameBuilt
  <2>2. \A i \in 1 .. n-1 : IsFrame(stack'[i])
    <3>1. \A i \in 1 .. n-1 : IsFrame(stack[i])
      BY <1>1 DEF Shapes
    <3> QED
      BY <1>2, <3>1
  <2> QED
    BY <1>1, <2>1, <2>2
<1>6. TreePath(graph, input, stack)
  BY PathByParts
<1>7. TreePath(graph, input, stack')
  <2> SUFFICES ASSUME NEW i \in 1 .. n
               PROVE  /\ stack'[i].coloring =
                            IF i = 1 THEN Refine(graph, input)
                            ELSE Refine(graph, Individualize(stack'[i-1].coloring,
                                                      stack'[i-1].vertex - 1))
                      /\ ~IsDiscrete(stack'[i].coloring)
                      /\ stack'[i].col = SelectFirst(stack'[i].coloring)
    BY <1>2 DEF TreePath
  <2>1. /\ stack'[i].coloring = stack[i].coloring
        /\ stack'[i].col = stack[i].col
    BY <1>1, <1>2, <1>4 DEF Top
  <2>2. i # 1 => stack'[i-1] = stack[i-1]
    BY <1>1, <1>2
  <2> QED
    BY <1>6, <2>1, <2>2 DEF TreePath
<1> QED
  BY <1>2, <1>4, <1>5, <1>7

\* The best leaf is updated without changing its path.
LEMMA BestUpdated ==
    ASSUME NEW b, IsBest(b), NEW c,
           \/ \E x : c = [b EXCEPT !.orbits = x]
           \/ \E x, y : c = [b EXCEPT !.group_size = x, !.orbits = y]
    PROVE  IsBest(c) /\ c.has_value = b.has_value /\ c.path = b.path
<1>1. CASE \E x : c = [b EXCEPT !.orbits = x]
  <2>1. PICK x : c = [b EXCEPT !.orbits = x]
    BY <1>1
  <2>2. c = [has_value |-> b.has_value, leaf |-> b.leaf, graph |-> b.graph,
             path |-> b.path, orbits |-> x, group_size |-> b.group_size]
    BY <2>1 DEF IsBest
  <2> QED
    BY <2>2 DEF IsBest
<1>2. CASE \E x, y : c = [b EXCEPT !.group_size = x, !.orbits = y]
  <2>1. PICK x, y : c = [b EXCEPT !.group_size = x, !.orbits = y]
    BY <1>2
  <2>2. c = [has_value |-> b.has_value, leaf |-> b.leaf, graph |-> b.graph,
             path |-> b.path, orbits |-> y, group_size |-> x]
    BY <2>1 DEF IsBest
  <2> QED
    BY <2>2 DEF IsBest
<1> QED
  BY <1>1, <1>2

-----------------------------------------------------------------------------
(***************************************************************************)
(* Each action preserves the invariant.                                    *)
(***************************************************************************)
LEMMA InitialRefineKeeps == IInv /\ InitialRefine => IInv'
<1> SUFFICES ASSUME IInv, InitialRefine PROVE IInv'
  OBVIOUS
<1> USE DEF IInv
<1>1. Shapes' /\ stack' = <<>> /\ Len(stack') = 0
  BY SequenceLength DEF InitialRefine, Shapes
<1>2. FramesArePath'
  BY <1>1, NextPathByParts DEF InitialRefine, Shapes, TreePath
<1>3. LcaInv'
  BY DEF InitialRefine, LcaInv, Shapes
<1> QED
  BY <1>1, <1>2, <1>3

\* The new best leaf's path is the stack's: all frames are shared.
LEMMA ReplaceBestKeeps ==
    ASSUME IInv, AtLeaf, ReplaceBest, BacktrackTo(Len(stack)), UNCHANGED <<graph, input>>
    PROVE  IInv'
<1>1. Shapes /\ FramesArePath /\ Len(stack) \in Nat
  BY SequenceLength DEF IInv, Shapes
<1>2. /\ IsSequence(stack')
      /\ Len(stack') = Len(stack)
      /\ \A i \in 1 .. Len(stack) : stack'[i] = stack[i]
      /\ \A i \in 1 .. Len(stack) : IsFrame(stack'[i])
      /\ pc' = IF Len(stack) = 0 THEN "done" ELSE "scan"
      /\ FramesArePath'
  <2>1. Len(stack) \in 0 .. Len(stack)
    BY <1>1
  <2> QED
    BY <1>1, <2>1, Backtracks
<1>3. /\ Path \in Seq(Nat)
      /\ Len(Path) = Len(stack)
      /\ \A i \in 1 .. Len(stack) : Path[i] = stack[i].vertex
  BY <1>1, PathCopied
<1>4. IsBest(best') /\ best'.path = Path /\ lca' = Len(stack)
  BY <1>3, NAssumption DEF ReplaceBest, IsBest
<1>5. Shapes'
  BY <1>1, <1>2, <1>4 DEF Shapes
<1>6. LcaInv'
  <2>1. \A i \in 1 .. Len(stack) : stack'[i].vertex = best'.path[i] /\ stack'[i].vertex \in Nat
    BY <1>2, <1>3, <1>4, ElementOfSeq
  <2> QED
    BY <1>1, <1>2, <1>3, <1>4, <2>1 DEF LcaInv
<1> QED
  BY <1>2, <1>5, <1>6 DEF IInv

\* At a leaf that is not the first the shared path is not empty.
LEMMA SharedAtLeaf ==
    ASSUME IInv, pc \in {"select", "scan"}, best.has_value
    PROVE  lca \in 1 .. Len(stack) /\ Len(stack) \in Nat
  BY SequenceLength DEF IInv, Shapes, LcaInv

\* Backtracking that keeps all shared frames keeps what is shared.
LEMMA BacktrackKeeps ==
    ASSUME IInv, pc \in {"select", "scan"}, NEW level \in 0 .. Len(stack),
           best.has_value => lca <= level,
           BacktrackTo(level), UNCHANGED <<graph, input, lca>>,
           IsBest(best'), best'.has_value = best.has_value, best'.path = best.path
    PROVE  IInv'
<1>1. Shapes /\ FramesArePath /\ LcaInv /\ Len(stack) \in Nat /\ level \in Nat
  BY SequenceLength DEF IInv, Shapes
<1>2. /\ IsSequence(stack')
      /\ Len(stack') = level
      /\ \A i \in 1 .. level : stack'[i] = stack[i]
      /\ \A i \in 1 .. level : IsFrame(stack'[i])
      /\ pc' = IF level = 0 THEN "done" ELSE "scan"
      /\ FramesArePath'
  BY <1>1, Backtracks
<1>3. Shapes'
  BY <1>1, <1>2 DEF Shapes
<1>4. LcaInv'
  <2> SUFFICES ASSUME best.has_value
               PROVE  /\ lca <= level /\ lca <= Len(best.path)
                      /\ \A j \in 1 .. lca-1 : stack'[j].vertex = best.path[j]
                      /\ lca = 0 => level = 0 /\ pc' = "done"
                      /\ lca > 0 => stack'[lca].vertex >= best.path[lca]
                      /\ lca > 0 /\ lca < level => stack'[lca].vertex > best.path[lca]
    BY <1>2 DEF LcaInv
  <2>1. lca \in 1 .. level /\ lca \in Nat
    BY <1>1, SharedAtLeaf
  <2>2. stack'[lca] = stack[lca] /\ \A j \in 1 .. lca-1 : stack'[j] = stack[j]
    BY <1>1, <1>2, <2>1
  <2> QED
    BY <1>1, <2>1, <2>2 DEF LcaInv
<1> QED
  BY <1>2, <1>3, <1>4 DEF IInv

LEMMA FirstLeafKeeps == IInv /\ FirstLeaf => IInv'
  BY ReplaceBestKeeps DEF FirstLeaf

LEMMA BetterLeafKeeps == IInv /\ BetterLeaf => IInv'
  BY ReplaceBestKeeps DEF BetterLeaf

LEMMA EqualLeafKeeps == IInv /\ EqualLeaf => IInv'
<1> SUFFICES ASSUME IInv, EqualLeaf PROVE IInv'
  OBVIOUS
<1>1. lca \in 0 .. Len(stack) /\ lca <= lca /\ pc = "select"
  BY SharedAtLeaf DEF EqualLeaf, AtLeaf
<1>2. IsBest(best') /\ best'.has_value = best.has_value /\ best'.path = best.path
  BY BestUpdated DEF EqualLeaf, IInv, Shapes
<1> QED
  BY <1>1, <1>2, BacktrackKeeps DEF EqualLeaf

LEMMA WorseLeafKeeps == IInv /\ WorseLeaf => IInv'
<1> SUFFICES ASSUME IInv, WorseLeaf PROVE IInv'
  OBVIOUS
<1>1. lca <= Len(stack) /\ Len(stack) \in 0 .. Len(stack) /\ pc = "select"
  BY SharedAtLeaf DEF WorseLeaf, AtLeaf
<1> QED
  BY <1>1, BacktrackKeeps DEF WorseLeaf, IInv, Shapes

LEMMA PushKeeps == IInv /\ Push => IInv'
<1> SUFFICES ASSUME IInv, Push PROVE IInv'
  OBVIOUS
<1> DEFINE n == Len(stack)
           f == [coloring |-> coloring, vertex |-> 0, col |-> SelectFirst(coloring)]
<1>1. Shapes /\ FramesArePath /\ LcaInv /\ pc = "select"
  BY DEF IInv, Push
<1>2. /\ IsSequence(stack')
      /\ n \in Nat
      /\ Len(stack') = n + 1
      /\ \A i \in 1 .. n : stack'[i] = stack[i]
      /\ stack'[n+1] = f
  BY <1>1, Pushed DEF Shapes, Push
<1>3. Shapes'
  <2>1. IsFrame(f)
    BY FrameBuilt, NAssumption
  <2>2. \A i \in 1 .. n+1 : IsFrame(stack'[i])
    BY <1>1, <1>2, <2>1 DEF Shapes
  <2> QED
    BY <1>1, <1>2, <2>2 DEF Shapes, Push
<1>4. TreePath(graph', input', stack')
  <2> SUFFICES ASSUME NEW i \in 1 .. n+1
               PROVE  /\ stack'[i].coloring =
                            IF i = 1 THEN Refine(graph, input)
                            ELSE Refine(graph, Individualize(stack'[i-1].coloring,
                                                      stack'[i-1].vertex - 1))
                      /\ ~IsDiscrete(stack'[i].coloring)
                      /\ stack'[i].col = SelectFirst(stack'[i].coloring)
    BY <1>2 DEF TreePath, Push
  <2>1. TreePath(graph, input, stack)
    BY <1>1, PathByParts
  <2>2. i # 1 => i-1 \in 1 .. n /\ stack'[i-1] = stack[i-1]
    BY <1>2
  <2>3. CASE i \in 1 .. n
    BY <1>2, <2>1, <2>2, <2>3 DEF TreePath
  <2>4. CASE i = n+1
    <3>1. stack'[i].coloring = coloring /\ stack'[i].col = SelectFirst(coloring)
      BY <1>2, <2>4
    <3>2. coloring = IF stack = <<>> THEN Refine(graph, input)
                     ELSE Refine(graph, Individualize(Top.coloring, Top.vertex - 1))
      BY <1>1, PathByParts
    <3>3. stack = <<>> <=> i = 1
      BY <1>1, <1>2, <2>4, SequenceLength DEF Shapes
    <3>4. i # 1 => stack'[i-1] = Top
      BY <1>2, <2>2, <2>4 DEF Top
    <3>5. ~IsDiscrete(coloring)
      BY DEF Push
    <3> QED
      BY <3>1, <3>2, <3>3, <3>4, <3>5
  <2> QED
    BY <1>2, <2>3, <2>4
<1>5. FramesArePath'
  BY <1>2, <1>4, NextPathByParts DEF Push
<1>6. LcaInv'
  <2> SUFFICES ASSUME best.has_value
               PROVE  /\ lca <= n+1 /\ lca <= Len(best.path)
                      /\ \A j \in 1 .. lca-1 : stack'[j].vertex = best.path[j]
                      /\ lca > 0
                      /\ stack'[lca].vertex > best.path[lca]
                      /\ stack'[lca].vertex >= best.path[lca]
    <3>1. best' = best /\ lca' = lca /\ pc' = "scan"
      BY DEF Push
    <3> QED
      BY <1>2, <3>1 DEF LcaInv
  <2>1. lca \in 1 .. n
    BY <1>1, SharedAtLeaf
  <2>2. stack'[lca] = stack[lca] /\ \A j \in 1 .. lca-1 : stack'[j] = stack[j]
    BY <1>2, <2>1
  <2>3. stack[lca].vertex > best.path[lca] /\ stack[lca].vertex >= best.path[lca]
    BY <1>1, <2>1 DEF LcaInv
  <2> QED
    BY <1>1, <1>2, <2>1, <2>2, <2>3 DEF LcaInv
<1> QED
  BY <1>3, <1>5, <1>6 DEF IInv

\* Raising the top pointer keeps what is shared, whatever comes next.
LEMMA TopRaisedKeepsLca ==
    ASSUME IInv, pc = "scan", Top.vertex < N, stack' = WithTopVertex(Top.vertex + 1),
           UNCHANGED <<graph, input, lca>>,
           best'.has_value = best.has_value, best'.path = best.path
    PROVE  LcaInv'
<1> SUFFICES ASSUME best.has_value
             PROVE  /\ lca <= Len(stack) /\ lca <= Len(best.path)
                    /\ \A j \in 1 .. lca-1 : stack'[j].vertex = best.path[j]
                    /\ lca > 0
                    /\ stack'[lca].vertex > best.path[lca]
                    /\ stack'[lca].vertex >= best.path[lca]
  <2>1. Len(stack') = Len(stack)
    BY TopRaisedKeepsPath DEF IInv
  <2> QED
    BY <2>1 DEF LcaInv
<1>1. /\ \A i \in 1 .. Len(stack)-1 : stack'[i] = stack[i]
      /\ stack'[Len(stack)].vertex = Top.vertex + 1
  BY TopRaisedKeepsPath DEF IInv
<1>2. lca \in 1 .. Len(stack) /\ Len(stack) \in Nat
  BY SharedAtLeaf
<1>3. /\ lca <= Len(best.path)
      /\ \A j \in 1 .. lca-1 : stack[j].vertex = best.path[j]
      /\ stack[lca].vertex >= best.path[lca]
      /\ lca < Len(stack) => stack[lca].vertex > best.path[lca]
  BY <1>2 DEF IInv, LcaInv
<1>4. \A j \in 1 .. lca-1 : stack'[j] = stack[j]
  BY <1>1, <1>2
<1>5. best.path[lca] \in Nat /\ stack[lca].vertex \in Nat
  <2>1. best.path \in Seq(Nat)
    BY DEF IInv, Shapes, IsBest
  <2>2. IsFrame(stack[lca])
    BY <1>2 DEF IInv, Shapes
  <2>3. stack[lca].vertex \in 0 .. N
    BY <2>2, Zenon DEF IsFrame
  <2> QED
    BY <1>2, <1>3, <2>1, <2>3, NAssumption
<1>6. CASE lca = Len(stack)
  BY <1>1, <1>2, <1>3, <1>4, <1>5, <1>6 DEF Top
<1>7. CASE lca < Len(stack)
  BY <1>1, <1>2, <1>3, <1>4, <1>5, <1>7
<1> QED
  BY <1>2, <1>6, <1>7

LEMMA SkipVertexKeeps == IInv /\ SkipVertex => IInv'
<1> SUFFICES ASSUME IInv, SkipVertex PROVE IInv'
  OBVIOUS
<1>1. /\ Shapes /\ FramesArePath /\ pc = "scan" /\ Top.vertex < N
      /\ stack' = WithTopVertex(Top.vertex + 1)
      /\ UNCHANGED <<graph, input, coloring, lca, pc>>
  BY DEF IInv, SkipVertex
<1>2. IsBest(best') /\ best'.has_value = best.has_value /\ best'.path = best.path
  <2>1. CASE UNCHANGED best
    BY <1>1, <2>1 DEF Shapes
  <2>2. CASE best' = [best EXCEPT !.orbits = Compress(@, Top.vertex)]
    BY <1>1, <2>2, BestUpdated DEF Shapes
  <2> QED
    BY <2>1, <2>2 DEF SkipVertex
<1>3. /\ IsSequence(stack')
      /\ Len(stack') = Len(stack)
      /\ stack'[Len(stack)].coloring = Top.coloring
      /\ \A i \in 1 .. Len(stack) : IsFrame(stack'[i])
      /\ TreePath(graph', input', stack')
  BY <1>1, TopRaisedKeepsPath
<1>4. Shapes'
  BY <1>1, <1>2, <1>3 DEF Shapes
<1>5. FramesArePath'
  <2>1. coloring = Top.coloring
    BY <1>1, PathByParts
  <2> QED
    BY <1>1, <1>3, <2>1, NextPathByParts
<1>6. LcaInv'
  BY <1>1, <1>2, TopRaisedKeepsLca
<1> QED
  BY <1>4, <1>5, <1>6 DEF IInv

LEMMA IndividualizeVertexKeeps == IInv /\ IndividualizeVertex => IInv'
<1> SUFFICES ASSUME IInv, IndividualizeVertex PROVE IInv'
  OBVIOUS
<1>1. /\ Shapes /\ FramesArePath /\ pc = "scan" /\ pc' = "select" /\ Top.vertex < N
      /\ stack' = WithTopVertex(Top.vertex + 1)
      /\ coloring' = Refine(graph, Individualize(Top.coloring, Top.vertex))
      /\ UNCHANGED <<graph, input, best, lca>>
  BY DEF IInv, IndividualizeVertex
<1>2. /\ IsSequence(stack')
      /\ Len(stack') = Len(stack)
      /\ stack'[Len(stack)].vertex = Top.vertex + 1
      /\ stack'[Len(stack)].coloring = Top.coloring
      /\ \A i \in 1 .. Len(stack) : IsFrame(stack'[i])
      /\ TreePath(graph', input', stack')
  BY <1>1, TopRaisedKeepsPath
<1>3. Shapes'
  BY <1>1, <1>2 DEF Shapes
<1>4. FramesArePath'
  <2>1. stack' # <<>>
    BY <1>1, <1>2, SequenceLength DEF Shapes
  <2>2. (Top.vertex + 1) - 1 = Top.vertex
    <3>1. IsFrame(Top)
      BY <1>1, SequenceLength DEF Shapes, Top
    <3>2. Top.vertex \in 0 .. N
      BY <3>1, Zenon DEF IsFrame
    <3> QED
      BY <3>2, NAssumption
  <2>3. coloring' = Refine(graph', Individualize(stack'[Len(stack')].coloring,
                                                 stack'[Len(stack')].vertex - 1))
    <3>1. stack'[Len(stack')].coloring = Top.coloring
      BY <1>2
    <3>2. stack'[Len(stack')].vertex - 1 = Top.vertex
      BY <1>2, <2>2
    <3> QED
      BY <1>1, <3>1, <3>2, Zenon
  <2> QED
    BY <1>1, <1>2, <2>1, <2>3, NextPathByParts
<1>5. LcaInv'
  BY <1>1, TopRaisedKeepsLca
<1> QED
  BY <1>3, <1>4, <1>5 DEF IInv

LEMMA PopFrameKeeps == IInv /\ PopFrame => IInv'
<1> SUFFICES ASSUME IInv, PopFrame PROVE IInv'
  OBVIOUS
<1>1. /\ Shapes /\ FramesArePath /\ LcaInv /\ pc = "scan"
      /\ BacktrackTo(Len(stack) - 1)
      /\ UNCHANGED <<graph, input>>
  BY DEF IInv, PopFrame
<1>2. Len(stack) \in Nat /\ Len(stack) > 0 /\ Len(stack) - 1 \in 0 .. Len(stack)
  BY <1>1, SequenceLength DEF Shapes
<1>3. CASE ~OnBestPath
  <2>1. UNCHANGED <<lca, best>>
    BY <1>3 DEF PopFrame
  <2>2. best.has_value => lca <= Len(stack) - 1
    BY <1>1, <1>2, <1>3, SharedAtLeaf DEF OnBestPath
  <2>3. IsBest(best') /\ best'.has_value = best.has_value /\ best'.path = best.path
    BY <1>1, <2>1 DEF Shapes
  <2> QED
    BY <1>1, <1>2, <2>1, <2>2, <2>3, BacktrackKeeps
<1>4. CASE OnBestPath
  <2>1. lca = Len(stack) /\ lca' = lca - 1 /\ best.has_value
    BY <1>4 DEF PopFrame, OnBestPath
  <2>2. IsBest(best') /\ best'.has_value = best.has_value /\ best'.path = best.path
    <3>1. best' = [best EXCEPT
                     !.group_size = @ * OrbitSize(best.orbits, best.path[lca] - 1),
                     !.orbits = Compress(@, best.path[lca] - 1)]
      BY <1>4 DEF PopFrame
    <3> QED
      BY <1>1, <3>1, BestUpdated DEF Shapes
  <2>3. /\ IsSequence(stack')
        /\ Len(stack') = lca - 1
        /\ \A i \in 1 .. lca - 1 : stack'[i] = stack[i]
        /\ \A i \in 1 .. lca - 1 : IsFrame(stack'[i])
        /\ pc' = IF lca - 1 = 0 THEN "done" ELSE "scan"
        /\ FramesArePath'
    BY <1>1, <1>2, <2>1, Backtracks
  <2>4. Shapes'
    BY <1>1, <1>2, <2>1, <2>2, <2>3 DEF Shapes
  <2>5. LcaInv'
    <3>1. /\ lca <= Len(best.path)
          /\ \A j \in 1 .. lca-1 : stack[j].vertex = best.path[j]
      BY <1>1, <2>1 DEF LcaInv
    <3>2. \A j \in 1 .. lca-1 : stack'[j].vertex = best.path[j] /\ stack[j].vertex \in Nat
      <4>1. \A j \in 1 .. Len(stack) : stack[j].vertex \in 0 .. N
        BY <1>1, Zenon DEF Shapes, IsFrame
      <4> QED
        BY <1>2, <2>1, <2>3, <3>1, <4>1, NAssumption
    <3>3. Len(best.path) \in Nat
      BY <1>1 DEF Shapes, IsBest
    <3> QED
      BY <1>2, <2>1, <2>2, <2>3, <3>1, <3>2, <3>3 DEF LcaInv
  <2> QED
    BY <2>3, <2>4, <2>5 DEF IInv
<1> QED
  BY <1>3, <1>4

\* Doing nothing keeps it, too.
LEMMA StutterKeeps == IInv /\ UNCHANGED vars => IInv'
  BY DEF IInv, Shapes, FramesArePath, LcaInv, vars, Root, Child, Top

\* Every step preserves the invariant.
LEMMA NextIInv == IInv /\ [Next]_vars => IInv'
<1> SUFFICES ASSUME IInv, [Next]_vars PROVE IInv'
  OBVIOUS
<1>1. CASE InitialRefine
  BY <1>1, InitialRefineKeeps
<1>2. CASE FirstLeaf
  BY <1>2, FirstLeafKeeps
<1>3. CASE EqualLeaf
  BY <1>3, EqualLeafKeeps
<1>4. CASE BetterLeaf
  BY <1>4, BetterLeafKeeps
<1>5. CASE WorseLeaf
  BY <1>5, WorseLeafKeeps
<1>6. CASE Push
  BY <1>6, PushKeeps
<1>7. CASE SkipVertex
  BY <1>7, SkipVertexKeeps
<1>8. CASE IndividualizeVertex
  BY <1>8, IndividualizeVertexKeeps
<1>9. CASE PopFrame
  BY <1>9, PopFrameKeeps
<1>10. CASE Returned \/ UNCHANGED vars
  BY <1>10, StutterKeeps DEF Returned
<1> QED
  BY <1>1, <1>2, <1>3, <1>4, <1>5, <1>6, <1>7, <1>8, <1>9, <1>10 DEF Next

LEMMA Invariance == Spec => []IInv
<1>1. Init => IInv
  BY InitIInv
<1>2. IInv /\ [Next]_vars => IInv'
  BY NextIInv
<1> QED
  BY <1>1, <1>2, PTL DEF Spec

-----------------------------------------------------------------------------
(***************************************************************************)
(* The shared frames are exactly the first lca ones.                       *)
(***************************************************************************)
LEMMA LcaCounts == IInv => LcaExact
<1> SUFFICES ASSUME IInv, best.has_value
             PROVE  lca = Cardinality({i \in 1 .. Len(stack) : SharedWithBest(i)})
  BY DEF LcaExact
<1>1. /\ lca \in Nat /\ Len(stack) \in Nat
      /\ lca <= Len(stack) /\ lca <= Len(best.path)
      /\ \A j \in 1 .. lca-1 : stack[j].vertex = best.path[j]
      /\ lca = 0 => Len(stack) = 0
      /\ lca > 0 /\ lca < Len(stack) => stack[lca].vertex > best.path[lca]
  BY SequenceLength DEF IInv, Shapes, LcaInv
<1>2. \A i \in 1 .. lca : SharedWithBest(i)
  BY <1>1 DEF SharedWithBest
<1>3. \A i \in lca+1 .. Len(stack) : ~SharedWithBest(i)
  <2> SUFFICES ASSUME NEW i \in lca+1 .. Len(stack), SharedWithBest(i) PROVE FALSE
    OBVIOUS
  <2>1. lca > 0 /\ lca < Len(stack) /\ lca \in 1 .. i-1
    BY <1>1
  <2>2. stack[lca].vertex = best.path[lca]
    BY <2>1 DEF SharedWithBest
  <2>3. best.path[lca] \in Nat
    <3>1. best.path \in Seq(Nat)
      BY DEF IInv, Shapes, IsBest
    <3> QED
      BY <1>1, <2>1, <3>1, ElementOfSeq
  <2> QED
    BY <1>1, <2>1, <2>2, <2>3
<1>4. {i \in 1 .. Len(stack) : SharedWithBest(i)} = 1 .. lca
  BY <1>1, <1>2, <1>3
<1>5. Cardinality(1 .. lca) = lca
  BY <1>1, FS_Interval
<1> QED
  BY <1>4, <1>5

(***************************************************************************)
(* The stack of canonize is always a path of the search tree and the       *)
(* coloring it works on is the node at its end, for every refinement and   *)
(* comparison (ir.hpp:204-241, 258-287).                                   *)
(***************************************************************************)
THEOREM StackIsTreePath == Spec => []FramesArePath
<1>1. IInv => FramesArePath
  BY DEF IInv
<1> QED
  BY <1>1, Invariance, PTL

(***************************************************************************)
(* best_leaf_lca, which is only assigned and decremented, is always the    *)
(* number of frames shared with the best leaf's path (ir.hpp:245, 262).    *)
(***************************************************************************)
THEOREM LcaIsShared == Spec => []LcaExact
<1>1. IInv => LcaExact
  BY LcaCounts
<1> QED
  BY <1>1, Invariance, PTL

-----------------------------------------------------------------------------
(***************************************************************************)
(* The best leaf is where its path leads.                                  *)
(***************************************************************************)

\* Nodes satisfying the equation that defines NodesAlong are what it chooses.
LEMMA NodesAlongPath ==
    ASSUME Len(Path) \in Nat, NEW node,
           node = [i \in 0 .. Len(Path) |->
                      IF i = 0 THEN {Root} ELSE {Child(k, Path[i] - 1) : k \in node[i-1]}]
    PROVE  NodesAlong(Path) = node[Len(Path)]
<1> DEFINE n == Len(Path)
           After(K, i) == {Child(k, Path[i] - 1) : k \in K}
           Solves(f) == f = [i \in 0 .. n |-> IF i = 0 THEN {Root} ELSE After(f[i-1], i)]
           chosen == CHOOSE f : Solves(f)
<1>1. Solves(node)
  OBVIOUS
<1>2. Solves(chosen)
  <2> HIDE DEF Solves
  <2> QED BY <1>1
<1>3. NodesAlong(Path) = chosen[n]
  BY DEF NodesAlong
<1> HIDE DEF chosen, After
<1>4. \A i \in 0 .. n : chosen[i] = node[i]
  <2> DEFINE T == {i \in 0 .. n : chosen[i] = node[i]}
  <2>1. 0 \in T
    BY <1>1, <1>2
  <2>2. ASSUME NEW i \in 1 .. n, i-1 \in T PROVE i \in T
    <3>1. i \in 0 .. n /\ i # 0 /\ chosen[i-1] = node[i-1]
      BY <2>2
    <3>2. chosen[i] = After(chosen[i-1], i) /\ node[i] = After(node[i-1], i)
      BY <1>1, <1>2, <3>1
    <3> QED BY <3>1, <3>2
  <2>3. \A i \in 0 .. n : i \in T
    <3> HIDE DEF T
    <3> QED BY <2>1, <2>2, UpTo
  <2> QED BY <2>3
<1>5. n \in 0 .. n
  OBVIOUS
<1> QED BY <1>3, <1>4, <1>5

\* At the head of the loop the pointers lead to the coloring.
LEMMA PathLeadsToColoring ==
    ASSUME Shapes, FramesArePath, pc = "select"
    PROVE  NodesAlong(Path) = {coloring}
<1> DEFINE n == Len(stack)
           node == [i \in 0 .. n |->
                       IF i = 0 THEN {Root}
                       ELSE {Child(stack[i].coloring, stack[i].vertex - 1)}]
<1>1. n \in Nat /\ (stack = <<>> <=> n = 0)
  BY SequenceLength DEF Shapes
<1>2. Len(Path) = n /\ \A i \in 1 .. n : Path[i] = stack[i].vertex
  BY PathCopied
<1>3. \A i \in 1 .. n : stack[i].coloring =
                           IF i = 1 THEN Root
                           ELSE Child(stack[i-1].coloring, stack[i-1].vertex - 1)
  BY DEF FramesArePath
<1>4. coloring = IF n = 0 THEN Root ELSE Child(stack[n].coloring, stack[n].vertex - 1)
  BY <1>1 DEF FramesArePath, Top
<1>5. \A i \in 1 .. n : node[i-1] = {stack[i].coloring}
  <2> TAKE i \in 1 .. n
  <2>1. i-1 \in 0 .. n /\ (i = 1 <=> i-1 = 0)
    BY <1>1
  <2> QED BY <1>3, <2>1
<1>6. node = [i \in 0 .. n |-> IF i = 0 THEN {Root}
                               ELSE {Child(k, Path[i] - 1) : k \in node[i-1]}]
  <2>1. \A i \in 1 .. n : {Child(k, Path[i] - 1) : k \in node[i-1]}
                            = {Child(stack[i].coloring, stack[i].vertex - 1)}
    <3> HIDE DEF node
    <3> QED BY <1>2, <1>5
  <2>2. \A i \in 0 .. n : i # 0 => i \in 1 .. n
    BY <1>1
  <2> QED BY <2>1, <2>2
<1>7. node[n] = {coloring}
  BY <1>1, <1>4
<1> HIDE DEF node
<1> QED BY <1>1, <1>2, <1>6, <1>7, NodesAlongPath

\* What a step keeps of the best leaf unless it replaces it.
SameLeaf ==
    /\ graph' = graph /\ input' = input
    /\ best'.has_value = best.has_value
    /\ best'.leaf = best.leaf /\ best'.graph = best.graph /\ best'.path = best.path

LEMMA SameLeafReplays == BestLeafReplays /\ SameLeaf => BestLeafReplays'
<1> SUFFICES ASSUME BestLeafReplays, SameLeaf PROVE BestLeafReplays'
  OBVIOUS
<1>1. NodesAlong(best.path)' = NodesAlong(best.path)
  BY DEF SameLeaf, NodesAlong, Root, Child
<1> QED BY <1>1 DEF SameLeaf, BestLeafReplays

\* Updates of the orbits and of the group size keep the rest of the leaf.
LEMMA UpdateKeepsLeaf ==
    ASSUME IsBest(best),
           \/ UNCHANGED best
           \/ \E x : best' = [best EXCEPT !.orbits = x]
           \/ \E x, y : best' = [best EXCEPT !.group_size = x, !.orbits = y],
           UNCHANGED <<graph, input>>
    PROVE  SameLeaf
<1>1. CASE UNCHANGED best
  BY <1>1 DEF SameLeaf
<1>2. CASE \E x : best' = [best EXCEPT !.orbits = x]
  <2>1. PICK x : best' = [best EXCEPT !.orbits = x]
    BY <1>2
  <2>2. best' = [has_value |-> best.has_value, leaf |-> best.leaf, graph |-> best.graph,
                 path |-> best.path, orbits |-> x, group_size |-> best.group_size]
    BY <2>1 DEF IsBest
  <2> QED BY <2>2 DEF SameLeaf
<1>3. CASE \E x, y : best' = [best EXCEPT !.group_size = x, !.orbits = y]
  <2>1. PICK x, y : best' = [best EXCEPT !.group_size = x, !.orbits = y]
    BY <1>3
  <2>2. best' = [has_value |-> best.has_value, leaf |-> best.leaf, graph |-> best.graph,
                 path |-> best.path, orbits |-> y, group_size |-> x]
    BY <2>1 DEF IsBest
  <2> QED BY <2>2 DEF SameLeaf
<1> QED BY <1>1, <1>2, <1>3

\* A new best leaf replays.
LEMMA ReplacedReplays ==
    ASSUME IInv, AtLeaf, ReplaceBest, UNCHANGED <<graph, input>>
    PROVE  BestLeafReplays'
<1>1. /\ best'.leaf = coloring /\ best'.path = Path
      /\ best'.graph = ReorderGraph(graph, coloring)
  BY DEF ReplaceBest, LeafGraph
<1>2. NodesAlong(Path) = {coloring}
  BY PathLeadsToColoring DEF IInv, AtLeaf
<1>3. NodesAlong(best.path)' = NodesAlong(Path)
  BY <1>1 DEF NodesAlong, Root, Child
<1> QED BY <1>1, <1>2, <1>3 DEF BestLeafReplays, AtLeaf

\* Every step keeps the best leaf or replaces it by the current one.
LEMMA LeafKeptOrReplaced ==
    ASSUME IInv, [Next]_vars
    PROVE  SameLeaf \/ (AtLeaf /\ ReplaceBest /\ UNCHANGED <<graph, input>>)
<1>0. IsBest(best)
  BY DEF IInv, Shapes
<1>1. CASE FirstLeaf \/ BetterLeaf
  BY <1>1 DEF FirstLeaf, BetterLeaf
<1>2. CASE EqualLeaf
  <2>1. \E x : best' = [best EXCEPT !.orbits = x]
    BY <1>2 DEF EqualLeaf
  <2> QED BY <1>0, <1>2, <2>1, UpdateKeepsLeaf DEF EqualLeaf
<1>3. CASE SkipVertex
  <2>1. UNCHANGED best \/ \E x : best' = [best EXCEPT !.orbits = x]
    BY <1>3 DEF SkipVertex
  <2> QED BY <1>0, <1>3, <2>1, UpdateKeepsLeaf DEF SkipVertex
<1>4. CASE PopFrame
  <2>1. UNCHANGED best \/ \E x, y : best' = [best EXCEPT !.group_size = x, !.orbits = y]
    BY <1>4 DEF PopFrame
  <2> QED BY <1>0, <1>4, <2>1, UpdateKeepsLeaf DEF PopFrame
<1>5. CASE UNCHANGED <<graph, input, best>>
  BY <1>5 DEF SameLeaf
<1> QED BY <1>1, <1>2, <1>3, <1>4, <1>5
        DEF Next, vars, InitialRefine, WorseLeaf, Push, IndividualizeVertex, Returned

LEMMA NextReplays == IInv /\ BestLeafReplays /\ [Next]_vars => BestLeafReplays'
  BY LeafKeptOrReplaced, ReplacedReplays, SameLeafReplays

(***************************************************************************)
(* Following the path of the best leaf from the root always leads to its   *)
(* coloring, which is discrete, and its matrix is the graph in that        *)
(* coloring's order, for every refinement and comparison: backtracking and *)
(* jumps never leave a path behind that belongs to another leaf            *)
(* (ir.hpp:190-199).                                                       *)
(***************************************************************************)
THEOREM BestLeafIsOnItsPath == Spec => []BestLeafReplays
<1>1. Init => IInv /\ BestLeafReplays
  BY InitIInv DEF Init, NoLeaf, BestLeafReplays
<1>2. IInv /\ BestLeafReplays /\ [Next]_vars => IInv' /\ BestLeafReplays'
  BY NextIInv, NextReplays
<1> QED BY <1>1, <1>2, PTL DEF Spec

-----------------------------------------------------------------------------
(***************************************************************************)
(* What canonize promises when its parts keep theirs: nothing was assumed  *)
(* of the refinement and the comparison so far; from here a refinement     *)
(* keeps classes apart, or also in order, and a comparison calls equal     *)
(* only what is equal.  Each theorem names what it needs.                  *)
(***************************************************************************)
\* The calls: set_color keeps labels an enumeration (LabelsEnumerate), and in
\* color order (SetColorSlidesRight).
CallsLegal ==
    /\ Graphs \subseteq [Nodes -> SUBSET Nodes]
    /\ \A k \in InputColorings : InOrder(k)

\* A refinement splits classes and leaves what ir.hpp:284 asserts.  It is told
\* nothing of the classes, only that the labels are in color order: set_color
\* scans for the place of a label among its neighbours.
RefinesApart ==
    \A g \in Graphs, k \in Colorings :
        InOrder(k) => WellFormed(Refine(g, k)) /\ KeepsApart(k, Refine(g, k))

\* A refinement that also keeps the order of classes, as the four bits of the
\* hash prefix do for colors below 16 (naive.hpp:60).
RefinesInOrder ==
    \A g \in Graphs, k \in Colorings :
        InOrder(k) => WellFormed(Refine(g, k)) /\ KeepsOrder(k, Refine(g, k))

\* Leaves of one graph compare equal only if their matrices are.
EqualIsSame ==
    \A g \in Graphs, k \in Colorings, m \in Colorings :
        /\ Enumerates(k) /\ Enumerates(m)
        /\ Compare(ReorderGraph(g, k), ReorderGraph(g, m)) = Equal
        => ReorderGraph(g, k) = ReorderGraph(g, m)

(***************************************************************************)
(* The reference refinement (refine/naive.hpp) is such a refinement, on as *)
(* many nodes as the four bits of color in its hash keys tell apart.       *)
(***************************************************************************)
THEOREM NaiveRefinesInOrder ==
    ASSUME FewNodes,
           Graphs \subseteq [Nodes -> SUBSET Nodes],
           \A g \in Graphs, k \in Colorings : Refine(g, k) = NaiveRefine(g, k)
    PROVE  RefinesInOrder
<1>1. ASSUME NEW g \in Graphs, NEW k \in Colorings, InOrder(k)
      PROVE  WellFormed(NaiveRefine(g, k)) /\ KeepsOrder(k, NaiveRefine(g, k))
  <2>1. g \in [Nodes -> SUBSET Nodes]
    OBVIOUS
  <2> QED BY <1>1, <2>1, NaiveRefines
<1> QED BY <1>1 DEF RefinesInOrder

(***************************************************************************)
(* So are the vectorised ones (refine/avx512intrin8.inc,                   *)
(* avx512intrin16.inc), on as many nodes as they have lanes and on the     *)
(* matrices that add_edge builds.  With 16 lanes the call at the root      *)
(* mixes degrees into the hashes and later calls do not; it does not       *)
(* matter here which is which.                                             *)
(***************************************************************************)
THEOREM VectorisedRefineInOrder ==
    ASSUME Graphs \subseteq SimpleGraphs,
           \/ /\ N <= 8
              /\ \A g \in Graphs, k \in Colorings : Refine(g, k) = Avx8Refine(g, k)
           \/ /\ N <= 16
              /\ \A g \in Graphs, k \in Colorings :
                    \E first \in BOOLEAN : Refine(g, k) = Avx16Refine(g, k, first)
    PROVE  RefinesInOrder
<1> SUFFICES ASSUME NEW g \in Graphs, NEW k \in Colorings, InOrder(k)
             PROVE  WellFormed(Refine(g, k)) /\ KeepsOrder(k, Refine(g, k))
  BY DEF RefinesInOrder
<1>1. g \in SimpleGraphs /\ g \in [Nodes -> SUBSET Nodes]
  BY DEF SimpleGraphs
<1>2. CASE N <= 8 /\ Refine(g, k) = Avx8Refine(g, k)
  <2>1. Fits(8)
    BY <1>2 DEF Fits, Widths
  <2> QED BY <1>1, <1>2, <2>1, Avx8Refines
<1>3. CASE N <= 16 /\ \E first \in BOOLEAN : Refine(g, k) = Avx16Refine(g, k, first)
  <2>1. Fits(16)
    BY <1>3 DEF Fits, Widths
  <2> QED BY <1>1, <1>3, <2>1, Avx16Refines
<1> QED BY <1>2, <1>3

LEMMA InOrderIsApart == RefinesInOrder => RefinesApart
BY OrderKeepsApart DEF RefinesInOrder, RefinesApart, WellFormed, InOrder, Enumerates

-----------------------------------------------------------------------------
(***************************************************************************)
(* Trails: a walk down from the root that individualizes vs[1] .. vs[n].   *)
(***************************************************************************)
IsTrail(g, k, n, ks, vs) ==
    /\ ks[0] = Refine(g, k)
    /\ \A i \in 1 .. n :
          /\ vs[i] \in Nodes
          /\ ~IsDiscrete(ks[i-1])
          /\ ks[i-1].color[vs[i]] = SelectFirst(ks[i-1])
          /\ ks[i] = Refine(g, Individualize(ks[i-1], vs[i]))

LEMMA ApartTransitive ==
    ASSUME NEW k, NEW l, NEW m, KeepsApart(k, l), KeepsApart(l, m)
    PROVE  KeepsApart(k, m)
BY DEF KeepsApart

LEMMA ApartKeepsAlone ==
    ASSUME NEW k, NEW m, KeepsApart(k, m), NEW u \in Nodes, Alone(k, u)
    PROVE  Alone(m, u)
BY DEF KeepsApart, Alone

\* A selected vertex has company, so individualizing it splits a class.
LEMMA SelectedSplits ==
    ASSUME NEW k, WellFormed(k), ~IsDiscrete(k), NEW u \in Nodes,
           k.color[u] = SelectFirst(k)
    PROVE  /\ ~Alone(k, u)
           /\ InOrder(Individualize(k, u))
           /\ KeepsOrder(k, Individualize(k, u))
           /\ KeepsApart(k, Individualize(k, u))
           /\ Alone(Individualize(k, u), u)
<1>1. Enumerates(k)
  BY DEF WellFormed
<1>2. ~Alone(k, u)
  BY <1>1, SelectedTwice DEF Alone
<1>3. InOrder(Individualize(k, u))
  BY IndividualizeInOrder
<1>4. KeepsOrder(k, Individualize(k, u)) /\ Alone(Individualize(k, u), u)
  BY <1>2, IndividualizedApart
<1>5. KeepsApart(k, Individualize(k, u))
  BY <1>1, <1>3, <1>4, OrderKeepsApart DEF InOrder, Enumerates
<1> QED BY <1>2, <1>3, <1>4, <1>5

LEMMA TrailWellFormed ==
    ASSUME RefinesApart, NEW g \in Graphs, NEW k, InOrder(k), NEW n \in Nat,
           NEW ks, NEW vs, IsTrail(g, k, n, ks, vs), NEW i \in 0 .. n
    PROVE  WellFormed(ks[i])
<1> DEFINE T == {j \in 0 .. n : WellFormed(ks[j])}
<1>1. 0 \in T
  BY DEF RefinesApart, IsTrail, InOrder, Enumerates
<1>2. ASSUME NEW j \in 1 .. n, j-1 \in T PROVE j \in T
  <2>1. WellFormed(ks[j-1]) /\ vs[j] \in Nodes
    BY <1>2 DEF IsTrail
  <2>2. InOrder(Individualize(ks[j-1], vs[j]))
    BY <2>1, IndividualizeInOrder
  <2>3. WellFormed(Refine(g, Individualize(ks[j-1], vs[j])))
    BY <2>2 DEF RefinesApart, InOrder, Enumerates
  <2> QED BY <2>3 DEF IsTrail
<1>3. \A j \in 0 .. n : j \in T
  <2> HIDE DEF T
  <2> QED BY <1>1, <1>2, UpTo
<1> QED BY <1>3

\* Each node of a trail sets its vertex apart from the others.
LEMMA TrailSplits ==
    ASSUME RefinesApart, NEW g \in Graphs, NEW k, InOrder(k), NEW n \in Nat,
           NEW ks, NEW vs, IsTrail(g, k, n, ks, vs), NEW i \in 1 .. n
    PROVE  /\ ~Alone(ks[i-1], vs[i])
           /\ KeepsApart(ks[i-1], ks[i])
           /\ Alone(ks[i], vs[i])
<1> DEFINE l == Individualize(ks[i-1], vs[i])
<1>1. WellFormed(ks[i-1])
  <2>1. i-1 \in 0 .. n
    OBVIOUS
  <2> QED BY <2>1, TrailWellFormed
<1>2. /\ vs[i] \in Nodes
      /\ ~Alone(ks[i-1], vs[i])
      /\ InOrder(l)
      /\ KeepsApart(ks[i-1], l)
      /\ Alone(l, vs[i])
  BY <1>1, SelectedSplits DEF IsTrail
<1>3. ks[i] = Refine(g, l)
  BY DEF IsTrail
<1> HIDE DEF l
<1>4. KeepsApart(l, ks[i])
  BY <1>2, <1>3 DEF RefinesApart, InOrder, Enumerates
<1> QED BY <1>2, <1>4, ApartTransitive, ApartKeepsAlone

-----------------------------------------------------------------------------
(***************************************************************************)
(* How long a trail can be: the nodes that are alone become more with each *)
(* step, and a coloring that is not discrete leaves two over.              *)
(***************************************************************************)
Singles(k) == {u \in Nodes : Alone(k, u)}

LEMMA NodesFinite == IsFiniteSet(Nodes) /\ Cardinality(Nodes) = N
BY SizeBelow, NAssumption DEF Nodes

LEMMA SinglesGrow ==
    ASSUME NEW k, NEW m, KeepsApart(k, m), NEW u \in Nodes, ~Alone(k, u), Alone(m, u)
    PROVE  Cardinality(Singles(m)) >= Cardinality(Singles(k)) + 1
<1>1. Singles(k) \cup {u} \subseteq Singles(m) /\ u \notin Singles(k)
  BY ApartKeepsAlone DEF Singles
<1>2. IsFiniteSet(Singles(k)) /\ IsFiniteSet(Singles(m))
  <2>1. Singles(k) \in SUBSET Nodes /\ Singles(m) \in SUBSET Nodes
    BY DEF Singles
  <2> QED BY <2>1, NodesFinite, FS_Subset
<1>3. Cardinality(Singles(k) \cup {u}) = Cardinality(Singles(k)) + 1
  BY <1>1, <1>2, FS_AddElement
<1>4. Cardinality(Singles(k) \cup {u}) <= Cardinality(Singles(m))
  BY <1>1, <1>2, FS_Subset
<1>5. Cardinality(Singles(k)) \in Nat /\ Cardinality(Singles(m)) \in Nat
  BY <1>2, FS_CardinalityType
<1> QED BY <1>3, <1>4, <1>5

LEMMA TrailSingles ==
    ASSUME RefinesApart, NEW g \in Graphs, NEW k, InOrder(k), NEW n \in Nat,
           NEW ks, NEW vs, IsTrail(g, k, n, ks, vs)
    PROVE  Cardinality(Singles(ks[n])) >= n
<1> DEFINE size(j) == Cardinality(Singles(ks[j]))
           T == {j \in 0 .. n : size(j) >= j}
<1>1. \A j \in 0 .. n : size(j) \in Nat
  <2> TAKE j \in 0 .. n
  <2>1. Singles(ks[j]) \in SUBSET Nodes
    BY DEF Singles
  <2>2. IsFiniteSet(Singles(ks[j]))
    BY <2>1, NodesFinite, FS_Subset
  <2> QED BY <2>2, FS_CardinalityType
<1>2. \A j \in 1 .. n : size(j) >= size(j-1) + 1
  <2> TAKE j \in 1 .. n
  <2>1. /\ ~Alone(ks[j-1], vs[j])
        /\ KeepsApart(ks[j-1], ks[j])
        /\ Alone(ks[j], vs[j])
    BY TrailSplits
  <2>2. vs[j] \in Nodes
    BY DEF IsTrail
  <2> QED BY <2>1, <2>2, SinglesGrow
<1> HIDE DEF size
<1>3. 0 \in T
  BY <1>1
<1>4. \A j \in 1 .. n : j-1 \in T => j \in T
  BY <1>1, <1>2
<1>5. \A j \in 0 .. n : j \in T
  <2> HIDE DEF T
  <2> QED BY <1>3, <1>4, UpTo
<1> QED BY <1>5 DEF size

LEMMA TrailShort ==
    ASSUME RefinesApart, NEW g \in Graphs, NEW k, InOrder(k), NEW n \in Nat,
           NEW ks, NEW vs, IsTrail(g, k, n, ks, vs), ~IsDiscrete(ks[n])
    PROVE  n + 2 <= N
<1> DEFINE m == ks[n]
           S == Singles(m)
<1>1. PICK u \in Nodes, v \in Nodes : u # v /\ m.color[u] = m.color[v]
  <2>1. Enumerates(m)
    BY TrailWellFormed DEF WellFormed
  <2> QED BY <2>1, SelectedTwice
<1>2. u \notin S /\ v \notin S /\ S \in SUBSET Nodes
  BY <1>1 DEF Singles, Alone
<1>3. Cardinality(S) >= n
  BY TrailSingles
<1>4. IsFiniteSet(S)
  BY <1>2, NodesFinite, FS_Subset
<1> HIDE DEF S
<1>5. IsFiniteSet(S \cup {u}) /\ Cardinality(S \cup {u}) = Cardinality(S) + 1
  BY <1>2, <1>4, FS_AddElement
<1>6. v \notin S \cup {u}
  BY <1>1, <1>2
<1>7. Cardinality((S \cup {u}) \cup {v}) = (Cardinality(S) + 1) + 1
  BY <1>5, <1>6, FS_AddElement
<1>8. Cardinality((S \cup {u}) \cup {v}) <= N
  BY <1>2, NodesFinite, FS_Subset
<1>9. Cardinality(S) \in Nat
  BY <1>4, FS_CardinalityType
<1> QED BY <1>3, <1>7, <1>8, <1>9, NAssumption

-----------------------------------------------------------------------------
(***************************************************************************)
(* The frames are a trail: each pointer but the top one, and that one too  *)
(* when the search has just descended, is one past a vertex of the         *)
(* selected color.                                                         *)
(***************************************************************************)
Chose(f) ==
    /\ f.vertex \in 1 .. N
    /\ f.coloring.color[f.vertex - 1] = f.col

Chosen ==
    /\ \A i \in 1 .. Len(stack)-1 : Chose(stack[i])
    /\ pc = "select" /\ Len(stack) > 0 => Chose(Top)

LEMMA BacktrackKeepsChosen ==
    ASSUME IInv, Chosen, NEW level \in 0 .. Len(stack), BacktrackTo(level)
    PROVE  Chosen'
<1>1. Len(stack) \in Nat
  BY SequenceLength DEF IInv, Shapes
<1>2. /\ Len(stack') = level
      /\ \A i \in 1 .. level : stack'[i] = stack[i]
  BY <1>1, Popped DEF IInv, Shapes, BacktrackTo
<1>3. pc' # "select"
  BY DEF BacktrackTo
<1>4. \A i \in 1 .. level-1 : i \in 1 .. Len(stack)-1 /\ stack'[i] = stack[i]
  BY <1>1, <1>2
<1> QED BY <1>2, <1>3, <1>4 DEF Chosen

LEMMA NextChosen == IInv /\ Chosen /\ [Next]_vars => Chosen'
<1> SUFFICES ASSUME IInv, Chosen, [Next]_vars PROVE Chosen'
  OBVIOUS
<1>0. /\ Shapes /\ FramesArePath /\ Len(stack) \in Nat
      /\ pc = "scan" => Len(stack) > 0
  BY SequenceLength DEF IInv, Shapes
<1>1. CASE InitialRefine
  BY <1>0, <1>1 DEF InitialRefine, Shapes, Chosen
<1>2. CASE FirstLeaf \/ BetterLeaf \/ WorseLeaf
  <2>1. BacktrackTo(Len(stack)) /\ Len(stack) \in 0 .. Len(stack)
    BY <1>0, <1>2 DEF FirstLeaf, BetterLeaf, WorseLeaf
  <2> QED BY <2>1, BacktrackKeepsChosen
<1>3. CASE EqualLeaf
  <2>1. BacktrackTo(lca) /\ lca \in 0 .. Len(stack)
    BY <1>0, <1>3, SharedAtLeaf DEF EqualLeaf, AtLeaf
  <2> QED BY <2>1, BacktrackKeepsChosen
<1>4. CASE PopFrame
  <2>1. BacktrackTo(Len(stack)-1) /\ Len(stack)-1 \in 0 .. Len(stack)
    BY <1>0, <1>4 DEF PopFrame
  <2> QED BY <2>1, BacktrackKeepsChosen
<1>5. CASE Push
  <2>1. /\ Len(stack') = Len(stack) + 1
        /\ \A i \in 1 .. Len(stack) : stack'[i] = stack[i]
    BY <1>0, <1>5, Pushed DEF Shapes, Push
  <2>2. \A i \in 1 .. Len(stack) : Chose(stack[i])
    BY <1>0, <1>5 DEF Push, Chosen, Top
  <2> QED BY <1>0, <1>5, <2>1, <2>2 DEF Push, Chosen
<1>6. CASE SkipVertex
  <2>1. /\ Len(stack') = Len(stack)
        /\ \A i \in 1 .. Len(stack)-1 : stack'[i] = stack[i]
    BY <1>0, <1>6, TopRaisedKeepsPath DEF SkipVertex
  <2> QED BY <1>6, <2>1 DEF SkipVertex, Chosen
<1>7. CASE IndividualizeVertex
  <2>1. /\ Len(stack') = Len(stack)
        /\ \A i \in 1 .. Len(stack)-1 : stack'[i] = stack[i]
        /\ stack'[Len(stack)] =
              [coloring |-> Top.coloring, vertex |-> Top.vertex + 1, col |-> Top.col]
    BY <1>0, <1>7, TopRaised DEF Shapes, IndividualizeVertex
  <2>2. Top.vertex \in 0 .. N-1 /\ Top.vertex < N
    <3>1. IsFrame(Top)
      BY <1>0, <1>7 DEF Shapes, Top, IndividualizeVertex
    <3>2. Top.vertex \in 0 .. N
      BY <3>1, Zenon DEF IsFrame
    <3> QED BY <1>7, <3>2, NAssumption DEF IndividualizeVertex
  <2>3. Top.coloring.color[Top.vertex] = Top.col
    <3>1. coloring = Top.coloring
      BY <1>0, <1>7, PathByParts DEF IndividualizeVertex
    <3> QED BY <1>7, <3>1 DEF IndividualizeVertex, HasTopColor
  <2>4. Chose(stack'[Len(stack)])
    <3>1. (Top.vertex + 1) - 1 = Top.vertex /\ Top.vertex + 1 \in 1 .. N
      BY <2>2, NAssumption
    <3> QED BY <2>1, <2>3, <3>1 DEF Chose
  <2>5. \A i \in 1 .. Len(stack)-1 : Chose(stack'[i])
    BY <2>1 DEF Chosen
  <2> QED BY <2>1, <2>4, <2>5 DEF Chosen, Top
<1>8. CASE Returned \/ UNCHANGED vars
  BY <1>8 DEF Returned, vars, Chosen, Top
<1> QED BY <1>1, <1>2, <1>3, <1>4, <1>5, <1>6, <1>7, <1>8 DEF Next

\* The calls stay the ones of the start.
Legal == graph \in Graphs /\ InOrder(input)

LEMMA InitLegal == CallsLegal /\ Init => Legal
BY DEF CallsLegal, Init, Legal

LEMMA NextLegal == Legal /\ [Next]_vars => Legal'
BY DEF Legal, Next, vars, InitialRefine, FirstLeaf, EqualLeaf, BetterLeaf, WorseLeaf,
       Push, SkipVertex, IndividualizeVertex, PopFrame, Returned

SInv == IInv /\ Chosen /\ Legal

LEMMA SearchInvariance ==
    ASSUME CallsLegal
    PROVE  Spec => []SInv
<1>1. Init => SInv
  <2>1. Init => Chosen
    <3> SUFFICES ASSUME Init PROVE Chosen
      OBVIOUS
    <3>1. Len(stack) = 0
      BY EmptySeq DEF Init
    <3> QED BY <3>1 DEF Init, Chosen
  <2> QED BY <2>1, InitIInv, InitLegal DEF SInv
<1>2. SInv /\ [Next]_vars => SInv'
  BY NextIInv, NextChosen, NextLegal DEF SInv
<1> QED BY <1>1, <1>2, PTL DEF Spec

-----------------------------------------------------------------------------
FrameColorings == [i \in 0 .. Len(stack)-1 |-> stack[i+1].coloring]
FrameVertices == [i \in 1 .. Len(stack) |-> stack[i].vertex - 1]

LEMMA FramesAreTrail ==
    ASSUME SInv, Len(stack) > 0
    PROVE  IsTrail(graph, input, Len(stack)-1, FrameColorings, FrameVertices)
<1>1. Len(stack) \in Nat /\ TreePath(graph, input, stack)
  BY SequenceLength, PathByParts DEF SInv, IInv, Shapes
<1>2. FrameColorings[0] = Refine(graph, input)
  BY <1>1 DEF FrameColorings, TreePath
<1>3. ASSUME NEW i \in 1 .. Len(stack)-1
      PROVE  /\ FrameVertices[i] \in Nodes
             /\ ~IsDiscrete(FrameColorings[i-1])
             /\ FrameColorings[i-1].color[FrameVertices[i]]
                   = SelectFirst(FrameColorings[i-1])
             /\ FrameColorings[i]
                   = Refine(graph, Individualize(FrameColorings[i-1], FrameVertices[i]))
  <2>1. /\ i \in 1 .. Len(stack) /\ i+1 \in 1 .. Len(stack) /\ (i+1)-1 = i /\ (i-1)+1 = i
        /\ i-1 \in 0 .. Len(stack)-1 /\ i \in 0 .. Len(stack)-1 /\ i+1 # 1
    BY <1>1
  <2>2. /\ FrameColorings[i-1] = stack[i].coloring
        /\ FrameColorings[i] = stack[i+1].coloring
        /\ FrameVertices[i] = stack[i].vertex - 1
    BY <2>1 DEF FrameColorings, FrameVertices
  <2>3. Chose(stack[i])
    BY DEF SInv, Chosen
  <2>4. stack[i].vertex - 1 \in Nodes
    BY <2>3, NAssumption DEF Chose, Nodes
  <2>5. /\ ~IsDiscrete(stack[i].coloring)
        /\ stack[i].col = SelectFirst(stack[i].coloring)
    BY <1>1, <2>1 DEF TreePath
  <2>6. stack[i+1].coloring
           = Refine(graph, Individualize(stack[i].coloring, stack[i].vertex - 1))
    BY <1>1, <2>1 DEF TreePath
  <2> QED BY <2>2, <2>3, <2>4, <2>5, <2>6 DEF Chose
<1> QED BY <1>2, <1>3 DEF IsTrail

(***************************************************************************)
(* The stack never reaches the capacity N that SearchStack reserves, so    *)
(* the assertion of push holds (ir.hpp:83): a frame exists for as many     *)
(* nodes set apart, and two more are left in the top frame's class.        *)
(***************************************************************************)
THEOREM StackNeverFull ==
    ASSUME CallsLegal, RefinesApart
    PROVE  Spec => []StackFits
<1>1. SInv => StackFits
  <2> SUFFICES ASSUME SInv PROVE Len(stack) < N
    BY DEF StackFits
  <2>1. Len(stack) \in Nat
    BY SequenceLength DEF SInv, IInv, Shapes
  <2>2. CASE Len(stack) = 0
    BY <2>2, NAssumption
  <2>3. CASE Len(stack) > 0
    <3> DEFINE n == Len(stack)-1
    <3>1. n \in Nat /\ Len(stack) = n + 1 /\ n+1 \in 1 .. Len(stack)
          /\ n \in 0 .. Len(stack)-1
      BY <2>1, <2>3
    <3>2. IsTrail(graph, input, n, FrameColorings, FrameVertices)
      BY <2>3, FramesAreTrail
    <3>3. ~IsDiscrete(FrameColorings[n])
      <4>1. TreePath(graph, input, stack)
        BY PathByParts DEF SInv, IInv
      <4> QED BY <3>1, <4>1 DEF FrameColorings, TreePath
    <3> HIDE DEF n
    <3>4. n + 2 <= N
      BY <3>1, <3>2, <3>3, TrailShort DEF SInv, Legal
    <3> QED BY <3>1, <3>4, NAssumption
  <2> QED BY <2>1, <2>2, <2>3
<1> QED BY <1>1, SearchInvariance, PTL

-----------------------------------------------------------------------------
(***************************************************************************)
(* The best leaf and, when the search is at a leaf, the current one are at *)
(* the ends of trails along their paths.                                   *)
(***************************************************************************)
Vertices(path) == [i \in 1 .. Len(path) |-> path[i] - 1]

IsLeafTrail(g, k, ks, path, leaf) ==
    /\ IsTrail(g, k, Len(path), ks, Vertices(path))
    /\ ks[Len(path)] = leaf

BestHasTrail ==
    best.has_value => \E ks : IsLeafTrail(graph, input, ks, best.path, best.leaf)

\* The frames, followed by the coloring they lead to.
CurrentColorings ==
    [i \in 0 .. Len(stack) |-> IF i < Len(stack) THEN stack[i+1].coloring ELSE coloring]

LEMMA CurrentTrail ==
    ASSUME SInv, pc = "select"
    PROVE  /\ IsLeafTrail(graph, input, CurrentColorings, Path, coloring)
           /\ Len(Path) = Len(stack) /\ Len(stack) \in Nat
           /\ \A i \in 1 .. Len(stack) : Path[i] = stack[i].vertex
<1> DEFINE n == Len(stack)
           ks == CurrentColorings
           vs == Vertices(Path)
<1>1. /\ Len(Path) = n /\ n \in Nat
      /\ \A i \in 1 .. n : Path[i] = stack[i].vertex
  BY PathCopied, SequenceLength DEF SInv, IInv, Shapes
<1>2. \A i \in 1 .. n : vs[i] = stack[i].vertex - 1
  BY <1>1 DEF Vertices
<1>3. /\ \A i \in 0 .. n-1 : ks[i] = stack[i+1].coloring
      /\ ks[n] = coloring
  BY <1>1 DEF CurrentColorings
<1>4. stack = <<>> <=> n = 0
  BY SequenceLength DEF SInv, IInv, Shapes
<1>5. /\ TreePath(graph, input, stack)
      /\ coloring = IF n = 0 THEN Refine(graph, input)
                    ELSE Refine(graph, Individualize(stack[n].coloring, stack[n].vertex - 1))
  BY <1>4, PathByParts DEF SInv, IInv, Top
<1> HIDE DEF vs, ks
<1>6. ks[0] = Refine(graph, input)
  BY <1>1, <1>3, <1>5 DEF TreePath
<1>7. ASSUME NEW i \in 1 .. n
      PROVE  /\ vs[i] \in Nodes
             /\ ~IsDiscrete(ks[i-1])
             /\ ks[i-1].color[vs[i]] = SelectFirst(ks[i-1])
             /\ ks[i] = Refine(graph, Individualize(ks[i-1], vs[i]))
  <2>1. i \in 1 .. n-1 \/ i = n
    BY <1>1
  <2>2. i-1 \in 0 .. n-1 /\ (i-1)+1 = i /\ n > 0
    BY <1>1
  <2>3. ks[i-1] = stack[i].coloring /\ vs[i] = stack[i].vertex - 1
    BY <1>2, <1>3, <2>2
  <2>4. Chose(stack[i])
    BY <2>1, <2>2 DEF SInv, Chosen, Top
  <2>5. stack[i].vertex - 1 \in Nodes
    BY <2>4, NAssumption DEF Chose, Nodes
  <2>6. /\ ~IsDiscrete(stack[i].coloring)
        /\ stack[i].col = SelectFirst(stack[i].coloring)
    BY <1>5 DEF TreePath
  <2>7. ks[i] = Refine(graph, Individualize(stack[i].coloring, stack[i].vertex - 1))
    <3>1. CASE i \in 1 .. n-1
      <4>1. i+1 \in 1 .. n /\ (i+1)-1 = i /\ i+1 # 1 /\ i \in 0 .. n-1
        BY <1>1, <3>1
      <4> QED BY <1>3, <1>5, <4>1 DEF TreePath
    <3>2. CASE i = n
      BY <1>3, <1>5, <2>2, <3>2
    <3> QED BY <2>1, <3>1, <3>2
  <2> QED BY <2>3, <2>4, <2>5, <2>6, <2>7 DEF Chose
<1>8. IsTrail(graph, input, n, ks, vs)
  BY <1>6, <1>7 DEF IsTrail
<1> QED BY <1>1, <1>3, <1>8 DEF IsLeafTrail, ks, vs

LEMMA NextHasTrail == SInv /\ BestHasTrail /\ [Next]_vars => BestHasTrail'
<1> SUFFICES ASSUME SInv, BestHasTrail, [Next]_vars PROVE BestHasTrail'
  OBVIOUS
<1>1. CASE SameLeaf
  BY <1>1 DEF SameLeaf, BestHasTrail
<1>2. CASE AtLeaf /\ ReplaceBest /\ UNCHANGED <<graph, input>>
  <2>1. IsLeafTrail(graph, input, CurrentColorings, Path, coloring)
    BY <1>2, CurrentTrail DEF AtLeaf
  <2>2. best'.leaf = coloring /\ best'.path = Path
    BY <1>2 DEF ReplaceBest
  <2>3. \E ks : IsLeafTrail(graph', input', ks, best'.path, best'.leaf)
    BY <1>2, <2>1, <2>2
  <2> QED BY <2>3 DEF BestHasTrail
<1> QED BY <1>1, <1>2, LeafKeptOrReplaced DEF SInv

TInv == SInv /\ BestLeafReplays /\ BestHasTrail

LEMMA TrailInvariance ==
    ASSUME CallsLegal
    PROVE  Spec => []TInv
<1>1. Init => BestHasTrail
  BY DEF Init, NoLeaf, BestHasTrail
<1>2. SInv /\ BestHasTrail /\ [Next]_vars => BestHasTrail'
  BY NextHasTrail
<1> QED BY <1>1, <1>2, SearchInvariance, BestLeafIsOnItsPath, PTL DEF Spec, TInv

-----------------------------------------------------------------------------
(***************************************************************************)
(* Two leaves below one node.  The map between them takes each node to the *)
(* one with the same position in the other leaf.                           *)
(***************************************************************************)
LeafMap(b, c) == [u \in Nodes |-> c.label[LabelPosition(b, u)]]

IsLeaf(k) == WellFormed(k) /\ IsDiscrete(k)

Swap(v, w, x) == IF x = v THEN w ELSE IF x = w THEN v ELSE x

LEMMA SwappedEnumeration ==
    ASSUME NEW a, Enumeration(a), NEW v \in Nodes, NEW w \in Nodes
    PROVE  Enumeration([q \in Positions |-> Swap(v, w, a[q])])
<1> DEFINE b == [q \in Positions |-> Swap(v, w, a[q])]
<1>1. \A x \in Nodes : Swap(v, w, x) \in Nodes /\ Swap(v, w, Swap(v, w, x)) = x
  BY DEF Swap
<1>2. \A q \in Positions : a[q] \in Nodes /\ b[q] = Swap(v, w, a[q])
  BY DEF Enumeration
<1>3. b \in [Positions -> Nodes]
  BY <1>1, <1>2
<1> HIDE DEF b
<1>4. \A p, q \in Positions : b[p] = b[q] => p = q
  <2> SUFFICES ASSUME NEW p \in Positions, NEW q \in Positions, b[p] = b[q]
               PROVE  p = q
    OBVIOUS
  <2>1. a[p] = a[q]
    BY <1>1, <1>2
  <2> QED BY <2>1 DEF Enumeration
<1>5. \A x \in Nodes : \E q \in Positions : b[q] = x
  <2> TAKE x \in Nodes
  <2>1. PICK q \in Positions : a[q] = Swap(v, w, x)
    BY <1>1 DEF Enumeration
  <2> QED BY <1>1, <1>2, <2>1
<1> QED BY <1>3, <1>4, <1>5 DEF Enumeration, b

\* What was individualized on one side goes to what was on the other.
LEMMA LeafMapTakes ==
    ASSUME NEW k, WellFormed(k), NEW v \in Nodes, NEW w \in Nodes,
           k.color[v] = k.color[w], ~Alone(k, v), ~Alone(k, w),
           NEW b, IsLeaf(b), KeepsOrder(Individualize(k, v), b),
           NEW c, IsLeaf(c), KeepsOrder(Individualize(k, w), c)
    PROVE  LeafMap(b, c)[v] = w
<1> DEFINE kv == Individualize(k, v)
           kw == Individualize(k, w)
           last == EndOfColor(k, k.color[v])
           a == [q \in Positions |-> Swap(v, w, c.label[q])]
<1>1. /\ Alone(kv, v)
      /\ kv.color = [k.color EXCEPT ![v] = last]
      /\ kw.color = [k.color EXCEPT ![w] = last]
      /\ k.color \in [Nodes -> Nodes]
  BY IndividualizedApart DEF WellFormed, Enumerates, Colorings
<1>2. kv \in Colorings /\ kw \in Colorings
  BY IndividualizeEnumerates DEF WellFormed, Enumerates
<1> HIDE DEF kv, kw, last
<1>3. \A x \in Nodes : kv.color[Swap(v, w, x)] = kw.color[x]
  BY <1>1 DEF Swap
<1>4. Enumeration(b.label) /\ AscendsAlong(kv.color, b.label)
  BY <1>2, LeafAscends DEF IsLeaf, kv
<1>5. Enumeration(c.label) /\ AscendsAlong(kw.color, c.label)
  BY <1>2, LeafAscends DEF IsLeaf, kw
<1>6. Enumeration(a)
  BY <1>5, SwappedEnumeration
<1>7. \A q \in Positions : /\ c.label[q] \in Nodes
                           /\ a[q] = Swap(v, w, c.label[q])
                           /\ kv.color[a[q]] = kw.color[c.label[q]]
  BY <1>3, <1>5 DEF Enumeration
<1>8. AscendsAlong(kv.color, a)
  <2> SUFFICES ASSUME NEW p \in Positions, NEW q \in 0 .. p
               PROVE  kv.color[a[q]] <= kv.color[a[p]]
    BY DEF AscendsAlong
  <2>1. q \in Positions
    BY NAssumption DEF Positions
  <2>2. kw.color[c.label[q]] <= kw.color[c.label[p]]
    BY <1>5 DEF AscendsAlong
  <2> HIDE DEF a
  <2> QED BY <1>7, <2>1, <2>2
<1>9. kv.color \in [Nodes -> Int]
  BY <1>2, ColorsAreInts
<1> HIDE DEF a
<1>10. \A q \in Positions : kv.color[b.label[q]] = kv.color[a[q]]
  BY <1>4, <1>6, <1>8, <1>9, SameAlong
<1> DEFINE q == LabelPosition(b, v)
<1>11. q \in Positions /\ b.label[q] = v
  BY LabelPositionFound DEF IsLeaf, WellFormed
<1> HIDE DEF q
<1>12. kv.color[a[q]] = kv.color[v] /\ a[q] \in Nodes
  BY <1>6, <1>10, <1>11 DEF Enumeration
<1>13. a[q] = v
  BY <1>1, <1>12 DEF Alone
<1>14. c.label[q] = w
  BY <1>7, <1>11, <1>13 DEF Swap
<1> QED BY <1>14 DEF LeafMap, q

\* Colors of what both leaves refine are kept.
LEMMA LeafMapKeepsColors ==
    ASSUME NEW k \in Colorings, NEW b, IsLeaf(b), KeepsOrder(k, b),
           NEW c, IsLeaf(c), KeepsOrder(k, c), NEW u \in Nodes
    PROVE  k.color[LeafMap(b, c)[u]] = k.color[u]
<1>1. /\ Enumeration(b.label) /\ AscendsAlong(k.color, b.label)
      /\ Enumeration(c.label) /\ AscendsAlong(k.color, c.label)
  BY LeafAscends DEF IsLeaf
<1>2. k.color \in [Nodes -> Int]
  BY ColorsAreInts
<1> DEFINE q == LabelPosition(b, u)
<1>3. q \in Positions /\ b.label[q] = u
  BY LabelPositionFound DEF IsLeaf, WellFormed
<1> HIDE DEF q
<1>4. k.color[b.label[q]] = k.color[c.label[q]]
  BY <1>1, <1>2, <1>3, SameAlong
<1> QED BY <1>3, <1>4 DEF LeafMap, q

-----------------------------------------------------------------------------
(***************************************************************************)
(* The matrix of a leaf has an edge between two positions where the graph  *)
(* has one between their labels, so equal matrices make the map keep edges.*)
(***************************************************************************)
LEMMA Reordered ==
    ASSUME NEW g \in [Nodes -> SUBSET Nodes], NEW k, Enumerates(k),
           NEW p \in Positions, NEW q \in Positions
    PROVE  q \in ReorderGraph(g, k)[p] <=> k.label[q] \in g[k.label[p]]
<1>1. Nodes = Positions
  BY DEF Nodes, Positions
<1>2. k.label \in [Positions -> Nodes]
  BY DEF Enumerates, Colorings
<1> DEFINE r1 == RowsByLabel(g, k)
           r2 == Transpose(r1)
           r3 == RowsByLabel(r2, k)
           r4 == Transpose(r3)
<1>3. \A x \in Positions : r1[x] = g[k.label[x]]
  BY DEF RowsByLabel
<1> HIDE DEF r1
<1>4. \A u, v \in Nodes : v \in r2[u] <=> u \in r1[v]
  BY DEF Transpose
<1> HIDE DEF r2
<1>5. \A x \in Positions : r3[x] = r2[k.label[x]]
  BY DEF RowsByLabel
<1> HIDE DEF r3
<1>6. \A u, v \in Nodes : v \in r4[u] <=> u \in r3[v]
  BY DEF Transpose
<1>7. ReorderGraph(g, k) = r4
  BY DEF ReorderGraph, r1, r2, r3
<1> HIDE DEF r4
<1>8. q \in r4[p] <=> p \in r3[q]
  BY <1>1, <1>6
<1>9. p \in r3[q] <=> k.label[q] \in r1[p]
  BY <1>1, <1>2, <1>4, <1>5
<1> QED BY <1>3, <1>7, <1>8, <1>9

LEMMA LeafMapKeepsEdges ==
    ASSUME NEW g \in [Nodes -> SUBSET Nodes], NEW b, Enumerates(b), NEW c, Enumerates(c),
           ReorderGraph(g, b) = ReorderGraph(g, c), NEW u \in Nodes, NEW v \in Nodes
    PROVE  /\ LeafMap(b, c)[u] \in Nodes
           /\ LeafMap(b, c)[u] = LeafMap(b, c)[v] => u = v
           /\ LeafMap(b, c)[v] \in g[LeafMap(b, c)[u]] <=> v \in g[u]
<1> DEFINE p == LabelPosition(b, u)
           q == LabelPosition(b, v)
<1>1. p \in Positions /\ b.label[p] = u /\ q \in Positions /\ b.label[q] = v
  BY LabelPositionFound
<1>2. LeafMap(b, c)[u] = c.label[p] /\ LeafMap(b, c)[v] = c.label[q]
  BY DEF LeafMap
<1> HIDE DEF p, q
<1>3. c.label[p] \in Nodes
  BY <1>1, ColorsAreNodes
<1>4. c.label[p] = c.label[q] => p = q
  BY <1>1 DEF Enumerates, LabelsPermutation
<1>5. q \in ReorderGraph(g, b)[p] <=> v \in g[u]
  BY <1>1, Reordered
<1>6. q \in ReorderGraph(g, c)[p] <=> c.label[q] \in g[c.label[p]]
  BY <1>1, Reordered
<1> QED BY <1>1, <1>2, <1>3, <1>4, <1>5, <1>6

-----------------------------------------------------------------------------
(***************************************************************************)
(* Order down a trail, from any of its nodes and individualizations to its *)
(* end.                                                                    *)
(***************************************************************************)
LEMMA OrderTransitive ==
    ASSUME NEW k, NEW l, NEW m, KeepsOrder(k, l), KeepsOrder(l, m)
    PROVE  KeepsOrder(k, m)
BY DEF KeepsOrder

LEMMA TrailOrder ==
    ASSUME RefinesInOrder, NEW g \in Graphs, NEW k, InOrder(k), NEW n \in Nat,
           NEW ks, NEW vs, IsTrail(g, k, n, ks, vs), NEW i \in 0 .. n
    PROVE  KeepsOrder(ks[i], ks[n])
<1> DEFINE T == {d \in 0 .. n-i : KeepsOrder(ks[i], ks[i+d])}
<1>1. 0 \in T
  <2>1. KeepsOrder(ks[i], ks[i]) /\ i + 0 = i
    BY DEF KeepsOrder
  <2> QED BY <2>1
<1>2. ASSUME NEW d \in 1 .. n-i, d-1 \in T PROVE d \in T
  <2>1. i+d \in 1 .. n /\ (i+d)-1 \in 0 .. n /\ (i+d)-1 = i+(d-1)
    OBVIOUS
  <2> DEFINE j == i+d
  <2>2. KeepsOrder(ks[i], ks[j-1])
    BY <1>2, <2>1
  <2>3. j \in 1 .. n /\ j-1 \in 0 .. n
    BY <2>1
  <2> HIDE DEF j
  <2>4. WellFormed(ks[j-1])
    BY <2>3, InOrderIsApart, TrailWellFormed
  <2>5. /\ InOrder(Individualize(ks[j-1], vs[j]))
        /\ KeepsOrder(ks[j-1], Individualize(ks[j-1], vs[j]))
        /\ ks[j] = Refine(g, Individualize(ks[j-1], vs[j]))
    BY <2>3, <2>4, SelectedSplits DEF IsTrail
  <2>6. KeepsOrder(Individualize(ks[j-1], vs[j]), ks[j])
    BY <2>5 DEF RefinesInOrder, InOrder, Enumerates
  <2>7. KeepsOrder(ks[i], ks[j])
    BY <2>2, <2>5, <2>6, OrderTransitive
  <2> QED BY <2>7 DEF j
<1>3. n-i \in T
  <2>1. \A d \in 0 .. n-i : d \in T
    <3> HIDE DEF T
    <3> QED BY <1>1, <1>2, UpTo
  <2> QED BY <2>1
<1>4. i + (n-i) = n
  OBVIOUS
<1> QED BY <1>3, <1>4

LEMMA TrailSets ==
    ASSUME RefinesInOrder, NEW g \in Graphs, NEW k, InOrder(k), NEW n \in Nat,
           NEW ks, NEW vs, IsTrail(g, k, n, ks, vs), NEW i \in 1 .. n
    PROVE  KeepsOrder(Individualize(ks[i-1], vs[i]), ks[n])
<1> DEFINE l == Individualize(ks[i-1], vs[i])
<1>1. i-1 \in 0 .. n /\ i \in 0 .. n
  OBVIOUS
<1>2. InOrder(l)
  <2>1. WellFormed(ks[i-1])
    BY <1>1, InOrderIsApart, TrailWellFormed
  <2>2. vs[i] \in Nodes
    BY DEF IsTrail
  <2> QED BY <2>1, <2>2, IndividualizeInOrder
<1>3. ks[i] = Refine(g, l)
  BY DEF IsTrail
<1> HIDE DEF l
<1>4. KeepsOrder(l, ks[i])
  BY <1>2, <1>3 DEF RefinesInOrder, InOrder, Enumerates
<1>5. KeepsOrder(ks[i], ks[n])
  BY <1>1, TrailOrder
<1> QED BY <1>4, <1>5, OrderTransitive DEF l

\* Two trails with the same vertices so far are at the same node.
LEMMA TrailsShare ==
    ASSUME NEW g, NEW k, NEW n \in Nat, NEW m \in Nat,
           NEW ks, NEW vs, IsTrail(g, k, n, ks, vs),
           NEW ls, NEW ws, IsTrail(g, k, m, ls, ws),
           NEW d \in Nat, d <= n, d <= m, \A i \in 1 .. d : vs[i] = ws[i]
    PROVE  ks[d] = ls[d]
<1> DEFINE T == {j \in 0 .. d : ks[j] = ls[j]}
<1>1. 0 \in T
  BY DEF IsTrail
<1>2. ASSUME NEW j \in 1 .. d, j-1 \in T PROVE j \in T
  <2>1. j \in 1 .. n /\ j \in 1 .. m /\ ks[j-1] = ls[j-1] /\ vs[j] = ws[j]
    BY <1>2
  <2>2. /\ ks[j] = Refine(g, Individualize(ks[j-1], vs[j]))
        /\ ls[j] = Refine(g, Individualize(ls[j-1], ws[j]))
    BY <2>1 DEF IsTrail
  <2> QED BY <2>1, <2>2
<1>3. \A j \in 0 .. d : j \in T
  <2> HIDE DEF T
  <2> QED BY <1>1, <1>2, UpTo
<1>4. d \in 0 .. d
  OBVIOUS
<1> QED BY <1>3, <1>4

(***************************************************************************)
(* The map between two leaves takes the vertices of the one's trail to     *)
(* those of the other's, down to the first in which the trails differ.     *)
(***************************************************************************)
LEMMA LeafMapFollows ==
    ASSUME RefinesInOrder, NEW g \in Graphs, NEW k, InOrder(k),
           NEW n \in Nat, NEW ks, NEW vs, IsTrail(g, k, n, ks, vs), IsDiscrete(ks[n]),
           NEW m \in Nat, NEW ls, NEW ws, IsTrail(g, k, m, ls, ws), IsDiscrete(ls[m]),
           NEW d \in Nat, d <= n, d <= m, \A i \in 1 .. d-1 : vs[i] = ws[i],
           NEW i \in 1 .. d
    PROVE  LeafMap(ks[n], ls[m])[vs[i]] = ws[i]
<1> DEFINE node == ks[i-1]
<1>1. i \in 1 .. n /\ i \in 1 .. m /\ i-1 \in 0 .. n /\ n \in 0 .. n /\ m \in 0 .. m
      /\ i-1 \in Nat /\ i-1 <= n /\ i-1 <= m
      /\ 1 .. i-1 \subseteq 1 .. d-1
  OBVIOUS
<1>2. ls[i-1] = node
  <2>1. \A j \in 1 .. i-1 : vs[j] = ws[j]
    BY <1>1
  <2> DEFINE e == i-1
  <2>2. e \in Nat /\ e <= n /\ e <= m /\ \A j \in 1 .. e : vs[j] = ws[j]
    BY <1>1, <2>1
  <2> HIDE DEF e
  <2>3. ks[e] = ls[e]
    BY <2>2, TrailsShare
  <2> QED BY <2>3 DEF e
<1>3. WellFormed(node) /\ IsLeaf(ks[n]) /\ IsLeaf(ls[m])
  BY <1>1, InOrderIsApart, TrailWellFormed DEF IsLeaf
<1>4. /\ vs[i] \in Nodes /\ node.color[vs[i]] = SelectFirst(node) /\ ~IsDiscrete(node)
      /\ ws[i] \in Nodes /\ node.color[ws[i]] = SelectFirst(node)
  BY <1>1, <1>2 DEF IsTrail
<1>5. /\ KeepsOrder(Individualize(node, vs[i]), ks[n])
      /\ KeepsOrder(Individualize(node, ws[i]), ls[m])
  BY <1>1, <1>2, TrailSets
<1> HIDE DEF node
<1>6. ~Alone(node, vs[i]) /\ ~Alone(node, ws[i])
  BY <1>3, <1>4, SelectedSplits
<1> QED BY <1>3, <1>4, <1>5, <1>6, LeafMapTakes

-----------------------------------------------------------------------------
\* What the run checks of an equal leaf.
JumpsTo(p) ==
    /\ IsAutomorphism(p)
    /\ \A i \in 1 .. lca : p[best.path[i] - 1] = Path[i] - 1
    /\ \A i \in 1 .. lca-1 : best.path[i] - 1 = Path[i] - 1

\* Both leaves are colorings as documented.
LEMMA EqualLeaves ==
    ASSUME CallsLegal, RefinesApart, TInv, EqualLeaf
    PROVE  IsLeaf(best.leaf) /\ IsLeaf(coloring)
<1>1. /\ SInv /\ BestLeafReplays /\ BestHasTrail /\ best.has_value
      /\ graph \in Graphs /\ InOrder(input)
      /\ pc = "select" /\ IsDiscrete(coloring)
  BY DEF TInv, EqualLeaf, AtLeaf, SInv, Legal
<1>2. PICK ks : IsLeafTrail(graph, input, ks, best.path, best.leaf)
  BY <1>1 DEF BestHasTrail
<1>3. IsLeafTrail(graph, input, CurrentColorings, Path, coloring)
  BY <1>1, CurrentTrail
<1>4. Len(best.path) \in Nat /\ Len(Path) \in Nat
  BY <1>1, CurrentTrail DEF SInv, IInv, Shapes, IsBest
<1>5. Len(best.path) \in 0 .. Len(best.path) /\ Len(Path) \in 0 .. Len(Path)
  BY <1>4
<1>6. WellFormed(best.leaf) /\ WellFormed(coloring)
  BY <1>1, <1>2, <1>3, <1>4, <1>5, TrailWellFormed DEF IsLeafTrail
<1> QED BY <1>1, <1>6 DEF IsLeaf, BestLeafReplays

LEMMA EqualLeafJumps ==
    ASSUME CallsLegal, RefinesInOrder, EqualIsSame, TInv, EqualLeaf
    PROVE  JumpsTo(LeafMap(best.leaf, coloring))
<1> DEFINE n == Len(best.path)
           m == Len(stack)
           p == LeafMap(best.leaf, coloring)
<1>1. /\ SInv /\ BestLeafReplays /\ BestHasTrail /\ best.has_value
      /\ graph \in Graphs /\ graph \in [Nodes -> SUBSET Nodes] /\ InOrder(input)
      /\ pc = "select" /\ IsDiscrete(coloring)
  BY DEF TInv, EqualLeaf, AtLeaf, CallsLegal, SInv, Legal
<1>2. PICK ks : IsTrail(graph, input, n, ks, Vertices(best.path)) /\ ks[n] = best.leaf
  BY <1>1 DEF BestHasTrail, IsLeafTrail
<1>3. PICK ls : /\ IsTrail(graph, input, m, ls, Vertices(Path))
                /\ ls[m] = coloring
                /\ m \in Nat /\ Len(Path) = m
                /\ \A i \in 1 .. m : Path[i] = stack[i].vertex
  BY <1>1, CurrentTrail DEF IsLeafTrail
<1>4. /\ n \in Nat /\ lca \in 1 .. m /\ lca <= n
      /\ \A i \in 1 .. lca-1 : stack[i].vertex = best.path[i]
  BY <1>1, SharedAtLeaf DEF SInv, IInv, LcaInv, Shapes, IsBest
<1>5. /\ \A i \in 1 .. n : Vertices(best.path)[i] = best.path[i] - 1
      /\ \A i \in 1 .. m : Vertices(Path)[i] = Path[i] - 1
  BY <1>3 DEF Vertices
<1>6. \A i \in 1 .. lca-1 : best.path[i] - 1 = Path[i] - 1
  BY <1>3, <1>4
<1>7. IsDiscrete(best.leaf) /\ best.graph = ReorderGraph(graph, best.leaf)
  BY <1>1 DEF BestLeafReplays
<1>8. \A i \in 1 .. lca : p[best.path[i] - 1] = Path[i] - 1
  <2> TAKE i \in 1 .. lca
  <2> DEFINE vs == Vertices(best.path)
             ws == Vertices(Path)
  <2>1. /\ lca \in Nat /\ lca <= n /\ lca <= m /\ i \in 1 .. n /\ i \in 1 .. m
        /\ \A j \in 1 .. lca-1 : vs[j] = ws[j]
    BY <1>3, <1>4, <1>5, <1>6
  <2>2. /\ n \in Nat /\ IsTrail(graph, input, n, ks, vs) /\ IsDiscrete(ks[n])
        /\ m \in Nat /\ IsTrail(graph, input, m, ls, ws) /\ IsDiscrete(ls[m])
    BY <1>1, <1>2, <1>3, <1>4, <1>7
  <2>3. vs[i] = best.path[i] - 1 /\ ws[i] = Path[i] - 1
    BY <1>5, <2>1
  <2> HIDE DEF n, m, vs, ws
  <2>4. LeafMap(ks[n], ls[m])[vs[i]] = ws[i]
    BY <1>1, <2>1, <2>2, LeafMapFollows
  <2> QED BY <1>2, <1>3, <2>3, <2>4 DEF n, m
<1>9. IsLeaf(best.leaf) /\ IsLeaf(coloring)
  BY InOrderIsApart, EqualLeaves
<1>10. KeepsOrder(input, best.leaf) /\ KeepsOrder(input, coloring)
  <2>1. KeepsOrder(ks[0], ks[n]) /\ KeepsOrder(ls[0], ls[m])
    <3>1. 0 \in 0 .. n /\ 0 \in 0 .. m
      BY <1>3, <1>4
    <3> QED BY <1>1, <1>2, <1>3, <1>4, <3>1, TrailOrder
  <2>2. /\ ks[0] = Refine(graph, input) /\ ls[0] = Refine(graph, input)
        /\ KeepsOrder(input, Refine(graph, input))
    BY <1>1, <1>2, <1>3 DEF IsTrail, RefinesInOrder, InOrder, Enumerates
  <2> QED BY <1>2, <1>3, <2>1, <2>2, OrderTransitive
<1>11. Enumerates(best.leaf) /\ Enumerates(coloring) /\ input \in Colorings
       /\ best.leaf \in Colorings /\ coloring \in Colorings
  BY <1>1, <1>9 DEF IsLeaf, WellFormed, InOrder, Enumerates
<1>12. ReorderGraph(graph, best.leaf) = ReorderGraph(graph, coloring)
  BY <1>1, <1>7, <1>11 DEF EqualLeaf, LeafGraph, EqualIsSame
<1>13. DOMAIN p = Nodes
  BY DEF LeafMap
<1> HIDE DEF p
<1>14. KeepsColoredGraph(p)
  <2> SUFFICES ASSUME NEW u \in Nodes, NEW v \in Nodes
               PROVE  /\ p[u] = p[v] => u = v
                      /\ input.color[p[u]] = input.color[u]
                      /\ p[v] \in graph[p[u]] <=> v \in graph[u]
    BY <1>13 DEF KeepsColoredGraph
  <2>1. input.color[p[u]] = input.color[u]
    BY <1>9, <1>10, <1>11, LeafMapKeepsColors DEF p
  <2>2. /\ p[u] = p[v] => u = v
        /\ p[v] \in graph[p[u]] <=> v \in graph[u]
    BY <1>1, <1>11, <1>12, LeafMapKeepsEdges DEF p
  <2> QED BY <2>1, <2>2
<1> QED BY <1>6, <1>8, <1>13, <1>14 DEF JumpsTo, IsAutomorphism, p

(***************************************************************************)
(* Whenever a leaf compares equal to the best one, the map between them is *)
(* an automorphism of the colored graph that fixes the shared path and     *)
(* takes the best leaf's branch below it to the one just searched: the     *)
(* search may resume at the shared frame (ir.hpp:204-217).                 *)
(***************************************************************************)
THEOREM JumpIsJustified ==
    ASSUME CallsLegal, RefinesInOrder, EqualIsSame
    PROVE  Spec => JumpJustified
<1>1. TInv /\ EqualLeaf => JumpsTo(LeafMap(best.leaf, coloring))
  BY EqualLeafJumps
<1>2. LeafMap(best.leaf, coloring)
        = [u \in Nodes |-> coloring.label[LabelPosition(best.leaf, u)]]
  BY DEF LeafMap
<1>3. TInv /\ [Next]_vars =>
        [EqualLeaf =>
          LET p == [u \in Nodes |-> coloring.label[LabelPosition(best.leaf, u)]]
              vertex(path, i) == path[i] - 1
          IN  /\ IsAutomorphism(p)
              /\ \A i \in 1 .. lca : p[vertex(best.path, i)] = vertex(Path, i)
              /\ \A i \in 1 .. lca-1 : vertex(best.path, i) = vertex(Path, i)]_vars
  BY <1>1, <1>2 DEF JumpsTo
<1> QED BY <1>3, TrailInvariance, PTL DEF Spec, JumpJustified

-----------------------------------------------------------------------------
(***************************************************************************)
(* Orbits whose pointers stay in the classes of a partition R of the nodes,*)
(* and the calls that keep them so.                                        *)
(***************************************************************************)
IsPartition(R) ==
    /\ R \in [Nodes -> SUBSET Nodes]
    /\ \A u \in Nodes : u \in R[u]
    /\ \A u \in Nodes : \A v \in R[u] : R[v] = R[u]

Sound(R, o) ==
    /\ o \in Orbits
    /\ \A v \in Nodes : o.partition[v] \in R[v]

LEMMA ClearIsSound ==
    ASSUME NEW R, IsPartition(R)
    PROVE  Sound(R, ClearOrbits)
<1>1. ClearOrbits \in Orbits
  BY DEF ClearOrbits, Orbits
<1>2. \A v \in Nodes : ClearOrbits.partition[v] = v
  BY DEF ClearOrbits
<1> QED BY <1>1, <1>2 DEF Sound, IsPartition

LEMMA RepresentativeInClass ==
    ASSUME NEW R, IsPartition(R), NEW o, Sound(R, o), NEW v \in Nodes
    PROVE  Representative(o, v) \in Nodes /\ Representative(o, v) \in R[v]
<1> DEFINE par == o.partition
<1>1. par \in [Nodes -> Nodes] /\ N \in Nat
  BY NAssumption DEF Sound, Orbits
<1>2. \A u \in Nodes : par[u] \in R[u]
  BY DEF Sound
<1>3. Representative(o, v) = WalkEnd(N, par, v)
  BY DEF Representative, WalkEnd
<1> HIDE DEF par
<1>4. PICK w : IsWalk(N, Nodes, par, v, w) /\ WalkEnd(N, par, v) = w[N]
  BY <1>1, WalkTaken
<1> DEFINE T == {i \in 0 .. N : w[i] \in R[v]}
<1>5. 0 \in T
  BY <1>1, <1>4 DEF IsWalk, IsPartition
<1>6. ASSUME NEW i \in 1 .. N, i-1 \in T PROVE i \in T
  <2>1. i-1 \in 0 .. N /\ w[i-1] \in Nodes /\ w[i] = par[w[i-1]]
    BY <1>1, <1>4 DEF IsWalk
  <2>2. w[i-1] \in R[v] /\ w[i] \in R[w[i-1]]
    BY <1>2, <1>6, <2>1
  <2> QED BY <2>2 DEF IsPartition
<1>7. \A i \in 0 .. N : i \in T
  <2> HIDE DEF T
  <2> QED BY <1>1, <1>5, <1>6, UpTo
<1>8. N \in 0 .. N /\ w[N] \in Nodes
  BY <1>1, <1>4 DEF IsWalk
<1> QED BY <1>3, <1>4, <1>7, <1>8

\* A pointer to an exchanged node; sizes may change.
LEMMA PointerIsSound ==
    ASSUME NEW R, IsPartition(R), NEW o, Sound(R, o),
           NEW v \in Nodes, NEW w \in Nodes, w \in R[v],
           NEW size \in [Nodes -> Nat]
    PROVE  Sound(R, [partition |-> [o.partition EXCEPT ![v] = w], size |-> size])
<1> DEFINE part == [o.partition EXCEPT ![v] = w]
           x == [partition |-> part, size |-> size]
<1>1. o.partition \in [Nodes -> Nodes]
  BY DEF Sound, Orbits
<1>2. part \in [Nodes -> Nodes]
  BY <1>1
<1>3. \A u \in Nodes : part[u] = IF u = v THEN w ELSE o.partition[u]
  BY <1>1
<1> HIDE DEF part
<1>4. x \in Orbits /\ x.partition = part
  BY <1>2 DEF Orbits
<1> HIDE DEF x
<1>5. \A u \in Nodes : part[u] \in R[u]
  BY <1>3 DEF Sound
<1>6. Sound(R, x)
  BY <1>4, <1>5 DEF Sound
<1> QED BY <1>6 DEF x, part

LEMMA CompressIsSound ==
    ASSUME NEW R, IsPartition(R), NEW o, Sound(R, o), NEW v \in Nodes
    PROVE  Sound(R, Compress(o, v))
<1> DEFINE r == Representative(o, v)
<1>1. r \in Nodes /\ r \in R[v]
  BY RepresentativeInClass
<1>2. Compress(o, v) = [o EXCEPT !.partition[v] = r]
  BY DEF Compress
<1> HIDE DEF r
<1>3. o \in [partition : [Nodes -> Nodes], size : [Nodes -> Nat]]
  BY DEF Sound, Orbits
<1>4. Compress(o, v) = [partition |-> [o.partition EXCEPT ![v] = r], size |-> o.size]
  BY <1>2, <1>3
<1>5. o.size \in [Nodes -> Nat]
  BY <1>3
<1> QED BY <1>1, <1>4, <1>5, PointerIsSound

LEMMA AttachIsSound ==
    ASSUME NEW R, IsPartition(R), NEW o, Sound(R, o),
           NEW child \in Nodes, NEW root \in Nodes, root \in R[child]
    PROVE  Sound(R, Attach(o, child, root))
<1> DEFINE size == [o.size EXCEPT ![root] = @ + o.size[child]]
<1>1. o \in [partition : [Nodes -> Nodes], size : [Nodes -> Nat]]
  BY DEF Sound, Orbits
<1>2. size \in [Nodes -> Nat]
  BY <1>1
<1> DEFINE part == [o.partition EXCEPT ![child] = root]
<1>3. Attach(o, child, root) = [o EXCEPT !.partition = part, !.size = size]
  BY DEF Attach
<1> HIDE DEF size, part
<1>4. [o EXCEPT !.partition = part] = [partition |-> part, size |-> o.size]
  BY <1>1
<1>5. [[partition |-> part, size |-> o.size] EXCEPT !.size = size]
        = [partition |-> part, size |-> size]
  OBVIOUS
<1>6. Attach(o, child, root) = [partition |-> part, size |-> size]
  BY <1>3, <1>4, <1>5
<1> QED BY <1>2, <1>6, PointerIsSound DEF part

LEMMA UnionIsSound ==
    ASSUME NEW R, IsPartition(R), NEW o, Sound(R, o),
           NEW v1 \in Nodes, NEW v2 \in Nodes, v2 \in R[v1]
    PROVE  Sound(R, UnionOrbits(o, v1, v2))
<1> DEFINE r1 == Representative(o, v1)
           r2 == Representative(o, v2)
           found == Compress(Compress(o, v1), v2)
<1>1. /\ r1 \in Nodes /\ r1 \in R[v1]
      /\ r2 \in Nodes /\ r2 \in R[v2]
  BY RepresentativeInClass
<1>2. Sound(R, found)
  BY CompressIsSound
<1>3. \/ UnionOrbits(o, v1, v2) = Attach(found, r2, r1)
      \/ UnionOrbits(o, v1, v2) = Attach(found, r1, r2)
      \/ UnionOrbits(o, v1, v2) = found
  BY DEF UnionOrbits
<1> HIDE DEF r1, r2, found
<1>4. r2 \in R[r1] /\ r1 \in R[r2]
  <2>1. R[r1] = R[v1] /\ R[r2] = R[v2] /\ R[v2] = R[v1]
    BY <1>1 DEF IsPartition
  <2> QED BY <1>1, <2>1 DEF IsPartition
<1>6. Sound(R, Attach(found, r2, r1)) /\ Sound(R, Attach(found, r1, r2))
  BY <1>1, <1>2, <1>4, AttachIsSound
<1> QED BY <1>2, <1>3, <1>6

\* Recording an automorphism, one union after the other.
LEMMA RecordIsSound ==
    ASSUME NEW R, IsPartition(R), NEW o, Sound(R, o),
           NEW a \in [Positions -> Nodes], NEW b \in [Positions -> Nodes],
           \A q \in Positions : b[q] \in R[a[q]]
    PROVE  Sound(R, RecordIsomorphicColorings(o, a, b))
<1> DEFINE V == {x \in Orbits : Sound(R, x)}
           after(x, i) == IF a[i-1] = b[i-1] THEN x ELSE UnionOrbits(x, a[i-1], b[i-1])
           Solves(w) == w = [i \in 0 .. N |->
                IF i = 0 THEN o
                ELSE IF a[i-1] = b[i-1] THEN w[i-1]
                ELSE UnionOrbits(w[i-1], a[i-1], b[i-1])]
           chosen == CHOOSE w : Solves(w)
<1>1. N \in Nat /\ o \in V
  BY NAssumption DEF Sound
<1>2. \A x \in V, i \in 1 .. N : after(x, i) \in V
  <2> TAKE x \in V, i \in 1 .. N
  <2>1. i-1 \in Positions
    BY <1>1 DEF Positions
  <2>2. a[i-1] \in Nodes /\ b[i-1] \in Nodes /\ b[i-1] \in R[a[i-1]]
    BY <2>1
  <2>3. Sound(R, UnionOrbits(x, a[i-1], b[i-1]))
    BY <2>2, UnionIsSound
  <2> QED BY <2>3 DEF Sound
<1>3. \E w : Solves(w)
  <2> DEFINE step == [i \in 1 .. N |-> [x \in V |-> after(x, i)]]
  <2>1. /\ step \in [1 .. N -> [V -> V]]
        /\ \A i \in 1 .. N, x \in V : step[i][x] = after(x, i)
    BY <1>2
  <2> HIDE DEF step, V, after
  <2>2. PICK w : Iterates(N, V, o, step, w)
    BY <1>1, <2>1, IterationExists
  <2>3. /\ w \in [0 .. N -> V] /\ w[0] = o
        /\ \A i \in 1 .. N : w[i] = after(w[i-1], i)
    <3>1. w \in [0 .. N -> V] /\ w[0] = o /\ \A i \in 1 .. N : w[i] = step[i][w[i-1]]
      BY <2>2 DEF Iterates
    <3>2. ASSUME NEW i \in 1 .. N PROVE w[i] = after(w[i-1], i)
      <4>1. i-1 \in 0 .. N
        BY <1>1
      <4>2. w[i-1] \in V
        BY <3>1, <4>1
      <4> QED BY <2>1, <3>1, <4>2
    <3> QED BY <3>1, <3>2
  <2>4. w = [i \in 0 .. N |-> IF i = 0 THEN o ELSE after(w[i-1], i)]
    BY <2>3
  <2>5. Solves(w)
    BY <2>4 DEF after
  <2> QED BY <2>5
<1>4. Solves(chosen)
  <2> HIDE DEF Solves
  <2> QED BY <1>3
<1>5. RecordIsomorphicColorings(o, a, b) = chosen[N]
  BY DEF RecordIsomorphicColorings
<1> HIDE DEF chosen
<1>6. chosen = [i \in 0 .. N |-> IF i = 0 THEN o ELSE after(chosen[i-1], i)]
  BY <1>4
<1> HIDE DEF Solves, after, V
<1>7. chosen[0] = o /\ \A i \in 1 .. N : chosen[i] = after(chosen[i-1], i)
  BY <1>1, <1>6
<1>8. chosen[N] \in V
  <2> DEFINE T == {i \in 0 .. N : chosen[i] \in V}
  <2>1. 0 \in T
    BY <1>1, <1>7
  <2>2. \A i \in 1 .. N : i-1 \in T => i \in T
    BY <1>2, <1>7
  <2>3. \A i \in 0 .. N : i \in T
    <3> HIDE DEF T
    <3> QED BY <1>1, <2>1, <2>2, UpTo
  <2> QED BY <1>1, <2>3
<1> QED BY <1>5, <1>8 DEF V

-----------------------------------------------------------------------------
(***************************************************************************)
(* Two nodes are exchanged by an automorphism with an inverse that fixes   *)
(* the nodes in F: they are alike.                                         *)
(***************************************************************************)
Keeps(g, k, F, p) ==
    /\ p \in [Nodes -> Nodes]
    /\ \A u, v \in Nodes : /\ p[u] = p[v] => u = v
                           /\ k.color[p[u]] = k.color[u]
                           /\ p[v] \in g[p[u]] <=> v \in g[u]
    /\ \A f \in F : p[f] = f

Inverses(p, q) == \A u \in Nodes : q[p[u]] = u /\ p[q[u]] = u

Exchanged(g, k, F, u, v) ==
    \E p, q : /\ Keeps(g, k, F, p) /\ Keeps(g, k, F, q) /\ Inverses(p, q)
              /\ p[u] = v

LEMMA InverseKeeps ==
    ASSUME NEW g, NEW k, NEW F \in SUBSET Nodes, NEW p, Keeps(g, k, F, p),
           NEW q \in [Nodes -> Nodes], Inverses(p, q)
    PROVE  Keeps(g, k, F, q)
<1>1. ASSUME NEW u \in Nodes, NEW v \in Nodes
      PROVE  /\ q[u] = q[v] => u = v
             /\ k.color[q[u]] = k.color[u]
             /\ q[v] \in g[q[u]] <=> v \in g[u]
  <2>1. q[u] \in Nodes /\ q[v] \in Nodes /\ p[q[u]] = u /\ p[q[v]] = v
    BY DEF Inverses
  <2>2. k.color[p[q[u]]] = k.color[q[u]]
    BY <2>1 DEF Keeps
  <2>3. p[q[v]] \in g[p[q[u]]] <=> q[v] \in g[q[u]]
    BY <2>1 DEF Keeps
  <2> QED BY <2>1, <2>2, <2>3
<1>2. ASSUME NEW f \in F PROVE q[f] = f
  BY DEF Inverses, Keeps
<1> QED BY <1>1, <1>2 DEF Keeps

LEMMA ExchangedSelf ==
    ASSUME NEW g, NEW k, NEW F \in SUBSET Nodes, NEW u \in Nodes
    PROVE  Exchanged(g, k, F, u, u)
<1> DEFINE p == [x \in Nodes |-> x]
<1>1. Keeps(g, k, F, p) /\ Inverses(p, p) /\ p[u] = u
  BY DEF Keeps, Inverses
<1> HIDE DEF p
<1> QED BY <1>1 DEF Exchanged

LEMMA ExchangedBack ==
    ASSUME NEW g, NEW k, NEW F, NEW u \in Nodes, NEW v, Exchanged(g, k, F, u, v)
    PROVE  Exchanged(g, k, F, v, u)
<1>1. PICK p, q : /\ Keeps(g, k, F, p) /\ Keeps(g, k, F, q) /\ Inverses(p, q)
                  /\ p[u] = v
  BY DEF Exchanged
<1>2. q[v] = u /\ Inverses(q, p)
  BY <1>1 DEF Inverses
<1> QED BY <1>1, <1>2 DEF Exchanged

LEMMA KeepsComposed ==
    ASSUME NEW g, NEW k, NEW F \in SUBSET Nodes,
           NEW p, Keeps(g, k, F, p), NEW r, Keeps(g, k, F, r)
    PROVE  Keeps(g, k, F, [x \in Nodes |-> r[p[x]]])
<1> DEFINE c == [x \in Nodes |-> r[p[x]]]
<1>1. \A x \in Nodes : p[x] \in Nodes /\ r[p[x]] \in Nodes /\ c[x] = r[p[x]]
  BY DEF Keeps
<1>2. c \in [Nodes -> Nodes]
  BY <1>1
<1> HIDE DEF c
<1>3. ASSUME NEW u \in Nodes, NEW v \in Nodes
      PROVE  /\ c[u] = c[v] => u = v
             /\ k.color[c[u]] = k.color[u]
             /\ c[v] \in g[c[u]] <=> v \in g[u]
  <2>1. /\ p[u] = p[v] => u = v
        /\ k.color[p[u]] = k.color[u]
        /\ p[v] \in g[p[u]] <=> v \in g[u]
    BY DEF Keeps
  <2>2. /\ r[p[u]] = r[p[v]] => p[u] = p[v]
        /\ k.color[r[p[u]]] = k.color[p[u]]
        /\ r[p[v]] \in g[r[p[u]]] <=> p[v] \in g[p[u]]
    BY <1>1 DEF Keeps
  <2> QED BY <1>1, <2>1, <2>2
<1>4. \A f \in F : c[f] = f
  BY <1>1 DEF Keeps
<1>5. Keeps(g, k, F, c)
  BY <1>2, <1>3, <1>4 DEF Keeps
<1> QED BY <1>5 DEF c

LEMMA ExchangedOn ==
    ASSUME NEW g, NEW k, NEW F \in SUBSET Nodes, NEW u \in Nodes, NEW v, NEW w,
           Exchanged(g, k, F, u, v), Exchanged(g, k, F, v, w)
    PROVE  Exchanged(g, k, F, u, w)
<1>1. PICK p, q : /\ Keeps(g, k, F, p) /\ Keeps(g, k, F, q) /\ Inverses(p, q)
                  /\ p[u] = v
  BY DEF Exchanged
<1>2. PICK r, s : /\ Keeps(g, k, F, r) /\ Keeps(g, k, F, s) /\ Inverses(r, s)
                  /\ r[v] = w
  BY DEF Exchanged
<1> DEFINE a == [x \in Nodes |-> r[p[x]]]
           b == [x \in Nodes |-> q[s[x]]]
<1>3. Keeps(g, k, F, a) /\ Keeps(g, k, F, b)
  BY <1>1, <1>2, KeepsComposed
<1>4. Inverses(a, b)
  <2> SUFFICES ASSUME NEW x \in Nodes PROVE b[a[x]] = x /\ a[b[x]] = x
    BY DEF Inverses
  <2>1. /\ p[x] \in Nodes /\ r[p[x]] \in Nodes /\ s[x] \in Nodes /\ q[s[x]] \in Nodes
    BY <1>1, <1>2 DEF Keeps
  <2> QED BY <1>1, <1>2, <2>1 DEF Inverses
<1>5. a[u] = w
  BY <1>1, <1>2
<1> HIDE DEF a, b
<1> QED BY <1>3, <1>4, <1>5 DEF Exchanged

\* Fewer nodes to fix.
LEMMA ExchangedMore ==
    ASSUME NEW g, NEW k, NEW F, NEW G, G \subseteq F, NEW u, NEW v,
           Exchanged(g, k, F, u, v)
    PROVE  Exchanged(g, k, G, u, v)
<1>1. PICK p, q : /\ Keeps(g, k, F, p) /\ Keeps(g, k, F, q) /\ Inverses(p, q)
                  /\ p[u] = v
  BY DEF Exchanged
<1>2. Keeps(g, k, G, p) /\ Keeps(g, k, G, q)
  BY <1>1 DEF Keeps
<1> QED BY <1>1, <1>2 DEF Exchanged

Alike(g, k, F) == [u \in Nodes |-> {v \in Nodes : Exchanged(g, k, F, u, v)}]

LEMMA ExchangedIsNode ==
    ASSUME NEW g, NEW k, NEW F, NEW u \in Nodes, NEW v, Exchanged(g, k, F, u, v)
    PROVE  v \in Nodes
BY DEF Exchanged, Keeps

LEMMA AlikeIsPartition ==
    ASSUME NEW g, NEW k, NEW F \in SUBSET Nodes
    PROVE  IsPartition(Alike(g, k, F))
<1> DEFINE R == Alike(g, k, F)
<1>1. /\ R \in [Nodes -> SUBSET Nodes]
      /\ \A u, v \in Nodes : v \in R[u] <=> Exchanged(g, k, F, u, v)
  BY DEF Alike
<1> HIDE DEF R
<1>2. \A u \in Nodes : u \in R[u]
  BY <1>1, ExchangedSelf
<1>3. ASSUME NEW u \in Nodes, NEW v \in R[u] PROVE R[v] = R[u]
  <2>1. v \in Nodes /\ Exchanged(g, k, F, u, v) /\ Exchanged(g, k, F, v, u)
    BY <1>1, ExchangedBack
  <2>2. ASSUME NEW w \in Nodes PROVE w \in R[v] <=> w \in R[u]
    <3>1. Exchanged(g, k, F, v, w) => Exchanged(g, k, F, u, w)
      BY <2>1, ExchangedOn
    <3>2. Exchanged(g, k, F, u, w) => Exchanged(g, k, F, v, w)
      BY <2>1, ExchangedOn
    <3> QED BY <1>1, <2>1, <3>1, <3>2
  <2> QED BY <1>1, <2>1, <2>2
<1>4. IsPartition(R)
  BY <1>1, <1>2, <1>3 DEF IsPartition
<1> QED BY <1>4 DEF R

-----------------------------------------------------------------------------
(***************************************************************************)
(* The orbits of the best leaf.                                            *)
(***************************************************************************)
SharedVertices == {best.path[i] - 1 : i \in 1 .. lca-1}

BestIsSound ==
    best.has_value => Sound(Alike(graph, input, SharedVertices), best.orbits)

\* The pointers of the best path are one past a node.
LEMMA BestVertices ==
    ASSUME TInv, best.has_value
    PROVE  /\ Len(best.path) \in Nat /\ lca \in Nat /\ lca <= Len(best.path)
           /\ \A i \in 1 .. Len(best.path) : best.path[i] - 1 \in Nodes
           /\ SharedVertices \in SUBSET Nodes
<1>1. PICK ks : IsLeafTrail(graph, input, ks, best.path, best.leaf)
  BY DEF TInv, BestHasTrail
<1>2. /\ Len(best.path) \in Nat /\ lca \in Nat /\ lca <= Len(best.path)
  BY DEF TInv, SInv, IInv, LcaInv, Shapes, IsBest
<1>3. \A i \in 1 .. Len(best.path) : best.path[i] - 1 \in Nodes
  BY <1>1 DEF IsLeafTrail, IsTrail, Vertices
<1>4. 1 .. lca-1 \subseteq 1 .. Len(best.path)
  BY <1>2
<1> QED BY <1>2, <1>3, <1>4 DEF SharedVertices

SharedFine == best.has_value => SharedVertices \in SUBSET Nodes

LEMMA SharedAreNodes == TInv => SharedFine
BY BestVertices DEF SharedFine

LEMMA NextBestVertices ==
    TInv' /\ best'.has_value => SharedVertices' \in SUBSET Nodes
<1>1. TInv' => SharedFine'
  BY SharedAreNodes, PTL
<1> QED BY <1>1 DEF SharedFine

\* What an update leaves in the orbits, the path and the flag.
LEMMA OrbitsReplaced ==
    ASSUME IsBest(best), NEW o, best' = [best EXCEPT !.orbits = o]
    PROVE  best'.orbits = o /\ best'.path = best.path
<1>1. best' = [has_value |-> best.has_value, leaf |-> best.leaf, graph |-> best.graph,
               path |-> best.path, orbits |-> o, group_size |-> best.group_size]
  BY DEF IsBest
<1> QED BY <1>1

LEMMA LeafMapInverse ==
    ASSUME NEW b, Enumerates(b), NEW c, Enumerates(c)
    PROVE  /\ LeafMap(b, c) \in [Nodes -> Nodes]
           /\ Inverses(LeafMap(b, c), LeafMap(c, b))
           /\ \A q \in Positions : LeafMap(b, c)[b.label[q]] = c.label[q]
<1>1. ASSUME NEW k, Enumerates(k), NEW q \in Positions
      PROVE  k.label[q] \in Nodes /\ LabelPosition(k, k.label[q]) = q
  <2>1. k.label[q] \in Nodes
    BY <1>1, ColorsAreNodes
  <2>2. /\ LabelPosition(k, k.label[q]) \in Positions
        /\ k.label[LabelPosition(k, k.label[q])] = k.label[q]
    BY <1>1, <2>1, LabelPositionFound
  <2> QED BY <1>1, <2>1, <2>2 DEF Enumerates, LabelsPermutation
<1>2. ASSUME NEW k, Enumerates(k), NEW l, Enumerates(l), NEW u \in Nodes
      PROVE  LeafMap(k, l)[u] \in Nodes /\ LeafMap(l, k)[LeafMap(k, l)[u]] = u
  <2> DEFINE q == LabelPosition(k, u)
  <2>1. q \in Positions /\ k.label[q] = u
    BY <1>2, LabelPositionFound
  <2>2. LeafMap(k, l)[u] = l.label[q]
    BY DEF LeafMap
  <2> HIDE DEF q
  <2>3. l.label[q] \in Nodes /\ LabelPosition(l, l.label[q]) = q
    BY <1>1, <1>2, <2>1
  <2> QED BY <2>1, <2>2, <2>3 DEF LeafMap
<1>3. LeafMap(b, c) \in [Nodes -> Nodes]
  BY <1>2 DEF LeafMap
<1>4. Inverses(LeafMap(b, c), LeafMap(c, b))
  BY <1>2 DEF Inverses
<1>5. \A q \in Positions : LeafMap(b, c)[b.label[q]] = c.label[q]
  BY <1>1 DEF LeafMap
<1> QED BY <1>3, <1>4, <1>5

\* Equal leaves have exchanged nodes at each position.
LEMMA EqualLeafExchanges ==
    ASSUME CallsLegal, RefinesInOrder, EqualIsSame, TInv, EqualLeaf
    PROVE  /\ best.leaf.label \in [Positions -> Nodes]
           /\ coloring.label \in [Positions -> Nodes]
           /\ \A q \in Positions : Exchanged(graph, input, SharedVertices,
                                             best.leaf.label[q], coloring.label[q])
<1> DEFINE F == SharedVertices
           p == LeafMap(best.leaf, coloring)
           r == LeafMap(coloring, best.leaf)
<1>0. best.has_value
  BY DEF EqualLeaf
<1>1. F \in SUBSET Nodes
  BY <1>0, BestVertices
<1>2. Enumerates(best.leaf) /\ Enumerates(coloring)
  BY InOrderIsApart, EqualLeaves DEF IsLeaf, WellFormed
<1>3. /\ p \in [Nodes -> Nodes] /\ r \in [Nodes -> Nodes] /\ Inverses(p, r)
      /\ \A q \in Positions : p[best.leaf.label[q]] = coloring.label[q]
  BY <1>2, LeafMapInverse
<1>4. JumpsTo(p)
  BY EqualLeafJumps
<1> HIDE DEF p, r
<1>5. Keeps(graph, input, F, p)
  <2>1. \A f \in F : p[f] = f
    <3> SUFFICES ASSUME NEW i \in 1 .. lca-1 PROVE p[best.path[i] - 1] = best.path[i] - 1
      BY DEF SharedVertices
    <3>1. i \in 1 .. lca
      BY <1>0, BestVertices
    <3> QED BY <1>4, <3>1 DEF JumpsTo
  <2> QED BY <1>3, <1>4, <2>1 DEF Keeps, JumpsTo, IsAutomorphism, KeepsColoredGraph
<1> HIDE DEF F
<1>6. Keeps(graph, input, F, r)
  BY <1>1, <1>3, <1>5, InverseKeeps
<1>7. best.leaf.label \in [Positions -> Nodes] /\ coloring.label \in [Positions -> Nodes]
  BY <1>2 DEF Enumerates, Colorings
<1>8. \A q \in Positions : Exchanged(graph, input, F, best.leaf.label[q], coloring.label[q])
  BY <1>3, <1>5, <1>6 DEF Exchanged
<1> QED BY <1>7, <1>8 DEF F

\* The pointers stay in the classes of a partition R, which may get coarser as
\* long as the best leaf is the same.
LEMMA NextBestPointers ==
    ASSUME TInv, [Next]_vars, NEW R, IsPartition(R), NEW Q, IsPartition(Q),
           best'.path = best.path /\ lca' <= lca => \A u \in Nodes : R[u] \subseteq Q[u],
           best.has_value => Sound(R, best.orbits),
           EqualLeaf => /\ best.leaf.label \in [Positions -> Nodes]
                        /\ coloring.label \in [Positions -> Nodes]
                        /\ \A q \in Positions : coloring.label[q] \in R[best.leaf.label[q]],
           best'.has_value
    PROVE  Sound(Q, best'.orbits)
<1>0. /\ IsBest(best) /\ lca \in Nat
      /\ pc = "scan" => Len(stack) \in Nat /\ Len(stack) > 0
  BY SequenceLength DEF TInv, SInv, IInv, Shapes
<1>1. ASSUME NEW o, Sound(R, o), best'.path = best.path, lca' <= lca
      PROVE  Sound(Q, o)
  BY <1>1 DEF Sound
<1>2. CASE FirstLeaf \/ BetterLeaf
  <2>1. best'.orbits = ClearOrbits
    BY <1>2 DEF FirstLeaf, BetterLeaf, ReplaceBest
  <2> QED BY <2>1, ClearIsSound
<1>3. CASE EqualLeaf
  <2> DEFINE o == RecordIsomorphicColorings(best.orbits, best.leaf.label, coloring.label)
  <2>1. best.has_value /\ best' = [best EXCEPT !.orbits = o] /\ lca' = lca
    BY <1>3 DEF EqualLeaf
  <2>2. Sound(R, o)
    BY <1>3, <2>1, RecordIsSound
  <2> HIDE DEF o
  <2>3. best'.orbits = o /\ best'.path = best.path
    BY <1>0, <2>1, OrbitsReplaced
  <2> QED BY <1>0, <1>1, <2>1, <2>2, <2>3
<1>4. CASE UNCHANGED <<best, lca>>
  BY <1>0, <1>1, <1>4
<1>5. CASE SkipVertex /\ ~UNCHANGED best
  <2> DEFINE o == Compress(best.orbits, Top.vertex)
  <2>1. /\ best' = [best EXCEPT !.orbits = o]
        /\ OnBestPath /\ lca' = lca /\ Top.vertex < N /\ pc = "scan"
    BY <1>5 DEF SkipVertex, Pruned
  <2>2. Top.vertex \in Nodes
    <3>1. IsFrame(Top)
      BY <1>0, <2>1 DEF TInv, SInv, IInv, Shapes, Top
    <3>2. Top.vertex \in 0 .. N
      BY <3>1, Zenon DEF IsFrame
    <3> QED BY <2>1, <3>2, NAssumption DEF Nodes
  <2>3. Sound(R, o)
    BY <2>1, <2>2, CompressIsSound DEF OnBestPath
  <2> HIDE DEF o
  <2>4. best'.orbits = o /\ best'.path = best.path
    BY <1>0, <2>1, OrbitsReplaced
  <2> QED BY <1>0, <1>1, <2>1, <2>3, <2>4
<1>6. CASE PopFrame /\ ~UNCHANGED <<best, lca>>
  <2> DEFINE v == best.path[lca] - 1
             o == Compress(best.orbits, v)
             x == best.group_size * OrbitSize(best.orbits, v)
  <2>1. /\ OnBestPath /\ lca' = lca - 1 /\ pc = "scan"
        /\ best' = [best EXCEPT !.group_size = x, !.orbits = o]
    BY <1>6 DEF PopFrame
  <2>2. best.has_value /\ lca = Len(stack)
    BY <2>1 DEF OnBestPath
  <2>3. v \in Nodes
    <3>1. lca \in 1 .. Len(best.path)
      BY <1>0, <2>1, <2>2, BestVertices
    <3> QED BY <2>2, <3>1, BestVertices
  <2> HIDE DEF v
  <2>4. Sound(R, o)
    BY <2>2, <2>3, CompressIsSound
  <2> HIDE DEF o, x
  <2>5. best' = [has_value |-> best.has_value, leaf |-> best.leaf, graph |-> best.graph,
                 path |-> best.path, orbits |-> o, group_size |-> x]
    BY <1>0, <2>1 DEF IsBest
  <2>6. best'.orbits = o /\ best'.path = best.path
    BY <2>5
  <2>7. lca' <= lca
    BY <1>0, <2>1
  <2> QED BY <1>1, <2>4, <2>6, <2>7
<1> QED BY <1>2, <1>3, <1>4, <1>5, <1>6
        DEF Next, vars, InitialRefine, WorseLeaf, Push, IndividualizeVertex, Returned,
            SkipVertex

LEMMA NextBestIsSound ==
    ASSUME CallsLegal, RefinesInOrder, EqualIsSame,
           TInv, TInv', BestIsSound, [Next]_vars
    PROVE  BestIsSound'
<1> SUFFICES ASSUME best'.has_value
             PROVE  Sound(Alike(graph', input', SharedVertices'), best'.orbits)
  BY DEF BestIsSound
<1> DEFINE F == SharedVertices
           G == SharedVertices'
           g == graph
           k == input
           R == Alike(g, k, F)
           Q == Alike(g, k, G)
<1>1. graph' = graph /\ input' = input
  BY DEF Next, vars, InitialRefine, FirstLeaf, EqualLeaf, BetterLeaf, WorseLeaf,
         Push, SkipVertex, IndividualizeVertex, PopFrame, Returned
<1>2. G \in SUBSET Nodes /\ IsPartition(Q)
  BY NextBestVertices, AlikeIsPartition
<1>3. CASE ~best.has_value
  <2>1. FirstLeaf
    BY <1>3 DEF Next, vars, InitialRefine, EqualLeaf, BetterLeaf, WorseLeaf,
         Push, SkipVertex, IndividualizeVertex, PopFrame, Returned, OnBestPath, Pruned
  <2>2. best'.orbits = ClearOrbits
    BY <2>1 DEF FirstLeaf, ReplaceBest
  <2> HIDE DEF Q
  <2>3. Sound(Q, best'.orbits)
    BY <1>2, <2>2, ClearIsSound
  <2> QED BY <1>1, <2>3 DEF Q
<1>4. CASE best.has_value
  <2>1. F \in SUBSET Nodes /\ IsPartition(R)
    BY <1>4, BestVertices, AlikeIsPartition
  <2>2. ASSUME best'.path = best.path /\ lca' <= lca
        PROVE  \A u \in Nodes : R[u] \subseteq Q[u]
    <3>1. lca \in Nat /\ lca' \in Nat
      <4>1. lca' \in Nat
        BY DEF TInv, SInv, IInv, Shapes
      <4> QED BY <4>1 DEF TInv, SInv, IInv, Shapes
    <3>2. 1 .. lca'-1 \subseteq 1 .. lca-1
      <4>1. \A a, b \in Nat : a <= b => 1 .. a-1 \subseteq 1 .. b-1
        OBVIOUS
      <4> QED BY <2>2, <3>1, <4>1
    <3>3. G \subseteq F
      BY <2>2, <3>2 DEF SharedVertices
    <3> HIDE DEF F, G, g, k
    <3>4. \A u, v \in Nodes : Exchanged(g, k, F, u, v) => Exchanged(g, k, G, u, v)
      BY <3>3, ExchangedMore
    <3> QED BY <3>4 DEF Alike
  <2>3. Sound(R, best.orbits)
    BY <1>4 DEF BestIsSound
  <2>4. ASSUME EqualLeaf
        PROVE  /\ best.leaf.label \in [Positions -> Nodes]
               /\ coloring.label \in [Positions -> Nodes]
               /\ \A q \in Positions : coloring.label[q] \in R[best.leaf.label[q]]
    <3>1. /\ best.leaf.label \in [Positions -> Nodes]
          /\ coloring.label \in [Positions -> Nodes]
          /\ \A q \in Positions : Exchanged(g, k, F, best.leaf.label[q], coloring.label[q])
      BY <2>4, EqualLeafExchanges
    <3> HIDE DEF F, g, k
    <3> QED BY <3>1 DEF Alike
  <2> HIDE DEF Q, R
  <2>5. Sound(Q, best'.orbits)
    BY <1>2, <1>4, <2>1, <2>2, <2>3, <2>4, NextBestPointers
  <2> QED BY <1>1, <2>5 DEF Q
<1> QED BY <1>3, <1>4

-----------------------------------------------------------------------------
(***************************************************************************)
(* What the orbits of the best leaf say of the colored graph.              *)
(***************************************************************************)
\* The maps of the first i nodes that keep colors and edges.
PartialMaps(i) == {p \in [0 .. i-1 -> Nodes] : KeepsColoredGraph(p)}

LEMMA PartialMapExtended ==
    ASSUME NEW i \in 1 .. N
    PROVE  {p \in {Extended(q, i-1, v) : q \in PartialMaps(i-1), v \in Nodes} :
               KeepsColoredGraph(p)} = PartialMaps(i)
<1> DEFINE S == 0 .. (i-1)-1
           e == i - 1
<1>0. 0 .. e = S \cup {e} /\ e \notin S /\ \A x \in 0 .. e : x < e <=> x \in S
  BY NAssumption
<1>1. PartialMaps(i) = {p \in [S \cup {e} -> Nodes] : KeepsColoredGraph(p)}
  BY <1>0 DEF PartialMaps
<1>2. PartialMaps(i-1) = {p \in [S -> Nodes] : KeepsColoredGraph(p)}
  BY DEF PartialMaps
<1> HIDE DEF S, e
<1>3. ASSUME NEW q \in PartialMaps(i-1), NEW v \in Nodes
      PROVE  Extended(q, e, v) \in [S \cup {e} -> Nodes]
  BY <1>0, <1>2 DEF Extended
<1>4. ASSUME NEW p \in PartialMaps(i)
      PROVE  \E q \in PartialMaps(i-1), v \in Nodes : p = Extended(q, e, v)
  <2> DEFINE q == [x \in S |-> p[x]]
  <2>1. p \in [S \cup {e} -> Nodes] /\ KeepsColoredGraph(p)
    BY <1>1
  <2>3. DOMAIN p = S \cup {e} /\ q \in [S -> Nodes] /\ \A x \in S : q[x] = p[x]
    BY <2>1
  <2> HIDE DEF q
  <2>2. p = Extended(q, e, p[e])
    BY <1>0, <2>1, <2>3 DEF Extended
  <2>4. KeepsColoredGraph(q)
    BY <2>1, <2>3 DEF KeepsColoredGraph
  <2>5. q \in PartialMaps(i-1) /\ p[e] \in Nodes
    BY <1>2, <2>1, <2>3, <2>4
  <2> QED BY <2>2, <2>5
<1>5. \A p \in PartialMaps(i) : KeepsColoredGraph(p)
  BY <1>1
<1>6. \A p \in [S \cup {e} -> Nodes] : KeepsColoredGraph(p) => p \in PartialMaps(i)
  BY <1>1
<1>8. \A q \in PartialMaps(i-1), v \in Nodes :
          KeepsColoredGraph(Extended(q, e, v)) => Extended(q, e, v) \in PartialMaps(i)
  BY <1>3, <1>6
<1> DEFINE M == {p \in {Extended(q, e, v) : q \in PartialMaps(i-1), v \in Nodes} :
                    KeepsColoredGraph(p)}
<1>7. M = PartialMaps(i)
  <2>1. ASSUME NEW p \in M PROVE p \in PartialMaps(i)
    <3>1. /\ KeepsColoredGraph(p)
          /\ \E q \in PartialMaps(i-1), v \in Nodes : p = Extended(q, e, v)
      BY <2>1
    <3> QED BY <1>8, <3>1
  <2>2. ASSUME NEW p \in PartialMaps(i) PROVE p \in M
    BY <1>4, <1>5
  <2> HIDE DEF M
  <2> QED BY <2>1, <2>2
<1> QED BY <1>7 DEF e

\* The maps built up node by node are all the automorphisms.
LEMMA AutomorphismsAre ==
    Automorphisms = {p \in [Nodes -> Nodes] : KeepsColoredGraph(p)}
<1> DEFINE extended(M, i) == {p \in {Extended(q, i-1, v) : q \in M, v \in Nodes} :
                                 KeepsColoredGraph(p)}
           Solves(w) == w = [i \in 0 .. N |-> IF i = 0 THEN {<<>>}
                                              ELSE extended(w[i-1], i)]
           chosen == CHOOSE w : Solves(w)
           all == [i \in 0 .. N |-> PartialMaps(i)]
<1>1. N \in Nat
  BY NAssumption
<1>2. PartialMaps(0) = {<<>>}
  <2>1. 0 .. 0-1 = {}
    OBVIOUS
  <2>2. \A p : p \in [{} -> Nodes] <=> p = <<>>
    <3>1. \A p : p \in [1 .. 0 -> Nodes] => p \in Seq(Nodes) /\ Len(p) = 0
      OBVIOUS
    <3>2. 1 .. 0 = {}
      OBVIOUS
    <3>3. <<>> \in [1 .. 0 -> Nodes]
      BY EmptySeq, LenProperties
    <3> QED BY <3>1, <3>2, <3>3, EmptySeq
  <2>3. KeepsColoredGraph(<<>>)
    BY DEF KeepsColoredGraph
  <2> QED BY <2>1, <2>2, <2>3 DEF PartialMaps
<1>3. \A i \in 1 .. N : extended(PartialMaps(i-1), i) = PartialMaps(i)
  BY PartialMapExtended
<1> HIDE DEF extended
<1>4. Solves(all)
  <2>1. ASSUME NEW i \in 0 .. N
        PROVE  all[i] = IF i = 0 THEN {<<>>} ELSE extended(all[i-1], i)
    <3>1. CASE i = 0
      BY <1>2, <3>1
    <3>2. CASE i # 0
      <4>1. i \in 1 .. N /\ i-1 \in 0 .. N
        BY <1>1, <3>2
      <4> QED BY <1>3, <3>2, <4>1
    <3> QED BY <3>1, <3>2
  <2> QED BY <2>1
<1>5. Solves(chosen)
  <2> HIDE DEF Solves, all
  <2> QED BY <1>4
<1>6. Automorphisms = chosen[N]
  BY DEF Automorphisms, extended
<1> HIDE DEF chosen, all
<1> DEFINE least == {<<>>}
<1>7. chosen[0] = least /\ \A i \in 1 .. N : chosen[i] = extended(chosen[i-1], i)
  <2>1. chosen = [i \in 0 .. N |-> IF i = 0 THEN least ELSE extended(chosen[i-1], i)]
    BY <1>5
  <2> HIDE DEF least, Solves
  <2> QED BY <1>1, <2>1
<1>12. PartialMaps(0) = least
  BY <1>2
<1> HIDE DEF Solves, least
<1> DEFINE T == {i \in 0 .. N : chosen[i] = PartialMaps(i)}
<1>8. 0 \in T
  BY <1>1, <1>7, <1>12
<1>9. \A i \in 1 .. N : i-1 \in T => i \in T
  BY <1>3, <1>7
<1>10. \A i \in 0 .. N : i \in T
  <2> HIDE DEF T
  <2> QED BY <1>1, <1>8, <1>9, UpTo
<1> QED BY <1>1, <1>6, <1>10 DEF PartialMaps, Nodes

LEMMA BestOrbitsSound == TInv /\ BestIsSound => OrbitsSound
<1> SUFFICES ASSUME TInv, BestIsSound, best.has_value,
                    NEW v \in Nodes
             PROVE  \E p \in {q \in Automorphisms : FixSharedPath(q)} :
                       p[v] = Representative(best.orbits, v)
  BY DEF OrbitsSound
<1> DEFINE R == Alike(graph, input, SharedVertices)
<1>1. IsPartition(R) /\ Sound(R, best.orbits)
  BY BestVertices, AlikeIsPartition DEF BestIsSound
<1> HIDE DEF R
<1>6. Representative(best.orbits, v) \in R[v]
  BY <1>1, RepresentativeInClass
<1>2. Exchanged(graph, input, SharedVertices, v, Representative(best.orbits, v))
  BY <1>6 DEF R, Alike
<1>3. PICK p : /\ Keeps(graph, input, SharedVertices, p)
               /\ p[v] = Representative(best.orbits, v)
  BY <1>2 DEF Exchanged
<1>4. p \in Automorphisms
  BY <1>3, AutomorphismsAre DEF Keeps, KeepsColoredGraph
<1>5. FixSharedPath(p)
  BY <1>3 DEF Keeps, FixSharedPath, SharedVertices
<1> QED BY <1>3, <1>4, <1>5

(***************************************************************************)
(* THEOREM.  Two vertices in one class of best_leaf.orbits are exchanged   *)
(* by an automorphism of the colored graph that fixes the shared path, so  *)
(* that pruning by orbits (ir.hpp:255) skips a vertex only for an          *)
(* equivalent one.                                                         *)
(***************************************************************************)
THEOREM OrbitsAreSound ==
    ASSUME CallsLegal, RefinesInOrder, EqualIsSame
    PROVE  Spec => []OrbitsSound
<1>1. Init => BestIsSound
  BY DEF Init, NoLeaf, BestIsSound
<1>2. TInv /\ TInv' /\ BestIsSound /\ [Next]_vars => BestIsSound'
  BY NextBestIsSound
<1> QED BY <1>1, <1>2, TrailInvariance, BestOrbitsSound, PTL DEF Spec

-----------------------------------------------------------------------------
(***************************************************************************)
(* The types of the variables.  What the shapes left open are the          *)
(* colorings, which are on trails, and the members the search counts with. *)
(***************************************************************************)
OpenTypes ==
    /\ graph \in Graphs /\ input \in InputColorings
    /\ pc = "done" => coloring \in Colorings
    /\ ~best.has_value => best = NoLeaf /\ lca = 0
    /\ best.orbits \in Orbits /\ best.group_size \in Nat /\ group_size \in Nat

LEMMA FramesWellFormed ==
    ASSUME RefinesApart, SInv, NEW i \in 1 .. Len(stack)
    PROVE  WellFormed(stack[i].coloring) /\ ~IsDiscrete(stack[i].coloring)
<1>1. Len(stack) \in Nat /\ TreePath(graph, input, stack)
  BY SequenceLength, PathByParts DEF SInv, IInv, Shapes
<1> DEFINE n == Len(stack) - 1
           j == i - 1
<1>2. n \in Nat /\ Len(stack) > 0 /\ j \in 0 .. n /\ j+1 = i
  BY <1>1
<1>3. IsTrail(graph, input, n, FrameColorings, FrameVertices)
  BY <1>2, FramesAreTrail
<1>4. FrameColorings[j] = stack[i].coloring
  BY <1>2 DEF FrameColorings
<1> HIDE DEF n, j
<1>5. WellFormed(FrameColorings[j])
  BY <1>2, <1>3, TrailWellFormed DEF SInv, Legal
<1> QED BY <1>1, <1>4, <1>5 DEF TreePath

LEMMA LeafTrailWellFormed ==
    ASSUME RefinesApart, Legal, NEW path, Len(path) \in Nat, NEW ks, NEW leaf,
           IsLeafTrail(graph, input, ks, path, leaf)
    PROVE  WellFormed(leaf)
<1>1. Len(path) \in 0 .. Len(path) /\ ks[Len(path)] = leaf
  BY DEF IsLeafTrail
<1>2. WellFormed(ks[Len(path)])
  BY <1>1, TrailWellFormed DEF Legal, IsLeafTrail
<1> QED BY <1>1, <1>2

LEMMA ColoringEnumerates ==
    ASSUME RefinesApart, SInv, pc # "done"
    PROVE  Enumerates(coloring)
<1>1. CASE pc = "start"
  BY <1>1 DEF SInv, IInv, Shapes, Legal, InOrder
<1>2. CASE pc = "select"
  BY <1>2, CurrentTrail, LeafTrailWellFormed DEF SInv, WellFormed
<1>3. CASE pc = "scan"
  <2>1. Len(stack) \in Nat /\ Len(stack) > 0 /\ coloring = stack[Len(stack)].coloring
    BY <1>3, SequenceLength, PathByParts DEF SInv, IInv, Shapes, Top
  <2>2. Len(stack) \in 1 .. Len(stack)
    BY <2>1
  <2> QED BY <2>1, <2>2, FramesWellFormed DEF WellFormed
<1> QED BY <1>1, <1>2, <1>3 DEF SInv, IInv, Shapes

LEMMA BestLeafWellFormed ==
    ASSUME RefinesApart, TInv, best.has_value
    PROVE  WellFormed(best.leaf)
<1>1. PICK ks : IsLeafTrail(graph, input, ks, best.path, best.leaf)
  BY DEF TInv, BestHasTrail
<1> QED BY <1>1, BestVertices, LeafTrailWellFormed DEF TInv, SInv

LEMMA NextOpenTypes ==
    ASSUME RefinesApart, TInv, OpenTypes, [Next]_vars
    PROVE  OpenTypes'
<1> DEFINE all == [u \in Nodes |-> Nodes]
<1>0. /\ IsBest(best)
      /\ pc = "scan" => Len(stack) > 0
  BY DEF TInv, SInv, IInv, Shapes
<1>1. graph' = graph /\ input' = input
  BY DEF Next, vars, InitialRefine, FirstLeaf, EqualLeaf, BetterLeaf, WorseLeaf,
         Push, SkipVertex, IndividualizeVertex, PopFrame, Returned
<1>2. pc' = "done" => coloring' \in Colorings
  <2>1. pc' = "done" => coloring' = coloring
    BY DEF Next, vars, InitialRefine, FirstLeaf, EqualLeaf, BetterLeaf, WorseLeaf,
           Push, SkipVertex, IndividualizeVertex, PopFrame, Returned, BacktrackTo
  <2>2. coloring \in Colorings
    BY ColoringEnumerates DEF OpenTypes, TInv, Enumerates
  <2> QED BY <2>1, <2>2
<1>3. ~best'.has_value => best' = NoLeaf /\ lca' = 0
  <2>1. CASE FirstLeaf \/ BetterLeaf
    BY <2>1 DEF FirstLeaf, BetterLeaf, ReplaceBest
  <2>2. CASE best.has_value /\ SameLeaf
    BY <2>2 DEF SameLeaf
  <2>3. CASE ~best.has_value /\ ~FirstLeaf
    <3>1. UNCHANGED <<best, lca>>
      BY <2>3 DEF Next, vars, InitialRefine, EqualLeaf, BetterLeaf, WorseLeaf,
           Push, SkipVertex, IndividualizeVertex, PopFrame, Returned, OnBestPath, Pruned
    <3> QED BY <2>3, <3>1 DEF OpenTypes
  <2>4. SameLeaf \/ (AtLeaf /\ ReplaceBest)
    BY LeafKeptOrReplaced DEF TInv, SInv
  <2> QED BY <2>1, <2>2, <2>3, <2>4 DEF ReplaceBest
<1>4. best'.orbits \in Orbits
  <2>1. CASE ~best'.has_value
    BY <1>3, <2>1 DEF NoLeaf, ClearOrbits, Orbits
  <2>2. CASE best'.has_value
    <3>1. IsPartition(all)
      BY DEF IsPartition
    <3>2. best.has_value => Sound(all, best.orbits)
      BY DEF OpenTypes, Sound, Orbits
    <3>3. EqualLeaf => /\ best.leaf.label \in [Positions -> Nodes]
                       /\ coloring.label \in [Positions -> Nodes]
      BY ColoringEnumerates, BestLeafWellFormed
      DEF EqualLeaf, AtLeaf, TInv, WellFormed, Enumerates, Colorings
    <3>4. EqualLeaf => \A q \in Positions : coloring.label[q] \in all[best.leaf.label[q]]
      BY <3>3
    <3>5. \A u \in Nodes : all[u] \subseteq all[u]
      OBVIOUS
    <3> HIDE DEF all
    <3>6. Sound(all, best'.orbits)
      BY <2>2, <3>1, <3>2, <3>3, <3>4, <3>5, NextBestPointers
    <3> QED BY <3>6 DEF Sound
  <2> QED BY <2>1, <2>2
<1>5. best'.group_size \in Nat
  <2>1. CASE FirstLeaf \/ BetterLeaf
    BY <2>1 DEF FirstLeaf, BetterLeaf, ReplaceBest
  <2>2. CASE PopFrame /\ OnBestPath
    <3> DEFINE v == best.path[lca] - 1
               o == Compress(best.orbits, v)
               x == best.group_size * OrbitSize(best.orbits, v)
    <3>1. /\ best' = [best EXCEPT !.group_size = x, !.orbits = o]
          /\ best.has_value /\ lca = Len(stack) /\ Len(stack) > 0
      BY <1>0, <2>2 DEF PopFrame, OnBestPath
    <3>2. v \in Nodes
      <4>1. lca \in 1 .. Len(best.path)
        BY <3>1, BestVertices
      <4> QED BY <3>1, <4>1, BestVertices
    <3>3. OrbitSize(best.orbits, v) \in Nat
      <4> HIDE DEF v
      <4>1. IsPartition(all) /\ Sound(all, best.orbits)
        BY DEF IsPartition, OpenTypes, Sound, Orbits
      <4> HIDE DEF all
      <4>2. Representative(best.orbits, v) \in Nodes
        BY <3>2, <4>1, RepresentativeInClass
      <4> QED BY <4>2 DEF OrbitSize, OpenTypes, Orbits
    <3>4. x \in Nat
      BY <3>3 DEF OpenTypes
    <3> HIDE DEF o, x
    <3>5. best' = [has_value |-> best.has_value, leaf |-> best.leaf, graph |-> best.graph,
                   path |-> best.path, orbits |-> o, group_size |-> x]
      BY <1>0, <3>1 DEF IsBest
    <3> QED BY <3>4, <3>5
  <2>3. CASE \E o : best' = [best EXCEPT !.orbits = o]
    <3>1. PICK o : best' = [best EXCEPT !.orbits = o]
      BY <2>3
    <3>2. best' = [has_value |-> best.has_value, leaf |-> best.leaf, graph |-> best.graph,
                   path |-> best.path, orbits |-> o, group_size |-> best.group_size]
      BY <1>0, <3>1 DEF IsBest
    <3> QED BY <3>2 DEF OpenTypes
  <2>4. CASE UNCHANGED best
    BY <2>4 DEF OpenTypes
  <2> QED BY <2>1, <2>2, <2>3, <2>4
          DEF Next, vars, InitialRefine, EqualLeaf, WorseLeaf, Push, SkipVertex,
              IndividualizeVertex, PopFrame, Returned
<1>6. group_size' \in Nat
  <2>1. group_size' = best'.group_size \/ group_size' = group_size
    BY DEF Next, vars, InitialRefine, FirstLeaf, EqualLeaf, BetterLeaf, WorseLeaf,
           Push, SkipVertex, IndividualizeVertex, PopFrame, Returned, Publish
  <2> QED BY <1>5, <2>1 DEF OpenTypes
<1> QED BY <1>1, <1>2, <1>3, <1>4, <1>5, <1>6 DEF OpenTypes

LEMMA InitOpenTypes == Init => OpenTypes
BY DEF Init, NoLeaf, OpenTypes, ClearOrbits, Orbits

LEMMA ReorderedIsMatrix ==
    ASSUME NEW g, NEW k
    PROVE  ReorderGraph(g, k) \in [Nodes -> SUBSET Nodes]
BY DEF ReorderGraph, Transpose

LEMMA OpenTypesFill ==
    ASSUME RefinesApart, TInv, StackFits, OpenTypes
    PROVE  TypeOK
<1>1. Len(stack) \in Nat /\ Len(stack) < N /\ N \in Nat
  BY SequenceLength, NAssumption DEF TInv, SInv, IInv, Shapes, StackFits
<1>2. coloring \in Colorings
  BY ColoringEnumerates DEF OpenTypes, TInv, Enumerates
<1>3. stack \in Seq(Frames)
  <2>1. ASSUME NEW i \in 1 .. Len(stack) PROVE stack[i] \in Frames
    <3> DEFINE f == stack[i]
    <3>1. IsFrame(f)
      BY DEF TInv, SInv, IInv, Shapes
    <3>2. f.col = SelectFirst(f.coloring)
      BY PathByParts DEF TInv, SInv, IInv, TreePath
    <3>3. Enumerates(f.coloring) /\ ~IsDiscrete(f.coloring)
      BY FramesWellFormed DEF TInv, WellFormed
    <3> HIDE DEF f
    <3>4. f.col \in Nodes /\ f.coloring \in Colorings
      BY <3>2, <3>3, SelectedTwice DEF Enumerates, Colorings
    <3>5. f.vertex \in 0 .. N
      BY <3>1, Zenon DEF IsFrame
    <3>6. f = [coloring |-> f.coloring, vertex |-> f.vertex, col |-> f.col]
      BY <3>1, Zenon DEF IsFrame
    <3>7. f \in Frames
      BY <3>4, <3>5, <3>6 DEF Frames
    <3> QED BY <3>7 DEF f
  <2>2. PICK S : stack \in Seq(S)
    BY DEF TInv, SInv, IInv, Shapes, IsSequence
  <2> QED BY <2>1, <2>2, SeqDef
<1>4. lca \in 0 .. N
  BY <1>1 DEF OpenTypes, TInv, SInv, IInv, Shapes, LcaInv
<1>5. best.leaf \in Colorings /\ best.graph \in [Nodes -> SUBSET Nodes]
      /\ best.path \in Seq(0 .. N)
  <2>1. CASE ~best.has_value
    <3>1. best = NoLeaf
      BY <2>1 DEF OpenTypes
    <3>2. NewColoring \in Colorings /\ [u \in Nodes |-> {}] \in [Nodes -> SUBSET Nodes]
          /\ <<>> \in Seq(0 .. N)
      BY NAssumption DEF NewColoring, Colorings, Nodes, Positions
    <3> QED BY <3>1, <3>2 DEF NoLeaf
  <2>2. CASE best.has_value
    <3>1. best.leaf \in Colorings
      BY <2>2, BestLeafWellFormed DEF WellFormed, Enumerates
    <3>2. best.graph \in [Nodes -> SUBSET Nodes]
      BY <2>2, ReorderedIsMatrix DEF TInv, BestLeafReplays
    <3>3. best.path \in Seq(Nat)
      BY DEF TInv, SInv, IInv, Shapes, IsBest
    <3>4. ASSUME NEW i \in 1 .. Len(best.path) PROVE best.path[i] \in 0 .. N
      <4>1. best.path[i] - 1 \in Nodes /\ best.path[i] \in Nat
        BY <2>2, <3>3, BestVertices
      <4> QED BY <1>1, <4>1 DEF Nodes
    <3>5. best.path \in Seq(0 .. N)
      <4> DEFINE seq == best.path
                 T == 0 .. N
      <4> HIDE DEF seq, T
      <4>1. seq \in Seq(Nat) /\ \A i \in 1 .. Len(seq) : seq[i] \in T
        BY <3>3, <3>4 DEF seq, T
      <4>2. seq \in Seq(T)
        BY <4>1, SeqDef
      <4> QED BY <4>2 DEF seq, T
    <3> QED BY <3>1, <3>2, <3>5
  <2> QED BY <2>1, <2>2
<1>6. best \in [has_value : BOOLEAN, leaf : Colorings,
                graph : [Nodes -> SUBSET Nodes], path : Seq(0 .. N),
                orbits : Orbits, group_size : Nat]
  <2>1. IsBest(best)
    BY DEF TInv, SInv, IInv, Shapes
  <2>2. best = [has_value |-> best.has_value, leaf |-> best.leaf, graph |-> best.graph,
            path |-> best.path, orbits |-> best.orbits, group_size |-> best.group_size]
    BY <2>1, Zenon DEF IsBest
  <2>3. best.has_value \in BOOLEAN
    BY <2>1, Zenon DEF IsBest
  <2> QED BY <1>5, <2>2, <2>3 DEF OpenTypes
<1> QED BY <1>2, <1>3, <1>4, <1>6 DEF TypeOK, OpenTypes, TInv, SInv, IInv, Shapes

(***************************************************************************)
(* THEOREM.  Every variable keeps its type: the colorings of the frames    *)
(* and of the best leaf are legal, a frame's pointer and best_leaf_lca     *)
(* stay within the nodes, and the group size is a number.                  *)
(***************************************************************************)
THEOREM TypesKept ==
    ASSUME CallsLegal, RefinesApart
    PROVE  Spec => []TypeOK
<1>1. TInv /\ OpenTypes /\ [Next]_vars => OpenTypes'
  BY NextOpenTypes
<1>2. TInv /\ StackFits /\ OpenTypes => TypeOK
  BY OpenTypesFill
<1> QED BY <1>1, <1>2, InitOpenTypes, TrailInvariance, StackNeverFull, PTL DEF Spec

-----------------------------------------------------------------------------
(***************************************************************************)
(* The comparisons of compare_leaves.hpp call equal only what is equal.    *)
(***************************************************************************)
LEMMA EqualWordsAreSame ==
    ASSUME NEW a, NEW b, WordOrder(a, b) = Equal
    PROVE  (a \ b) \cup (b \ a) = {}
BY DEF WordOrder, Equal, Less, Greater

LEMMA EqualRowsAreSame ==
    (\A g, h : Compare(g, h) = CompareRows(g, h)) => EqualIsSame
<1> SUFFICES ASSUME NEW g \in [Nodes -> SUBSET Nodes], NEW h \in [Nodes -> SUBSET Nodes],
                    CompareRows(g, h) = Equal
             PROVE  g = h
  BY ReorderedIsMatrix DEF EqualIsSame
<1> DEFINE differ == {u \in Nodes : g[u] # h[u]}
           u == Min(differ)
<1>1. differ = {} => g = h
  OBVIOUS
<1>2. differ # {} => u \in differ
  <2> SUFFICES ASSUME differ # {} PROVE u \in differ
    OBVIOUS
  <2>1. differ \subseteq Nat
    BY NAssumption DEF Nodes
  <2> HIDE DEF differ
  <2>2. \E x \in differ : \A y \in differ : x <= y
    BY <2>1, HasLeast
  <2> QED BY <2>2 DEF Min
<1>3. differ # {} => WordOrder(g[u], h[u]) = Equal
  BY DEF CompareRows
<1>4. differ # {} => g[u] = h[u]
  <2> HIDE DEF differ, u
  <2>1. u \in Nodes => g[u] \subseteq Nodes /\ h[u] \subseteq Nodes
    OBVIOUS
  <2> QED BY <1>3, <2>1, EqualWordsAreSame
<1> HIDE DEF u
<1> QED BY <1>1, <1>2, <1>4

\* The bits of the 64-bit number are the pairs, as a row has 8 of them.
LEMMA EqualNumbersAreSame ==
    N <= 8 /\ (\A g, h : Compare(g, h) = CompareWord(g, h)) => EqualIsSame
<1> SUFFICES ASSUME N <= 8,
                    NEW g \in [Nodes -> SUBSET Nodes], NEW h \in [Nodes -> SUBSET Nodes],
                    CompareWord(g, h) = Equal
             PROVE  g = h
  BY ReorderedIsMatrix DEF EqualIsSame
<1> DEFINE pairs(f) == {d \in Nodes \X Nodes : d[2] \in f[d[1]]}
           bits(f) == {8 * e[1] + e[2] : e \in pairs(f)}
<1>1. WordOrder(bits(g), bits(h)) = Equal
  BY DEF CompareWord
<1>2. bits(g) = bits(h)
  <2> HIDE DEF bits
  <2> QED BY <1>1, EqualWordsAreSame
<1>3. ASSUME NEW a \in [Nodes -> SUBSET Nodes], NEW b \in [Nodes -> SUBSET Nodes],
             bits(a) \subseteq bits(b), NEW u \in Nodes, NEW v \in Nodes, v \in a[u]
      PROVE  v \in b[u]
  <2>1. <<u, v>> \in pairs(a)
    BY <1>3
  <2>2. 8 * u + v \in bits(a)
    BY <2>1
  <2>3. PICK e \in pairs(b) : 8 * e[1] + e[2] = 8 * u + v
    BY <1>3, <2>2
  <2>4. e[1] \in Nodes /\ e[2] \in Nodes /\ e[2] \in b[e[1]]
    BY <2>3
  <2>5. e[1] = u /\ e[2] = v
    <3> DEFINE x == e[1]
               y == e[2]
    <3>1. x \in 0 .. 7 /\ y \in 0 .. 7 /\ u \in 0 .. 7 /\ v \in 0 .. 7
      <4>1. \A z \in Nodes : z \in 0 .. 7
        BY NAssumption DEF Nodes
      <4> QED BY <2>4, <4>1
    <3>2. 8 * x + y = 8 * u + v
      BY <2>3
    <3> HIDE DEF x, y
    <3>3. x = u /\ y = v
      BY <3>1, <3>2
    <3> QED BY <3>3 DEF x, y
  <2> QED BY <2>4, <2>5
<1> HIDE DEF bits
<1>4. \A u, v \in Nodes : v \in g[u] <=> v \in h[u]
  BY <1>2, <1>3
<1> QED BY <1>4

\* The lower triangle is enough for a graph that is symmetric and loop-free.
LEMMA EqualTrianglesAreSame ==
    Graphs \subseteq SimpleGraphs /\ (\A g, h : Compare(g, h) = CompareTriangle(g, h))
        => EqualIsSame
<1> SUFFICES ASSUME NEW g \in SimpleGraphs, NEW h \in SimpleGraphs,
                    CompareTriangle(g, h) = Equal
             PROVE  g = h
  <2>1. ASSUME NEW f \in SimpleGraphs, NEW k, Enumerates(k)
        PROVE  ReorderGraph(f, k) \in SimpleGraphs
    <3> DEFINE m == ReorderGraph(f, k)
    <3>1. m \in [Nodes -> SUBSET Nodes] /\ f \in [Nodes -> SUBSET Nodes]
      BY ReorderedIsMatrix DEF SimpleGraphs
    <3>2. Nodes = Positions /\ \A p \in Positions : k.label[p] \in Nodes
      BY <2>1 DEF Enumerates, Colorings, Nodes, Positions
    <3>3. \A p, q \in Nodes : q \in m[p] <=> k.label[q] \in f[k.label[p]]
      BY <2>1, <3>1, <3>2, Reordered
    <3>4. \A u \in Nodes : u \notin f[u]
      BY DEF SimpleGraphs
    <3>5. \A u, v \in Nodes : v \in f[u] => u \in f[v]
      BY DEF SimpleGraphs
    <3> HIDE DEF m
    <3>6. \A p \in Nodes : p \notin m[p]
      BY <3>2, <3>3, <3>4
    <3>7. \A p, q \in Nodes : q \in m[p] => p \in m[q]
      BY <3>2, <3>3, <3>5
    <3>8. m \in SimpleGraphs
      BY <3>1, <3>6, <3>7 DEF SimpleGraphs
    <3> QED BY <3>8 DEF m
  <2> QED BY <2>1 DEF EqualIsSame
<1> DEFINE differ == {d \in Nodes \X Nodes :
                         d[2] < d[1] /\ (d[2] \in g[d[1]]) # (d[2] \in h[d[1]])}
<1>1. differ = {}
  BY DEF CompareTriangle, Equal, Less, Greater
<1>2. \A u, v \in Nodes : v < u => (v \in g[u] <=> v \in h[u])
  <2> SUFFICES ASSUME NEW u \in Nodes, NEW v \in Nodes, v < u, ~(v \in g[u] <=> v \in h[u])
               PROVE  FALSE
    OBVIOUS
  <2>1. <<u, v>> \in differ
    OBVIOUS
  <2> QED BY <1>1, <2>1
<1>3. /\ g \in [Nodes -> SUBSET Nodes] /\ h \in [Nodes -> SUBSET Nodes]
      /\ \A u \in Nodes : u \notin g[u] /\ u \notin h[u]
      /\ \A u, v \in Nodes : (v \in g[u] <=> u \in g[v]) /\ (v \in h[u] <=> u \in h[v])
  BY DEF SimpleGraphs
<1>4. \A u, v \in Nodes : u < v \/ v < u \/ u = v
  BY NAssumption DEF Nodes
<1> HIDE DEF differ
<1>5. \A u, v \in Nodes : v \in g[u] <=> v \in h[u]
  BY <1>2, <1>3, <1>4
<1>6. \A u \in Nodes : g[u] = h[u]
  BY <1>3, <1>5
<1> QED BY <1>3, <1>6

-----------------------------------------------------------------------------
(***************************************************************************)
(* The special forms of reorder_graph and compare_matrix for 8 and 16      *)
(* nodes (LeafForms).  A number is taken apart into the bits of its row    *)
(* and column: every stage of a transposition exchanges one bit of both.   *)
(***************************************************************************)
Bit == {0, 1}

\* Lanes by their bits.
Lane(a, b, c, d) == 8 * a + 4 * b + 2 * c + d

LEMMA LaneBits ==
    \A i \in Lanes : \E a, b, c, d \in Bit : i = Lane(a, b, c, d)
<1> SUFFICES ASSUME NEW i \in Lanes PROVE \E a, b, c, d \in Bit : i = Lane(a, b, c, d)
  OBVIOUS
<1> DEFINE a == i \div 8
           b == (i \div 4) % 2
           c == (i \div 2) % 2
           d == i % 2
<1>1. a \in Bit /\ b \in Bit /\ c \in Bit /\ d \in Bit
  BY DEF Lanes, Bit
<1>2. i = Lane(a, b, c, d)
  BY DEF Lanes, Lane
<1> HIDE DEF a, b, c, d
<1> QED BY <1>1, <1>2

LEMMA LaneHalves ==
    ASSUME NEW a \in Bit, NEW b \in Bit, NEW c \in Bit, NEW d \in Bit
    PROVE  /\ Lane(a, b, c, d) \in Lanes
           /\ LowerHalf(Lane(a, b, c, d), 8) <=> a = 0
           /\ LowerHalf(Lane(a, b, c, d), 4) <=> b = 0
           /\ LowerHalf(Lane(a, b, c, d), 2) <=> c = 0
           /\ LowerHalf(Lane(a, b, c, d), 1) <=> d = 0
<1>1. Lane(a, b, c, d) \in Lanes
  BY DEF Bit, Lanes, Lane
<1>2. LowerHalf(Lane(a, b, c, d), 8) <=> a = 0
  BY DEF Bit, Lane, LowerHalf
<1>3. LowerHalf(Lane(a, b, c, d), 4) <=> b = 0
  BY DEF Bit, Lane, LowerHalf
<1>4. LowerHalf(Lane(a, b, c, d), 2) <=> c = 0
  BY DEF Bit, Lane, LowerHalf
<1>5. LowerHalf(Lane(a, b, c, d), 1) <=> d = 0
  BY DEF Bit, Lane, LowerHalf
<1> QED BY <1>1, <1>2, <1>3, <1>4, <1>5

LEMMA PartnerLanes ==
    ASSUME NEW s \in {1, 2, 4, 8}, NEW i \in Lanes
    PROVE  /\ Partner(i, s) \in Lanes
           /\ LowerHalf(Partner(i, s), s) <=> ~LowerHalf(i, s)
           /\ Partner(Partner(i, s), s) = i
<1>1. CASE s = 1
  BY <1>1 DEF Lanes, Partner, LowerHalf
<1>2. CASE s = 2
  BY <1>2 DEF Lanes, Partner, LowerHalf
<1>3. CASE s = 4
  BY <1>3 DEF Lanes, Partner, LowerHalf
<1>4. CASE s = 8
  BY <1>4 DEF Lanes, Partner, LowerHalf
<1> QED BY <1>1, <1>2, <1>3, <1>4

\* A stage exchanges the blocks off the diagonal.
LEMMA StageSwaps ==
    ASSUME NEW s \in {1, 2, 4, 8}, NEW rows \in [Lanes -> SUBSET Lanes],
           NEW i \in Lanes, NEW j \in Lanes
    PROVE  /\ (LowerHalf(i, s) <=> LowerHalf(j, s)) =>
                 (j \in TransposeStage(rows, s)[i] <=> j \in rows[i])
           /\ ~(LowerHalf(i, s) <=> LowerHalf(j, s)) =>
                 (j \in TransposeStage(rows, s)[i] <=> Partner(j, s) \in rows[Partner(i, s)])
<1> DEFINE low == {b \in Lanes : LowerHalf(b, s)}
           lower(u) == Xor(ShiftRight(rows[u], s), rows[Partner(u, s)]) \cap low
           r == TransposeStage(rows, s)
<1>0. \A u \in Lanes : u \in Int /\ rows[u] \subseteq Lanes
  BY DEF Lanes
<1>1. r[i] = IF i \in low THEN Xor(rows[i], ShiftLeft(lower(i), s, 16))
             ELSE Xor(rows[i], lower(Partner(i, s)))
  BY DEF TransposeStage
<1>2. ASSUME NEW u \in Lanes, LowerHalf(u, s), NEW b \in Lanes
      PROVE  b \in lower(u) <=> /\ LowerHalf(b, s)
                                /\ ~(b+s \in rows[u] <=> b \in rows[Partner(u, s)])
  <2>1. b \in ShiftRight(rows[u], s) <=> b+s \in rows[u]
    <3>1. b + s \in Int /\ b + s >= s /\ (b + s) - s = b
      BY DEF Lanes
    <3>2. ASSUME NEW x \in rows[u], b = x - s PROVE x = b + s
      BY <1>0, <3>2
    <3> QED BY <3>1, <3>2 DEF ShiftRight
  <2> QED BY <2>1 DEF Xor
<1>3. ASSUME NEW u \in Lanes, LowerHalf(u, s)
      PROVE  j \in ShiftLeft(lower(u), s, 16) <=> ~LowerHalf(j, s) /\ j - s \in lower(u)
  <2>0. lower(u) \subseteq Lanes
    OBVIOUS
  <2>1. ASSUME NEW x \in lower(u), j = x + s PROVE ~LowerHalf(j, s) /\ x = j - s
    <3>1. x \in Lanes /\ LowerHalf(x, s)
      OBVIOUS
    <3>2. j = Partner(x, s) /\ x \in Int
      BY <2>1, <3>1 DEF Partner, Lanes
    <3> QED BY <2>1, <3>1, <3>2, PartnerLanes
  <2>2. ASSUME j - s \in lower(u) PROVE (j - s) + s < 16 /\ (j - s) + s = j
    BY DEF Lanes
  <2> HIDE DEF lower
  <2> QED BY <2>1, <2>2 DEF ShiftLeft
<1>4. CASE LowerHalf(i, s)
  <2>1. j \in r[i] <=> ~(j \in rows[i] <=> j \in ShiftLeft(lower(i), s, 16))
    BY <1>1, <1>4 DEF Xor
  <2>2. ASSUME LowerHalf(j, s) PROVE j \in r[i] <=> j \in rows[i]
    BY <1>3, <1>4, <2>1, <2>2
  <2>3. ASSUME ~LowerHalf(j, s)
        PROVE  j \in r[i] <=> Partner(j, s) \in rows[Partner(i, s)]
    <3>1. j - s = Partner(j, s) /\ j - s \in Lanes /\ LowerHalf(j - s, s) /\ (j - s) + s = j
      BY <2>3, PartnerLanes DEF Partner, Lanes
    <3>2. j - s \in lower(i) <=> ~(j \in rows[i] <=> j - s \in rows[Partner(i, s)])
      BY <1>2, <1>4, <3>1
    <3> HIDE DEF lower, r
    <3> QED BY <1>3, <1>4, <2>1, <2>3, <3>1, <3>2
  <2> QED BY <1>4, <2>2, <2>3
<1>5. CASE ~LowerHalf(i, s)
  <2> DEFINE u == Partner(i, s)
  <2>1. u \in Lanes /\ LowerHalf(u, s) /\ Partner(u, s) = i
    BY <1>5, PartnerLanes
  <2> HIDE DEF u
  <2>2. j \in r[i] <=> ~(j \in rows[i] <=> j \in lower(u))
    BY <1>1, <1>5 DEF Xor, u
  <2>3. j \in lower(u) <=> /\ LowerHalf(j, s)
                           /\ ~(j+s \in rows[u] <=> j \in rows[i])
    BY <1>2, <2>1
  <2>4. LowerHalf(j, s) => j+s = Partner(j, s)
    BY DEF Partner
  <2> HIDE DEF lower, r
  <2>5. ASSUME LowerHalf(j, s) PROVE j \in r[i] <=> Partner(j, s) \in rows[u]
    BY <2>2, <2>3, <2>4, <2>5
  <2>6. ASSUME ~LowerHalf(j, s) PROVE j \in r[i] <=> j \in rows[i]
    BY <2>2, <2>3, <2>6
  <2> QED BY <1>5, <2>5, <2>6 DEF u, r
<1> QED BY <1>4, <1>5

LEMMA StageIsRows ==
    ASSUME NEW s \in {1, 2, 4, 8}, NEW rows \in [Lanes -> SUBSET Lanes]
    PROVE  TransposeStage(rows, s) \in [Lanes -> SUBSET Lanes]
<1> DEFINE r == TransposeStage(rows, s)
           lower(i) == Xor(ShiftRight(rows[i], s), rows[Partner(i, s)])
                          \cap {b \in Lanes : LowerHalf(b, s)}
<1>1. r = [i \in Lanes |-> IF LowerHalf(i, s) THEN Xor(rows[i], ShiftLeft(lower(i), s, 16))
                           ELSE Xor(rows[i], lower(Partner(i, s)))]
  BY DEF TransposeStage
<1>2. \A i \in Lanes : lower(i) \subseteq Lanes /\ ShiftLeft(lower(i), s, 16) \subseteq Lanes
  BY DEF ShiftLeft, Lanes
<1>3. \A i \in Lanes : lower(Partner(i, s)) \subseteq Lanes
  OBVIOUS
<1> HIDE DEF r, lower
<1>4. \A i \in Lanes : r[i] \subseteq Lanes
  BY <1>1, <1>2, <1>3 DEF Xor
<1>5. r = [i \in Lanes |-> r[i]]
  BY <1>1
<1> QED BY <1>4, <1>5 DEF r

\* One bit of row and column is exchanged by a stage.
LEMMA StageExchanges ==
    ASSUME NEW s \in {1, 2, 4, 8}, NEW rows \in [Lanes -> SUBSET Lanes],
           NEW i \in Lanes, NEW j \in Lanes, NEW u \in Lanes, NEW v \in Lanes,
           (LowerHalf(i, s) <=> LowerHalf(j, s)) => u = i /\ v = j,
           ~(LowerHalf(i, s) <=> LowerHalf(j, s)) => u = Partner(i, s) /\ v = Partner(j, s)
    PROVE  j \in TransposeStage(rows, s)[i] <=> v \in rows[u]
BY StageSwaps

LEMMA PartnerBits ==
    ASSUME NEW a \in Bit, NEW b \in Bit, NEW c \in Bit, NEW d \in Bit
    PROVE  /\ Partner(Lane(a, b, c, d), 8) = Lane(1 - a, b, c, d)
           /\ Partner(Lane(a, b, c, d), 4) = Lane(a, 1 - b, c, d)
           /\ Partner(Lane(a, b, c, d), 2) = Lane(a, b, 1 - c, d)
           /\ Partner(Lane(a, b, c, d), 1) = Lane(a, b, c, 1 - d)
<1>1. Partner(Lane(a, b, c, d), 8) = Lane(1 - a, b, c, d)
  BY LaneHalves DEF Bit, Lane, Partner
<1>2. Partner(Lane(a, b, c, d), 4) = Lane(a, 1 - b, c, d)
  BY LaneHalves DEF Bit, Lane, Partner
<1>3. Partner(Lane(a, b, c, d), 2) = Lane(a, b, 1 - c, d)
  BY LaneHalves DEF Bit, Lane, Partner
<1>4. Partner(Lane(a, b, c, d), 1) = Lane(a, b, c, 1 - d)
  BY LaneHalves DEF Bit, Lane, Partner
<1> QED BY <1>1, <1>2, <1>3, <1>4

\* The stage 8 exchanges its bit of row and column.
LEMMA Stage8 ==
    ASSUME NEW rows \in [Lanes -> SUBSET Lanes],
           NEW a \in Bit, NEW b \in Bit, NEW c \in Bit, NEW d \in Bit,
           NEW e \in Bit, NEW f \in Bit, NEW g \in Bit, NEW h \in Bit
    PROVE  Lane(e, f, g, h) \in TransposeStage(rows, 8)[Lane(a, b, c, d)]
              <=> Lane(a, f, g, h) \in rows[Lane(e, b, c, d)]
<1> DEFINE i == Lane(a, b, c, d)
           j == Lane(e, f, g, h)
           u == Lane(e, b, c, d)
           v == Lane(a, f, g, h)
<1>1. i \in Lanes /\ j \in Lanes /\ u \in Lanes /\ v \in Lanes
  BY LaneHalves
<1>2. (LowerHalf(i, 8) <=> a = 0) /\ (LowerHalf(j, 8) <=> e = 0)
  BY LaneHalves
<1>3. (a = 0 <=> e = 0) => a = e
  BY DEF Bit
<1>4. ~(a = 0 <=> e = 0) => e = 1 - a /\ a = 1 - e
  BY DEF Bit
<1>5. Partner(i, 8) = Lane(1 - a, b, c, d) /\ Partner(j, 8) = Lane(1 - e, f, g, h)
  BY PartnerBits
<1>6. (LowerHalf(i, 8) <=> LowerHalf(j, 8)) => u = i /\ v = j
  BY <1>2, <1>3
<1>7. ~(LowerHalf(i, 8) <=> LowerHalf(j, 8)) => u = Partner(i, 8) /\ v = Partner(j, 8)
  BY <1>2, <1>4, <1>5
<1> HIDE DEF i, j, u, v
<1>8. j \in TransposeStage(rows, 8)[i] <=> v \in rows[u]
  BY <1>1, <1>6, <1>7, StageExchanges
<1> QED BY <1>8 DEF i, j, u, v

\* The stage 4 exchanges its bit of row and column.
LEMMA Stage4 ==
    ASSUME NEW rows \in [Lanes -> SUBSET Lanes],
           NEW a \in Bit, NEW b \in Bit, NEW c \in Bit, NEW d \in Bit,
           NEW e \in Bit, NEW f \in Bit, NEW g \in Bit, NEW h \in Bit
    PROVE  Lane(e, f, g, h) \in TransposeStage(rows, 4)[Lane(a, b, c, d)]
              <=> Lane(e, b, g, h) \in rows[Lane(a, f, c, d)]
<1> DEFINE i == Lane(a, b, c, d)
           j == Lane(e, f, g, h)
           u == Lane(a, f, c, d)
           v == Lane(e, b, g, h)
<1>1. i \in Lanes /\ j \in Lanes /\ u \in Lanes /\ v \in Lanes
  BY LaneHalves
<1>2. (LowerHalf(i, 4) <=> b = 0) /\ (LowerHalf(j, 4) <=> f = 0)
  BY LaneHalves
<1>3. (b = 0 <=> f = 0) => b = f
  BY DEF Bit
<1>4. ~(b = 0 <=> f = 0) => f = 1 - b /\ b = 1 - f
  BY DEF Bit
<1>5. Partner(i, 4) = Lane(a, 1 - b, c, d) /\ Partner(j, 4) = Lane(e, 1 - f, g, h)
  BY PartnerBits
<1>6. (LowerHalf(i, 4) <=> LowerHalf(j, 4)) => u = i /\ v = j
  BY <1>2, <1>3
<1>7. ~(LowerHalf(i, 4) <=> LowerHalf(j, 4)) => u = Partner(i, 4) /\ v = Partner(j, 4)
  BY <1>2, <1>4, <1>5
<1> HIDE DEF i, j, u, v
<1>8. j \in TransposeStage(rows, 4)[i] <=> v \in rows[u]
  BY <1>1, <1>6, <1>7, StageExchanges
<1> QED BY <1>8 DEF i, j, u, v

\* The stage 2 exchanges its bit of row and column.
LEMMA Stage2 ==
    ASSUME NEW rows \in [Lanes -> SUBSET Lanes],
           NEW a \in Bit, NEW b \in Bit, NEW c \in Bit, NEW d \in Bit,
           NEW e \in Bit, NEW f \in Bit, NEW g \in Bit, NEW h \in Bit
    PROVE  Lane(e, f, g, h) \in TransposeStage(rows, 2)[Lane(a, b, c, d)]
              <=> Lane(e, f, c, h) \in rows[Lane(a, b, g, d)]
<1> DEFINE i == Lane(a, b, c, d)
           j == Lane(e, f, g, h)
           u == Lane(a, b, g, d)
           v == Lane(e, f, c, h)
<1>1. i \in Lanes /\ j \in Lanes /\ u \in Lanes /\ v \in Lanes
  BY LaneHalves
<1>2. (LowerHalf(i, 2) <=> c = 0) /\ (LowerHalf(j, 2) <=> g = 0)
  BY LaneHalves
<1>3. (c = 0 <=> g = 0) => c = g
  BY DEF Bit
<1>4. ~(c = 0 <=> g = 0) => g = 1 - c /\ c = 1 - g
  BY DEF Bit
<1>5. Partner(i, 2) = Lane(a, b, 1 - c, d) /\ Partner(j, 2) = Lane(e, f, 1 - g, h)
  BY PartnerBits
<1>6. (LowerHalf(i, 2) <=> LowerHalf(j, 2)) => u = i /\ v = j
  BY <1>2, <1>3
<1>7. ~(LowerHalf(i, 2) <=> LowerHalf(j, 2)) => u = Partner(i, 2) /\ v = Partner(j, 2)
  BY <1>2, <1>4, <1>5
<1> HIDE DEF i, j, u, v
<1>8. j \in TransposeStage(rows, 2)[i] <=> v \in rows[u]
  BY <1>1, <1>6, <1>7, StageExchanges
<1> QED BY <1>8 DEF i, j, u, v

\* The stage 1 exchanges its bit of row and column.
LEMMA Stage1 ==
    ASSUME NEW rows \in [Lanes -> SUBSET Lanes],
           NEW a \in Bit, NEW b \in Bit, NEW c \in Bit, NEW d \in Bit,
           NEW e \in Bit, NEW f \in Bit, NEW g \in Bit, NEW h \in Bit
    PROVE  Lane(e, f, g, h) \in TransposeStage(rows, 1)[Lane(a, b, c, d)]
              <=> Lane(e, f, g, d) \in rows[Lane(a, b, c, h)]
<1> DEFINE i == Lane(a, b, c, d)
           j == Lane(e, f, g, h)
           u == Lane(a, b, c, h)
           v == Lane(e, f, g, d)
<1>1. i \in Lanes /\ j \in Lanes /\ u \in Lanes /\ v \in Lanes
  BY LaneHalves
<1>2. (LowerHalf(i, 1) <=> d = 0) /\ (LowerHalf(j, 1) <=> h = 0)
  BY LaneHalves
<1>3. (d = 0 <=> h = 0) => d = h
  BY DEF Bit
<1>4. ~(d = 0 <=> h = 0) => h = 1 - d /\ d = 1 - h
  BY DEF Bit
<1>5. Partner(i, 1) = Lane(a, b, c, 1 - d) /\ Partner(j, 1) = Lane(e, f, g, 1 - h)
  BY PartnerBits
<1>6. (LowerHalf(i, 1) <=> LowerHalf(j, 1)) => u = i /\ v = j
  BY <1>2, <1>3
<1>7. ~(LowerHalf(i, 1) <=> LowerHalf(j, 1)) => u = Partner(i, 1) /\ v = Partner(j, 1)
  BY <1>2, <1>4, <1>5
<1> HIDE DEF i, j, u, v
<1>8. j \in TransposeStage(rows, 1)[i] <=> v \in rows[u]
  BY <1>1, <1>6, <1>7, StageExchanges
<1> QED BY <1>8 DEF i, j, u, v

\* The four stages transpose.
LEMMA RowsTransposed ==
    ASSUME NEW rows \in [Lanes -> SUBSET Lanes], NEW i \in Lanes, NEW j \in Lanes
    PROVE  j \in TransposeRows(rows)[i] <=> i \in rows[j]
<1> DEFINE r8 == TransposeStage(rows, 8)
           r4 == TransposeStage(r8, 4)
           r2 == TransposeStage(r4, 2)
           r1 == TransposeStage(r2, 1)
<1>1. r8 \in [Lanes -> SUBSET Lanes]
  BY StageIsRows
<1>2. r4 \in [Lanes -> SUBSET Lanes]
  <2> HIDE DEF r8
  <2> QED BY <1>1, StageIsRows
<1>3. r2 \in [Lanes -> SUBSET Lanes]
  <2> HIDE DEF r4
  <2> QED BY <1>2, StageIsRows
<1>4. TransposeRows(rows) = r1
  BY DEF TransposeRows
<1>5. PICK a \in Bit, b \in Bit, c \in Bit, d \in Bit : i = Lane(a, b, c, d)
  BY LaneBits
<1>6. PICK e \in Bit, f \in Bit, g \in Bit, h \in Bit : j = Lane(e, f, g, h)
  BY LaneBits
<1>7. Lane(e, f, g, h) \in r1[Lane(a, b, c, d)] <=> Lane(e, f, g, d) \in r2[Lane(a, b, c, h)]
  <2> HIDE DEF r2
  <2> QED BY <1>3, Stage1
<1>8. Lane(e, f, g, d) \in r2[Lane(a, b, c, h)] <=> Lane(e, f, c, d) \in r4[Lane(a, b, g, h)]
  <2> HIDE DEF r4
  <2> QED BY <1>2, Stage2
<1>9. Lane(e, f, c, d) \in r4[Lane(a, b, g, h)] <=> Lane(e, b, c, d) \in r8[Lane(a, f, g, h)]
  <2> HIDE DEF r8
  <2> QED BY <1>1, Stage4
<1>10. Lane(e, b, c, d) \in r8[Lane(a, f, g, h)] <=> Lane(a, b, c, d) \in rows[Lane(e, f, g, h)]
  BY Stage8
<1> HIDE DEF r1, r2, r4, r8
<1> QED BY <1>4, <1>5, <1>6, <1>7, <1>8, <1>9, <1>10

-----------------------------------------------------------------------------
\* The cells of the word of 8 nodes by the bits of row and column.
Cells == 0 .. 63
Cell(a, b, c, d, e, f) == 32 * a + 16 * b + 8 * c + 4 * d + 2 * e + f

LEMMA CellBits ==
    \A i \in Cells : \E a, b, c, d, e, f \in Bit : i = Cell(a, b, c, d, e, f)
<1> SUFFICES ASSUME NEW i \in Cells
             PROVE  \E a, b, c, d, e, f \in Bit : i = Cell(a, b, c, d, e, f)
  OBVIOUS
<1> DEFINE a == i \div 32
           b == (i \div 16) % 2
           c == (i \div 8) % 2
           d == (i \div 4) % 2
           e == (i \div 2) % 2
           f == i % 2
<1>1. a \in Bit /\ b \in Bit /\ c \in Bit /\ d \in Bit /\ e \in Bit /\ f \in Bit
  BY DEF Cells, Bit
<1>2. i = Cell(a, b, c, d, e, f)
  BY DEF Cells, Cell
<1> HIDE DEF a, b, c, d, e, f
<1> QED BY <1>1, <1>2

LEMMA CellInMasks ==
    ASSUME NEW a \in Bit, NEW b \in Bit, NEW c \in Bit,
           NEW d \in Bit, NEW e \in Bit, NEW f \in Bit
    PROVE  /\ Cell(a, b, c, d, e, f) \in Cells
           /\ Cell(a, b, c, d, e, f) \in BlockMask(1) <=> c = 0 /\ f = 1
           /\ Cell(a, b, c, d, e, f) \in BlockMask(2) <=> b = 0 /\ e = 1
           /\ Cell(a, b, c, d, e, f) \in BlockMask(4) <=> a = 0 /\ d = 1
<1> DEFINE i == Cell(a, b, c, d, e, f)
<1>1. i \in Cells
  BY DEF Bit, Cells, Cell
<1>2. i \in BlockMask(1) <=> c = 0 /\ f = 1
  <2>1. (i \div 8) % 2 = c /\ (i \div 1) % 2 = f
    BY DEF Bit, Cell
  <2> HIDE DEF i
  <2> QED BY <1>1, <2>1 DEF BlockMask, Cells, Bit
<1>3. i \in BlockMask(2) <=> b = 0 /\ e = 1
  <2>1. (i \div 16) % 2 = b /\ (i \div 2) % 2 = e
    BY DEF Bit, Cell
  <2> HIDE DEF i
  <2> QED BY <1>1, <2>1 DEF BlockMask, Cells, Bit
<1>4. i \in BlockMask(4) <=> a = 0 /\ d = 1
  <2>1. (i \div 32) % 2 = a /\ (i \div 4) % 2 = d
    BY DEF Bit, Cell
  <2> HIDE DEF i
  <2> QED BY <1>1, <2>1 DEF BlockMask, Cells, Bit
<1> QED BY <1>1, <1>2, <1>3, <1>4

LEMMA SwapInCells ==
    ASSUME NEW x \in SUBSET Cells, NEW mask \in SUBSET Cells, NEW k \in Nat
    PROVE  SwapBlocks(x, k, mask) \subseteq Cells
<1> DEFINE t == Xor(x, ShiftRight(x, k)) \cap mask
<1>1. t \subseteq Cells
  OBVIOUS
<1>3. ShiftLeft(t, k, 64) \subseteq Cells
  <2> HIDE DEF t
  <2>1. \A i \in t : i + k < 64 => i + k \in Cells
    BY <1>1 DEF Cells
  <2> QED BY <2>1 DEF ShiftLeft
<1>2. SwapBlocks(x, k, mask) = Xor(Xor(x, t), ShiftLeft(t, k, 64))
  BY DEF SwapBlocks
<1> HIDE DEF t
<1> QED BY <1>1, <1>2, <1>3 DEF Xor

\* A swap moves the cells of the mask and their partners, and keeps the others.
LEMMA SwapMoves ==
    ASSUME NEW x \in SUBSET Cells, NEW mask \in SUBSET Cells, NEW k \in Nat,
           \A m \in mask : m + k \in Cells /\ m + k \notin mask,
           NEW i \in Cells, NEW u,
           i \in mask => u = i + k,
           i - k \in mask => u = i - k,
           i \notin mask /\ i - k \notin mask => u = i
    PROVE  i \in SwapBlocks(x, k, mask) <=> u \in x
<1> DEFINE t == Xor(x, ShiftRight(x, k)) \cap mask
           r == Xor(Xor(x, t), ShiftLeft(t, k, 64))
<1>0. x \subseteq Int /\ mask \subseteq Int /\ i \in Int /\ k \in Int
  BY DEF Cells
<1>1. SwapBlocks(x, k, mask) = r
  BY DEF SwapBlocks
<1>2. ASSUME NEW m \in mask PROVE m \in t <=> ~(m \in x <=> m + k \in x)
  <2>1. m \in ShiftRight(x, k) <=> m + k \in x
    <3>1. m + k >= k /\ (m + k) - k = m
      BY <1>0 DEF Cells
    <3>2. ASSUME NEW y \in x, m = y - k PROVE y = m + k
      BY <1>0, <3>2
    <3> QED BY <3>1, <3>2 DEF ShiftRight
  <2> QED BY <2>1 DEF Xor
<1>3. i \in ShiftLeft(t, k, 64) <=> i - k \in t
  <2>0. t \subseteq Cells
    OBVIOUS
  <2>1. ASSUME NEW y \in t, i = y + k PROVE y = i - k
    <3>1. y \in Int
      BY <2>0 DEF Cells
    <3> HIDE DEF t
    <3> QED BY <1>0, <2>1, <3>1
  <2>2. (i - k) + k < 64 /\ (i - k) + k = i
    BY <1>0 DEF Cells
  <2> HIDE DEF t
  <2> QED BY <2>1, <2>2 DEF ShiftLeft
<1>4. t \subseteq mask
  OBVIOUS
<1>6. i \in r <=> ~((~(i \in x <=> i \in t)) <=> i - k \in t)
  <2> HIDE DEF t
  <2> QED BY <1>3 DEF Xor
<1>7. i - k \in mask => i \notin mask /\ (i - k) + k = i
  <2>1. (i - k) + k = i
    BY <1>0
  <2> QED BY <2>1
<1>8. i \in mask => i - k \notin mask
  BY <1>7
<1> HIDE DEF r, t
<1>9. CASE i \in mask
  <2>1. i - k \notin t
    BY <1>4, <1>8, <1>9
  <2>2. i \in t <=> ~(i \in x <=> i + k \in x)
    BY <1>2, <1>9
  <2> QED BY <1>1, <1>6, <1>9, <2>1, <2>2
<1>10. CASE i - k \in mask
  <2>1. i \notin t
    BY <1>4, <1>7, <1>10
  <2>2. i - k \in t <=> ~(i - k \in x <=> i \in x)
    BY <1>2, <1>7, <1>10
  <2> QED BY <1>1, <1>6, <1>10, <2>1, <2>2
<1>11. CASE i \notin mask /\ i - k \notin mask
  <2>1. i \notin t /\ i - k \notin t
    BY <1>4, <1>11
  <2> QED BY <1>1, <1>6, <1>11, <2>1
<1> QED BY <1>9, <1>10, <1>11

\* The cells of the mask of 1 lie 7 before their partners.
LEMMA Mask1 ==
    ASSUME NEW m \in BlockMask(1)
    PROVE  /\ m \in Cells /\ m + 7 \in Cells /\ m + 7 \notin BlockMask(1)
           /\ \E a, b, c, d, e, f \in Bit : m = Cell(a, b, c, d, e, f) /\ c = 0 /\ f = 1
<1>1. m \in Cells
  BY DEF BlockMask, Cells
<1>2. PICK a \in Bit, b \in Bit, c \in Bit, d \in Bit, e \in Bit, f \in Bit :
           m = Cell(a, b, c, d, e, f)
  BY <1>1, CellBits
<1>3. Cell(a, b, c, d, e, f) \in BlockMask(1) <=> c = 0 /\ f = 1
  BY <1>2, CellInMasks
<1>4. c = 0 /\ f = 1
  BY <1>2, <1>3
<1>5. m + 7 = Cell(a, b, 1, d, e, 0)
  BY <1>2, <1>4 DEF Cell, Bit
<1>7. Cell(a, b, 1, d, e, 0) \in Cells
  BY <1>2 DEF Cell, Cells, Bit
<1>8. (Cell(a, b, 1, d, e, 0) \div 8) % 2 = 1
  BY <1>2 DEF Cell, Bit
<1>9. m + 7 \notin BlockMask(1)
  <2> DEFINE i == Cell(a, b, 1, d, e, 0)
  <2> HIDE DEF i
  <2>1. i \in BlockMask(1) => (i \div 8) % 2 = 0
    BY DEF BlockMask
  <2> QED BY <1>5, <1>8, <2>1 DEF i
<1> QED BY <1>1, <1>2, <1>4, <1>5, <1>7, <1>9

\* The swap of blocks of 1 exchanges one bit of row and column.
LEMMA Swap1 ==
    ASSUME NEW x \in SUBSET Cells,
           NEW a \in Bit, NEW b \in Bit, NEW c \in Bit,
           NEW d \in Bit, NEW e \in Bit, NEW f \in Bit
    PROVE  /\ Cell(a, b, c, d, e, f) \in SwapBlocks(x, 7, BlockMask(1))
                 <=> Cell(a, b, f, d, e, c) \in x
           /\ SwapBlocks(x, 7, BlockMask(1)) \subseteq Cells
<1> DEFINE i == Cell(a, b, c, d, e, f)
           u == Cell(a, b, f, d, e, c)
           mask == BlockMask(1)
<1>1. i \in Cells
  BY CellInMasks
<1>2. mask \in SUBSET Cells
  BY DEF BlockMask, Cells
<1>3. ASSUME NEW m \in mask PROVE m + 7 \in Cells /\ m + 7 \notin mask
  BY Mask1
<1>4. i \in mask => u = i + 7
  <2>1. i \in mask => c = 0 /\ f = 1
    BY CellInMasks
  <2>2. c = 0 /\ f = 1 => u = i + 7
    BY DEF Cell, Bit
  <2> QED BY <2>1, <2>2
<1>5. i - 7 \in mask => u = i - 7 /\ c = 1 /\ f = 0
  <2> SUFFICES ASSUME i - 7 \in mask PROVE u = i - 7 /\ c = 1 /\ f = 0
    OBVIOUS
  <2>1. PICK a1 \in Bit, b1 \in Bit, c1 \in Bit, d1 \in Bit, e1 \in Bit, f1 \in Bit :
             i - 7 = Cell(a1, b1, c1, d1, e1, f1) /\ c1 = 0 /\ f1 = 1
    BY Mask1
  <2>3. c = 1 /\ f = 0
    BY <2>1 DEF Cell, Bit
  <2> QED BY <2>3 DEF Cell, Bit
<1>6. i \notin mask /\ i - 7 \notin mask => u = i
  <2> SUFFICES ASSUME i \notin mask, i - 7 \notin mask PROVE u = i
    OBVIOUS
  <2>1. ~(c = 0 /\ f = 1)
    BY CellInMasks
  <2>2. ~(c = 1 /\ f = 0)
    <3> SUFFICES ASSUME c = 1, f = 0 PROVE FALSE
      OBVIOUS
    <3>1. i - 7 = Cell(a, b, 0, d, e, 1)
      BY DEF Cell, Bit
    <3>2. 1 \in Bit /\ 0 \in Bit
      BY DEF Bit
    <3>3. Cell(a, b, 0, d, e, 1) \in mask
      BY <3>2, CellInMasks
    <3> QED BY <3>1, <3>3
  <2>3. c = f
    BY <2>1, <2>2 DEF Bit
  <2> QED BY <2>3
<1> HIDE DEF i, u, mask
<1>7. i \in SwapBlocks(x, 7, mask) <=> u \in x
  BY <1>1, <1>2, <1>3, <1>4, <1>5, <1>6, SwapMoves
<1>8. SwapBlocks(x, 7, mask) \subseteq Cells
  BY <1>2, SwapInCells
<1> QED BY <1>7, <1>8 DEF i, u, mask

\* The cells of the mask of 2 lie 14 before their partners.
LEMMA Mask2 ==
    ASSUME NEW m \in BlockMask(2)
    PROVE  /\ m \in Cells /\ m + 14 \in Cells /\ m + 14 \notin BlockMask(2)
           /\ \E a, b, c, d, e, f \in Bit : m = Cell(a, b, c, d, e, f) /\ b = 0 /\ e = 1
<1>1. m \in Cells
  BY DEF BlockMask, Cells
<1>2. PICK a \in Bit, b \in Bit, c \in Bit, d \in Bit, e \in Bit, f \in Bit :
           m = Cell(a, b, c, d, e, f)
  BY <1>1, CellBits
<1>3. Cell(a, b, c, d, e, f) \in BlockMask(2) <=> b = 0 /\ e = 1
  BY <1>2, CellInMasks
<1>4. b = 0 /\ e = 1
  BY <1>2, <1>3
<1>5. m + 14 = Cell(a, 1, c, d, 0, f)
  BY <1>2, <1>4 DEF Cell, Bit
<1>7. Cell(a, 1, c, d, 0, f) \in Cells
  BY <1>2 DEF Cell, Cells, Bit
<1>8. (Cell(a, 1, c, d, 0, f) \div 16) % 2 = 1
  BY <1>2 DEF Cell, Bit
<1>9. m + 14 \notin BlockMask(2)
  <2> DEFINE i == Cell(a, 1, c, d, 0, f)
  <2> HIDE DEF i
  <2>1. i \in BlockMask(2) => (i \div 16) % 2 = 0
    BY DEF BlockMask
  <2> QED BY <1>5, <1>8, <2>1 DEF i
<1> QED BY <1>1, <1>2, <1>4, <1>5, <1>7, <1>9

\* The swap of blocks of 2 exchanges one bit of row and column.
LEMMA Swap2 ==
    ASSUME NEW x \in SUBSET Cells,
           NEW a \in Bit, NEW b \in Bit, NEW c \in Bit,
           NEW d \in Bit, NEW e \in Bit, NEW f \in Bit
    PROVE  /\ Cell(a, b, c, d, e, f) \in SwapBlocks(x, 14, BlockMask(2))
                 <=> Cell(a, e, c, d, b, f) \in x
           /\ SwapBlocks(x, 14, BlockMask(2)) \subseteq Cells
<1> DEFINE i == Cell(a, b, c, d, e, f)
           u == Cell(a, e, c, d, b, f)
           mask == BlockMask(2)
<1>1. i \in Cells
  BY CellInMasks
<1>2. mask \in SUBSET Cells
  BY DEF BlockMask, Cells
<1>3. ASSUME NEW m \in mask PROVE m + 14 \in Cells /\ m + 14 \notin mask
  BY Mask2
<1>4. i \in mask => u = i + 14
  <2>1. i \in mask => b = 0 /\ e = 1
    BY CellInMasks
  <2>2. b = 0 /\ e = 1 => u = i + 14
    BY DEF Cell, Bit
  <2> QED BY <2>1, <2>2
<1>5. i - 14 \in mask => u = i - 14 /\ b = 1 /\ e = 0
  <2> SUFFICES ASSUME i - 14 \in mask PROVE u = i - 14 /\ b = 1 /\ e = 0
    OBVIOUS
  <2>1. PICK a1 \in Bit, b1 \in Bit, c1 \in Bit, d1 \in Bit, e1 \in Bit, f1 \in Bit :
             i - 14 = Cell(a1, b1, c1, d1, e1, f1) /\ b1 = 0 /\ e1 = 1
    BY Mask2
  <2>3. b = 1 /\ e = 0
    BY <2>1 DEF Cell, Bit
  <2> QED BY <2>3 DEF Cell, Bit
<1>6. i \notin mask /\ i - 14 \notin mask => u = i
  <2> SUFFICES ASSUME i \notin mask, i - 14 \notin mask PROVE u = i
    OBVIOUS
  <2>1. ~(b = 0 /\ e = 1)
    BY CellInMasks
  <2>2. ~(b = 1 /\ e = 0)
    <3> SUFFICES ASSUME b = 1, e = 0 PROVE FALSE
      OBVIOUS
    <3>1. i - 14 = Cell(a, 0, c, d, 1, f)
      BY DEF Cell, Bit
    <3>2. 1 \in Bit /\ 0 \in Bit
      BY DEF Bit
    <3>3. Cell(a, 0, c, d, 1, f) \in mask
      BY <3>2, CellInMasks
    <3> QED BY <3>1, <3>3
  <2>3. b = e
    BY <2>1, <2>2 DEF Bit
  <2> QED BY <2>3
<1> HIDE DEF i, u, mask
<1>7. i \in SwapBlocks(x, 14, mask) <=> u \in x
  BY <1>1, <1>2, <1>3, <1>4, <1>5, <1>6, SwapMoves
<1>8. SwapBlocks(x, 14, mask) \subseteq Cells
  BY <1>2, SwapInCells
<1> QED BY <1>7, <1>8 DEF i, u, mask

\* The cells of the mask of 4 lie 28 before their partners.
LEMMA Mask4 ==
    ASSUME NEW m \in BlockMask(4)
    PROVE  /\ m \in Cells /\ m + 28 \in Cells /\ m + 28 \notin BlockMask(4)
           /\ \E a, b, c, d, e, f \in Bit : m = Cell(a, b, c, d, e, f) /\ a = 0 /\ d = 1
<1>1. m \in Cells
  BY DEF BlockMask, Cells
<1>2. PICK a \in Bit, b \in Bit, c \in Bit, d \in Bit, e \in Bit, f \in Bit :
           m = Cell(a, b, c, d, e, f)
  BY <1>1, CellBits
<1>3. Cell(a, b, c, d, e, f) \in BlockMask(4) <=> a = 0 /\ d = 1
  BY <1>2, CellInMasks
<1>4. a = 0 /\ d = 1
  BY <1>2, <1>3
<1>5. m + 28 = Cell(1, b, c, 0, e, f)
  BY <1>2, <1>4 DEF Cell, Bit
<1>7. Cell(1, b, c, 0, e, f) \in Cells
  BY <1>2 DEF Cell, Cells, Bit
<1>8. (Cell(1, b, c, 0, e, f) \div 32) % 2 = 1
  BY <1>2 DEF Cell, Bit
<1>9. m + 28 \notin BlockMask(4)
  <2> DEFINE i == Cell(1, b, c, 0, e, f)
  <2> HIDE DEF i
  <2>1. i \in BlockMask(4) => (i \div 32) % 2 = 0
    BY DEF BlockMask
  <2> QED BY <1>5, <1>8, <2>1 DEF i
<1> QED BY <1>1, <1>2, <1>4, <1>5, <1>7, <1>9

\* The swap of blocks of 4 exchanges one bit of row and column.
LEMMA Swap4 ==
    ASSUME NEW x \in SUBSET Cells,
           NEW a \in Bit, NEW b \in Bit, NEW c \in Bit,
           NEW d \in Bit, NEW e \in Bit, NEW f \in Bit
    PROVE  /\ Cell(a, b, c, d, e, f) \in SwapBlocks(x, 28, BlockMask(4))
                 <=> Cell(d, b, c, a, e, f) \in x
           /\ SwapBlocks(x, 28, BlockMask(4)) \subseteq Cells
<1> DEFINE i == Cell(a, b, c, d, e, f)
           u == Cell(d, b, c, a, e, f)
           mask == BlockMask(4)
<1>1. i \in Cells
  BY CellInMasks
<1>2. mask \in SUBSET Cells
  BY DEF BlockMask, Cells
<1>3. ASSUME NEW m \in mask PROVE m + 28 \in Cells /\ m + 28 \notin mask
  BY Mask4
<1>4. i \in mask => u = i + 28
  <2>1. i \in mask => a = 0 /\ d = 1
    BY CellInMasks
  <2>2. a = 0 /\ d = 1 => u = i + 28
    BY DEF Cell, Bit
  <2> QED BY <2>1, <2>2
<1>5. i - 28 \in mask => u = i - 28 /\ a = 1 /\ d = 0
  <2> SUFFICES ASSUME i - 28 \in mask PROVE u = i - 28 /\ a = 1 /\ d = 0
    OBVIOUS
  <2>1. PICK a1 \in Bit, b1 \in Bit, c1 \in Bit, d1 \in Bit, e1 \in Bit, f1 \in Bit :
             i - 28 = Cell(a1, b1, c1, d1, e1, f1) /\ a1 = 0 /\ d1 = 1
    BY Mask4
  <2>3. a = 1 /\ d = 0
    BY <2>1 DEF Cell, Bit
  <2> QED BY <2>3 DEF Cell, Bit
<1>6. i \notin mask /\ i - 28 \notin mask => u = i
  <2> SUFFICES ASSUME i \notin mask, i - 28 \notin mask PROVE u = i
    OBVIOUS
  <2>1. ~(a = 0 /\ d = 1)
    BY CellInMasks
  <2>2. ~(a = 1 /\ d = 0)
    <3> SUFFICES ASSUME a = 1, d = 0 PROVE FALSE
      OBVIOUS
    <3>1. i - 28 = Cell(0, b, c, 1, e, f)
      BY DEF Cell, Bit
    <3>2. 1 \in Bit /\ 0 \in Bit
      BY DEF Bit
    <3>3. Cell(0, b, c, 1, e, f) \in mask
      BY <3>2, CellInMasks
    <3> QED BY <3>1, <3>3
  <2>3. a = d
    BY <2>1, <2>2 DEF Bit
  <2> QED BY <2>3
<1> HIDE DEF i, u, mask
<1>7. i \in SwapBlocks(x, 28, mask) <=> u \in x
  BY <1>1, <1>2, <1>3, <1>4, <1>5, <1>6, SwapMoves
<1>8. SwapBlocks(x, 28, mask) \subseteq Cells
  BY <1>2, SwapInCells
<1> QED BY <1>7, <1>8 DEF i, u, mask

LEMMA RowAndColumn ==
    ASSUME NEW p \in 0 .. 7, NEW q \in 0 .. 7, NEW m \in 0 .. 7, NEW n \in 0 .. 7,
           8 * p + q = 8 * m + n
    PROVE  p = m /\ q = n
OBVIOUS

\* The three swaps transpose the word.
LEMMA WordTransposed ==
    ASSUME NEW x \in SUBSET Cells, NEW p \in 0 .. 7, NEW q \in 0 .. 7
    PROVE  8 * p + q \in TransposeWord(x) <=> 8 * q + p \in x
<1> DEFINE x1 == SwapBlocks(x, 7, BlockMask(1))
           x2 == SwapBlocks(x1, 14, BlockMask(2))
           x4 == SwapBlocks(x2, 28, BlockMask(4))
<1>1. 8 * p + q \in Cells
  BY DEF Cells
<1>2. PICK a \in Bit, b \in Bit, c \in Bit, d \in Bit, e \in Bit, f \in Bit :
           8 * p + q = Cell(a, b, c, d, e, f)
  BY <1>1, CellBits
<1>3. 8 * q + p = Cell(d, e, f, a, b, c)
  <2>1. 8 * p + q = 8 * (4 * a + 2 * b + c) + (4 * d + 2 * e + f)
    BY <1>2 DEF Cell, Bit
  <2>2. 4 * a + 2 * b + c \in 0 .. 7 /\ 4 * d + 2 * e + f \in 0 .. 7
    BY DEF Bit
  <2>3. p = 4 * a + 2 * b + c /\ q = 4 * d + 2 * e + f
    <3> DEFINE m == 4 * a + 2 * b + c
               n == 4 * d + 2 * e + f
    <3>1. m \in 0 .. 7 /\ n \in 0 .. 7 /\ 8 * p + q = 8 * m + n
      BY <2>1, <2>2
    <3> HIDE DEF m, n
    <3>2. p = m /\ q = n
      BY <3>1, RowAndColumn
    <3> QED BY <3>2 DEF m, n
  <2> QED BY <2>3 DEF Cell, Bit
<1>4. x1 \subseteq Cells
  BY <1>2, Swap1
<1>5. x2 \subseteq Cells
  <2> HIDE DEF x1
  <2> QED BY <1>2, <1>4, Swap2
<1>6. Cell(a, b, c, d, e, f) \in x4 <=> Cell(d, b, c, a, e, f) \in x2
  <2> HIDE DEF x2
  <2> QED BY <1>5, Swap4
<1>7. Cell(d, b, c, a, e, f) \in x2 <=> Cell(d, e, c, a, b, f) \in x1
  <2> HIDE DEF x1
  <2> QED BY <1>4, Swap2
<1>8. Cell(d, e, c, a, b, f) \in x1 <=> Cell(d, e, f, a, b, c) \in x
  BY Swap1
<1>9. TransposeWord(x) = x4
  BY DEF TransposeWord
<1> HIDE DEF x1, x2, x4
<1> QED BY <1>2, <1>3, <1>6, <1>7, <1>8, <1>9

-----------------------------------------------------------------------------
\* Behind the nodes a label is whatever the buffer holds, but it is a lane.
LEMMA PaddedLabels ==
    ASSUME NEW W \in {8, 16}, N <= W, NEW k, Enumerates(k), NEW pad \in Paddings(W)
    PROVE  /\ \A p \in Nodes : Padded(k.label, pad)[p] = k.label[p] /\ k.label[p] \in Nodes
           /\ \A p \in 0 .. W-1 : Padded(k.label, pad)[p] \in 0 .. W-1
<1>1. Nodes = Positions /\ \A p \in Nodes : k.label[p] \in Nodes
  BY DEF Enumerates, Colorings, Nodes, Positions
<1>2. DOMAIN pad = N .. W-1 /\ \A p \in N .. W-1 : pad[p] \in 0 .. W-1
  BY NAssumption DEF Paddings
<1>3. ASSUME NEW p \in Positions \cup DOMAIN pad
      PROVE  Padded(k.label, pad)[p] = IF p \in Positions THEN k.label[p] ELSE pad[p]
  BY DEF Padded
<1>4. \A p \in 0 .. W-1 : p \in Nodes \/ p \in N .. W-1
  BY NAssumption DEF Nodes
<1>5. \A p \in Nodes : p \in 0 .. W-1
  BY NAssumption DEF Nodes
<1>6. ASSUME NEW p \in 0 .. W-1 PROVE Padded(k.label, pad)[p] \in 0 .. W-1
  <2>1. CASE p \in Nodes
    BY <1>1, <1>3, <1>5, <2>1
  <2>2. CASE p \notin Nodes
    BY <1>1, <1>2, <1>3, <1>4, <2>2
  <2> QED BY <2>1, <2>2
<1> QED BY <1>1, <1>3, <1>6

LEMMA NodesAreLanes == (N <= 16 => Nodes \subseteq Lanes) /\ (N <= 8 => Nodes \subseteq 0 .. 7)
BY NAssumption DEF Nodes, Lanes

LEMMA SimpleGraphIsSymmetric ==
    ASSUME NEW g \in SimpleGraphs, NEW u \in Nodes, NEW v \in Nodes
    PROVE  u \in g[v] <=> v \in g[u]
BY DEF SimpleGraphs

\* 16 nodes: the rows of the nodes hold the reordered matrix.
LEMMA RowsReordered ==
    ASSUME N <= 16, NEW g \in SimpleGraphs, NEW k, Enumerates(k), NEW pad \in Paddings(16),
           NEW p \in Nodes
    PROVE  LeafRows(g, k, pad)[p] \cap Nodes = ReorderGraph(g, k)[p]
<1> DEFINE label == Padded(k.label, pad)
           r == SwizzleRows(Rows16(g), label)
<1>1. /\ \A q \in Nodes : label[q] = k.label[q] /\ k.label[q] \in Nodes
      /\ \A q \in Lanes : label[q] \in Lanes
  <2>1. \A q \in Nodes : Padded(k.label, pad)[q] = k.label[q] /\ k.label[q] \in Nodes
    BY PaddedLabels
  <2>2. \A q \in 0 .. 16-1 : Padded(k.label, pad)[q] \in 0 .. 16-1
    BY PaddedLabels
  <2> QED BY <2>1, <2>2 DEF Lanes
<1>2. g \in [Nodes -> SUBSET Nodes] /\ Nodes \subseteq Lanes
  BY NodesAreLanes DEF SimpleGraphs
<1> HIDE DEF label
<1>3. Rows16(g) \in [Lanes -> SUBSET Lanes] /\ \A u \in Nodes : Rows16(g)[u] = g[u]
  BY <1>2 DEF Rows16
<1>4. r \in [Lanes -> SUBSET Lanes] /\ \A q \in Nodes : r[q] = g[k.label[q]]
  BY <1>1, <1>2, <1>3 DEF SwizzleRows
<1> HIDE DEF r
<1>5. LeafRows(g, k, pad)[p] = TransposeRows(r)[k.label[p]]
  BY <1>1, <1>2 DEF LeafRows, ReorderRows, SwizzleRows, r, label
<1>6. ASSUME NEW q \in Nodes
      PROVE  q \in LeafRows(g, k, pad)[p] <=> q \in ReorderGraph(g, k)[p]
  <2>1. q \in TransposeRows(r)[k.label[p]] <=> k.label[p] \in r[q]
    BY <1>1, <1>2, <1>4, RowsTransposed
  <2>2. k.label[p] \in g[k.label[q]] <=> k.label[q] \in g[k.label[p]]
    BY <1>1, SimpleGraphIsSymmetric
  <2>3. p \in Positions /\ q \in Positions
    BY DEF Nodes, Positions
  <2>4. q \in ReorderGraph(g, k)[p] <=> k.label[q] \in g[k.label[p]]
    BY <1>2, <2>3, Reordered
  <2> QED BY <1>4, <1>5, <2>1, <2>2, <2>4
<1>7. ReorderGraph(g, k)[p] \subseteq Nodes
  BY <1>2, ReorderedIsMatrix
<1> QED BY <1>6, <1>7

-----------------------------------------------------------------------------
LEMMA Word8Holds ==
    ASSUME N <= 8, NEW g \in [Nodes -> SUBSET Nodes]
    PROVE  /\ Word8(g) \subseteq Cells
           /\ \A u, v \in 0 .. 7 : 8*u + v \in Word8(g) <=> u \in Nodes /\ v \in g[u]
<1> DEFINE pairs == {d \in Nodes \X Nodes : d[2] \in g[d[1]]}
<1>0. Nodes \subseteq 0 .. 7
  BY NodesAreLanes
<1>1. Word8(g) = {8 * e[1] + e[2] : e \in pairs}
  BY DEF Word8
<1>2. ASSUME NEW e \in pairs
      PROVE  e[1] \in Nodes /\ e[2] \in g[e[1]] /\ e[1] \in 0 .. 7 /\ e[2] \in 0 .. 7
  BY <1>0
<1>3. ASSUME NEW e \in pairs PROVE 8 * e[1] + e[2] \in Cells
  <2> DEFINE x == e[1]
             y == e[2]
  <2>1. x \in 0 .. 7 /\ y \in 0 .. 7
    BY <1>2
  <2> HIDE DEF x, y
  <2>2. 8 * x + y \in Cells
    BY <2>1 DEF Cells
  <2> QED BY <2>2 DEF x, y
<1>4. ASSUME NEW u \in 0 .. 7, NEW v \in 0 .. 7
      PROVE  8*u + v \in Word8(g) <=> u \in Nodes /\ v \in g[u]
  <2>1. ASSUME u \in Nodes, v \in g[u] PROVE 8*u + v \in Word8(g)
    <3>1. <<u, v>> \in pairs
      BY <2>1
    <3> QED BY <1>1, <3>1
  <2>2. ASSUME 8*u + v \in Word8(g) PROVE u \in Nodes /\ v \in g[u]
    <3>1. PICK e \in pairs : 8*u + v = 8 * e[1] + e[2]
      BY <1>1, <2>2
    <3> DEFINE x == e[1]
               y == e[2]
    <3>2. x \in 0 .. 7 /\ y \in 0 .. 7 /\ x \in Nodes /\ y \in g[x] /\ 8*u + v = 8*x + y
      BY <1>2, <3>1
    <3> HIDE DEF x, y
    <3>3. u = x /\ v = y
      BY <3>2, RowAndColumn
    <3> QED BY <3>2, <3>3
  <2> QED BY <2>1, <2>2
<1> HIDE DEF pairs
<1> QED BY <1>1, <1>3, <1>4

LEMMA BytesShuffled ==
    ASSUME NEW x, NEW label, NEW p \in 0 .. 7, NEW q \in 0 .. 7
    PROVE  /\ 8*p + q \in ShuffleBytes(x, label) <=> 8 * label[p] + q \in x
           /\ ShuffleBytes(x, label) \subseteq Cells
<1>1. (8*p + q) \div 8 = p /\ (8*p + q) % 8 = q /\ 8*p + q \in 0 .. 63
  OBVIOUS
<1> DEFINE i == 8*p + q
<1> HIDE DEF i
<1>2. i \in ShuffleBytes(x, label) <=> i \in 0 .. 63 /\ 8 * label[i \div 8] + (i % 8) \in x
  BY DEF ShuffleBytes
<1>3. ShuffleBytes(x, label) \subseteq Cells
  BY DEF ShuffleBytes, Cells
<1> QED BY <1>1, <1>2, <1>3 DEF i

\* 8 nodes: on the nodes the word is that of the reordered matrix.
LEMMA WordReordered ==
    ASSUME N <= 8, NEW g \in SimpleGraphs, NEW k, Enumerates(k), NEW pad \in Paddings(8)
    PROVE  /\ LeafWord(g, k, pad) \subseteq Cells
           /\ \A p, q \in Nodes : 8*p + q \in LeafWord(g, k, pad) <=> q \in ReorderGraph(g, k)[p]
<1> DEFINE label == Padded(k.label, pad)
           x == Word8(g)
           x1 == ShuffleBytes(x, label)
           x2 == TransposeWord(x1)
<1>1. \A q \in Nodes : label[q] = k.label[q] /\ k.label[q] \in Nodes
  BY PaddedLabels
<1>2. g \in [Nodes -> SUBSET Nodes] /\ Nodes \subseteq 0 .. 7
  BY NodesAreLanes DEF SimpleGraphs
<1>3. LeafWord(g, k, pad) = ShuffleBytes(x2, label)
  BY DEF LeafWord, ReorderWord
<1> HIDE DEF label
<1>4. 0 \in 0 .. 7
  OBVIOUS
<1>5. LeafWord(g, k, pad) \subseteq Cells
  BY <1>3, <1>4, BytesShuffled
<1>6. x1 \subseteq Cells
  BY <1>4, BytesShuffled
<1>7. ASSUME NEW p \in Nodes, NEW q \in Nodes
      PROVE  8*p + q \in LeafWord(g, k, pad) <=> q \in ReorderGraph(g, k)[p]
  <2>0. /\ p \in 0 .. 7 /\ q \in 0 .. 7 /\ k.label[p] \in 0 .. 7 /\ k.label[q] \in 0 .. 7
        /\ label[p] = k.label[p] /\ label[q] = k.label[q]
        /\ k.label[p] \in Nodes /\ k.label[q] \in Nodes
    BY <1>1, <1>2
  <2>1. 8*p + q \in LeafWord(g, k, pad) <=> 8 * k.label[p] + q \in x2
    <3> HIDE DEF x2
    <3> QED BY <1>3, <2>0, BytesShuffled
  <2>2. 8 * k.label[p] + q \in x2 <=> 8*q + k.label[p] \in x1
    <3> HIDE DEF x1
    <3> QED BY <1>6, <2>0, WordTransposed
  <2>3. 8*q + k.label[p] \in x1 <=> 8 * k.label[q] + k.label[p] \in x
    <3> HIDE DEF x
    <3> QED BY <2>0, BytesShuffled
  <2>4. 8 * k.label[q] + k.label[p] \in x <=> k.label[p] \in g[k.label[q]]
    BY <1>2, <2>0, Word8Holds
  <2>5. k.label[p] \in g[k.label[q]] <=> k.label[q] \in g[k.label[p]]
    BY <2>0, SimpleGraphIsSymmetric
  <2>6. p \in Positions /\ q \in Positions
    BY DEF Nodes, Positions
  <2>7. q \in ReorderGraph(g, k)[p] <=> k.label[q] \in g[k.label[p]]
    BY <1>2, <2>6, Reordered
  <2> HIDE DEF x, x1, x2
  <2> QED BY <2>1, <2>2, <2>3, <2>4, <2>5, <2>7
<1> QED BY <1>5, <1>7

OnNodes == {8 * e[1] + e[2] : e \in Nodes \X Nodes}

LEMMA OnNodesHolds ==
    ASSUME N <= 8
    PROVE  /\ \A z \in OnNodes : \E p, q \in Nodes : z = 8*p + q
           /\ \A p, q \in Nodes : 8*p + q \in OnNodes
           /\ {i \in Cells : i % 8 < N /\ i < 8 * N} = OnNodes
<1>1. Nodes \subseteq 0 .. 7 /\ N \in Nat
  BY NodesAreLanes, NAssumption
<1>2. ASSUME NEW z \in OnNodes PROVE \E p, q \in Nodes : z = 8*p + q
  <2>1. PICK e \in Nodes \X Nodes : z = 8 * e[1] + e[2]
    BY DEF OnNodes
  <2>2. e[1] \in Nodes /\ e[2] \in Nodes
    BY <2>1
  <2> QED BY <2>1, <2>2
<1>3. ASSUME NEW p \in Nodes, NEW q \in Nodes PROVE 8*p + q \in OnNodes
  <2>1. <<p, q>> \in Nodes \X Nodes
    OBVIOUS
  <2>2. 8 * <<p, q>>[1] + <<p, q>>[2] \in OnNodes
    BY <2>1 DEF OnNodes
  <2> QED BY <2>2
<1>4. ASSUME NEW i \in Cells, i % 8 < N, i < 8 * N PROVE i \in OnNodes
  <2> DEFINE p == i \div 8
             q == i % 8
  <2>1. p \in Nodes /\ q \in Nodes /\ i = 8*p + q
    BY <1>1, <1>4 DEF Cells, Nodes
  <2> HIDE DEF p, q
  <2> QED BY <1>3, <2>1
<1>5. ASSUME NEW p \in Nodes, NEW q \in Nodes
      PROVE  8*p + q \in Cells /\ (8*p + q) % 8 < N /\ 8*p + q < 8 * N
  <2>1. p \in 0 .. 7 /\ q \in 0 .. 7 /\ p <= N - 1 /\ q < N
    BY <1>1 DEF Nodes
  <2>2. (8*p + q) % 8 = q
    BY <2>1
  <2>3. 8*p + q \in Cells /\ 8*p + q < 8 * N
    BY <1>1, <2>1 DEF Cells
  <2> QED BY <2>1, <2>2, <2>3
<1>6. {i \in Cells : i % 8 < N /\ i < 8 * N} = OnNodes
  BY <1>2, <1>4, <1>5
<1> QED BY <1>2, <1>3, <1>6

LEMMA WordOnNodes ==
    ASSUME N <= 8, NEW g \in SimpleGraphs, NEW k, Enumerates(k), NEW pad \in Paddings(8)
    PROVE  LeafWord(g, k, pad) \cap OnNodes = Word8(ReorderGraph(g, k))
<1> DEFINE w == LeafWord(g, k, pad)
           m == ReorderGraph(g, k)
<1>1. \A p, q \in Nodes : 8*p + q \in w <=> q \in m[p]
  BY WordReordered
<1>2. m \in [Nodes -> SUBSET Nodes]
  BY ReorderedIsMatrix DEF SimpleGraphs
<1>3. Nodes \subseteq 0 .. 7
  BY NodesAreLanes
<1> HIDE DEF w, m
<1>4. \A u, v \in 0 .. 7 : 8*u + v \in Word8(m) <=> u \in Nodes /\ v \in m[u]
  BY <1>2, Word8Holds
<1>5. \A p, q \in Nodes : 8*p + q \in Word8(m) <=> q \in m[p]
  BY <1>3, <1>4
<1>6. Word8(m) \subseteq OnNodes
  <2> SUFFICES ASSUME NEW z \in Word8(m) PROVE z \in OnNodes
    OBVIOUS
  <2>1. PICK d \in {e \in Nodes \X Nodes : e[2] \in m[e[1]]} : z = 8 * d[1] + d[2]
    BY DEF Word8
  <2> QED BY <2>1 DEF OnNodes
<1>7. \A z \in OnNodes : z \in w <=> z \in Word8(m)
  <2> SUFFICES ASSUME NEW z \in OnNodes PROVE z \in w <=> z \in Word8(m)
    OBVIOUS
  <2>1. PICK p \in Nodes, q \in Nodes : z = 8*p + q
    BY OnNodesHolds
  <2>2. 8*p + q \in w <=> 8*p + q \in Word8(m)
    BY <1>1, <1>5, <2>1
  <2> QED BY <2>1, <2>2
<1>8. w \cap OnNodes = Word8(m)
  BY <1>6, <1>7
<1> QED BY <1>8 DEF w, m

LEMMA LeafReorderedAlike ==
    ASSUME NEW g \in SimpleGraphs, NEW k, Enumerates(k)
    PROVE  ReorderedAlike(g, k)
BY WordOnNodes, RowsReordered DEF ReorderedAlike, OnNodes

-----------------------------------------------------------------------------
LEMMA WordOrderCases ==
    ASSUME NEW a, NEW b
    PROVE  /\ WordOrder(a, b) \in {Less, Equal, Greater}
           /\ WordOrder(a, b) = Equal <=> a = b
<1> DEFINE differ == (a \ b) \cup (b \ a)
<1>1. differ = {} <=> a = b
  OBVIOUS
<1>2. WordOrder(a, b) = IF differ = {} THEN Equal ELSE IF Max(differ) \in b THEN Less ELSE Greater
  BY DEF WordOrder
<1> HIDE DEF differ
<1> QED BY <1>1, <1>2 DEF Less, Equal, Greater

\* The first lane the two comparisons tell apart is the first row that differs.
LEMMA LanesCompared ==
    ASSUME N <= 16, NEW a, NEW b, NEW m0 \in [Nodes -> SUBSET Nodes], NEW m1 \in [Nodes -> SUBSET Nodes],
           \A u \in Nodes : a[u] \cap Nodes = m0[u] /\ b[u] \cap Nodes = m1[u]
    PROVE  CompareLanes(a, b) = CompareRows(m0, m1)
<1> DEFINE row(rows, u) == IF u \in Nodes THEN rows[u] \cap Nodes ELSE {}
           o(u) == WordOrder(row(a, u), row(b, u))
           le == {u \in Lanes : o(u) # Greater}
           ge == {u \in Lanes : o(u) # Less}
           differ == {u \in Nodes : m0[u] # m1[u]}
           first == Min(differ)
<1>1. CompareLanes(a, b) = IF le = ge THEN Equal ELSE IF Min(Xor(le, ge)) \in le THEN Less ELSE Greater
  BY DEF CompareLanes
<1>2. CompareRows(m0, m1) = IF differ = {} THEN Equal ELSE WordOrder(m0[first], m1[first])
  BY DEF CompareRows
<1>3. ASSUME NEW u \in Nodes PROVE o(u) = WordOrder(m0[u], m1[u])
  OBVIOUS
<1>4. ASSUME NEW u, u \notin Nodes PROVE o(u) = Equal
  BY <1>4, WordOrderCases
<1>5. ASSUME NEW u PROVE o(u) \in {Less, Equal, Greater}
  BY WordOrderCases
<1>6. ASSUME NEW u \in Nodes PROVE o(u) = Equal <=> m0[u] = m1[u]
  BY <1>3, WordOrderCases
<1>7. Nodes \subseteq Lanes
  BY NodesAreLanes
<1>8. Less # Equal /\ Less # Greater /\ Equal # Greater
  BY DEF Less, Equal, Greater
<1>9. differ # {} => first \in differ
  <2> SUFFICES ASSUME differ # {} PROVE first \in differ
    OBVIOUS
  <2>1. differ \subseteq Nat
    BY NAssumption DEF Nodes
  <2> HIDE DEF differ
  <2>2. \E x \in differ : \A y \in differ : x <= y
    BY <2>1, HasLeast
  <2> QED BY <2>2 DEF Min
<1> HIDE DEF o
<1>10. Xor(le, ge) = differ
  <2>1. ASSUME NEW u \in Lanes PROVE u \in Xor(le, ge) <=> u \in differ
    BY <1>4, <1>5, <1>6, <1>8 DEF Xor
  <2>2. Xor(le, ge) \subseteq Lanes
    BY DEF Xor
  <2> QED BY <1>7, <2>1, <2>2
<1>11. le = ge <=> differ = {}
  BY <1>10 DEF Xor
<1>12. differ # {} => (first \in le <=> o(first) = Less)
  BY <1>5, <1>6, <1>7, <1>8, <1>9
<1>13. differ # {} => o(first) = WordOrder(m0[first], m1[first]) /\ o(first) \in {Less, Greater}
  BY <1>3, <1>5, <1>6, <1>9
<1> HIDE DEF differ, first, le, ge
<1>14. differ # {} => Min(Xor(le, ge)) = first
  BY <1>10 DEF first
<1> QED BY <1>1, <1>2, <1>8, <1>11, <1>12, <1>13, <1>14

LEMMA LeavesComparedAlike ==
    ASSUME NEW g \in SimpleGraphs, NEW k0, NEW k1, Enumerates(k0), Enumerates(k1)
    PROVE  ComparedAlike(g, k0, k1)
<1> DEFINE m0 == ReorderGraph(g, k0)
           m1 == ReorderGraph(g, k1)
<1>1. m0 \in [Nodes -> SUBSET Nodes] /\ m1 \in [Nodes -> SUBSET Nodes]
  BY ReorderedIsMatrix DEF SimpleGraphs
<1>2. ASSUME N <= 8, NEW pad \in Paddings(8)
      PROVE  CompareMaskedWords(LeafWord(g, k0, pad), LeafWord(g, k1, pad)) = CompareWord(m0, m1)
  <2> DEFINE mask == {i \in 0 .. 63 : i % 8 < N /\ i < 8 * N}
             x == LeafWord(g, k0, pad)
             y == LeafWord(g, k1, pad)
  <2>1. mask = OnNodes
    BY <1>2, OnNodesHolds DEF Cells
  <2>2. CompareMaskedWords(x, y) = WordOrder(x \cap mask, y \cap mask)
    BY DEF CompareMaskedWords
  <2>3. CompareWord(m0, m1) = WordOrder(Word8(m0), Word8(m1))
    BY DEF CompareWord, Word8
  <2>4. x \cap OnNodes = Word8(m0) /\ y \cap OnNodes = Word8(m1)
    BY <1>2, WordOnNodes
  <2> HIDE DEF mask, x, y, m0, m1
  <2>5. CompareMaskedWords(x, y) = CompareWord(m0, m1)
    BY <2>1, <2>2, <2>3, <2>4
  <2> QED BY <2>5 DEF x, y
<1>3. ASSUME N <= 16, NEW pad \in Paddings(16)
      PROVE  CompareLanes(LeafRows(g, k0, pad), LeafRows(g, k1, pad)) = CompareRows(m0, m1)
  <2> DEFINE a == LeafRows(g, k0, pad)
             b == LeafRows(g, k1, pad)
  <2>1. \A u \in Nodes : a[u] \cap Nodes = m0[u] /\ b[u] \cap Nodes = m1[u]
    BY <1>3, RowsReordered
  <2> HIDE DEF a, b, m0, m1
  <2>2. CompareLanes(a, b) = CompareRows(m0, m1)
    BY <1>1, <1>3, <2>1, LanesCompared
  <2> QED BY <2>2 DEF a, b
<1> QED BY <1>2, <1>3 DEF ComparedAlike

(***************************************************************************)
(* The forms of reorder_graph and compare_matrix for 8 and 16 nodes stand  *)
(* for the generic ones at every leaf of every search, whatever is behind  *)
(* the labels, on undirected graphs: the forms leave out the last          *)
(* transposition, so the symmetry is needed.                               *)
(***************************************************************************)
THEOREM SpecialFormsAgree ==
    ASSUME CallsLegal, RefinesApart, Graphs \subseteq SimpleGraphs
    PROVE  Spec => []LeafFormsAgree
<1>1. TInv => LeafFormsAgree
  <2> SUFFICES ASSUME TInv, AtLeaf
               PROVE  /\ ReorderedAlike(graph, coloring)
                      /\ best.has_value => ComparedAlike(graph, best.leaf, coloring)
    BY DEF LeafFormsAgree
  <2>1. graph \in SimpleGraphs
    BY DEF TInv, SInv, Legal
  <2>2. Enumerates(coloring)
    BY ColoringEnumerates DEF AtLeaf, TInv
  <2>3. best.has_value => Enumerates(best.leaf)
    BY BestLeafWellFormed DEF WellFormed
  <2> QED BY <2>1, <2>2, <2>3, LeafReorderedAlike, LeavesComparedAlike
<1> QED BY <1>1, TrailInvariance, PTL
=============================================================================
