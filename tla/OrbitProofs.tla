---------------------------- MODULE OrbitProofs ----------------------------
(***************************************************************************)
(* For every number of nodes: the pointers of the orbit partition never    *)
(* form a cycle, only recorded pairs are merged and no root returns; the   *)
(* size kept at a root is the number of nodes in its class, and the steps  *)
(* of orbits.hpp implement its calls.                                      *)
(***************************************************************************)
EXTENDS OrbitRefinement, InductionLemmas, TLAPS

\* recorded is an equivalence on the nodes.
IsEquivalence(R) ==
    /\ R \subseteq Nodes \X Nodes
    /\ \A a \in Nodes : <<a, a>> \in R
    /\ \A a, b \in Nodes : <<a, b>> \in R => <<b, a>> \in R
    /\ \A a, b, c \in Nodes : <<a, b>> \in R /\ <<b, c>> \in R => <<a, c>> \in R

\* Sizes grow along the part of the path that a search has left behind.
SearchGrows == pc # "idle" /\ node # repr => size[node] < size[repr]

\* A node that its search has left is no root.
SearchMoved == pc # "idle" /\ node # repr => partition[node] # node

\* The first result of union_orbits is still a root when the second is known.
FirstIsRoot == pc = "second" => partition[repr1] = repr1

\* Searches stay within the recorded equivalence, and so does the pair that
\* union_orbits is about to merge.
SearchRecorded ==
    /\ pc # "idle" => <<node, repr>> \in recorded
    /\ pc = "first" => <<node, other>> \in recorded
    /\ pc = "second" => <<repr1, node>> \in recorded

\* The inductive invariant.
IInv == /\ TypeOK
        /\ \A v \in Nodes : size[v] >= 1
        /\ SizesGrow
        /\ SearchGrows
        /\ SearchMoved
        /\ FirstIsRoot
        /\ IsEquivalence(recorded)
        /\ PointersRecorded
        /\ SearchRecorded

-----------------------------------------------------------------------------
\* Joining two nodes gives an equivalence that contains the old one and the pair.
LEMMA JoinedEquivalence ==
    ASSUME NEW R, IsEquivalence(R), NEW a \in Nodes, NEW b \in Nodes
    PROVE  /\ IsEquivalence(Joined(R, a, b))
           /\ R \subseteq Joined(R, a, b)
           /\ <<a, b>> \in Joined(R, a, b)
<1> DEFINE J == Joined(R, a, b)
<1>1. \A x, y \in Nodes : <<x, y>> \in J <=>
            \/ <<x, y>> \in R
            \/ <<x, a>> \in R /\ <<b, y>> \in R
            \/ <<x, b>> \in R /\ <<a, y>> \in R
  BY DEF Joined
<1>2. J \subseteq Nodes \X Nodes
  BY DEF Joined
<1>3. R \subseteq J
  BY DEF Joined, IsEquivalence
<1>4. <<a, b>> \in J
  BY <1>1 DEF IsEquivalence
<1>5. \A x \in Nodes : <<x, x>> \in J
  BY <1>1 DEF IsEquivalence
<1> HIDE DEF J
<1>6. \A x, y \in Nodes : <<x, y>> \in J => <<y, x>> \in J
  BY <1>1 DEF IsEquivalence
<1>7. \A x, y, z \in Nodes : <<x, y>> \in J /\ <<y, z>> \in J => <<x, z>> \in J
  BY <1>1 DEF IsEquivalence
<1> QED
  BY <1>2, <1>3, <1>4, <1>5, <1>6, <1>7 DEF IsEquivalence, J

\* The state after the constructor satisfies the invariant.
LEMMA InitIInv == Init => IInv
<1> SUFFICES ASSUME Init PROVE IInv
  OBVIOUS
<1> USE SizeAssumption
<1>1. TypeOK
  BY DEF Init, TypeOK, Nodes
<1>2. IsEquivalence(recorded)
  BY DEF Init, IsEquivalence
<1>3. /\ \A v \in Nodes : size[v] >= 1
      /\ SizesGrow
      /\ PointersRecorded
  BY DEF Init, SizesGrow, PointersRecorded
<1>4. SearchGrows /\ SearchMoved /\ FirstIsRoot /\ SearchRecorded
  BY DEF Init, SearchGrows, SearchMoved, FirstIsRoot, SearchRecorded
<1> QED
  BY <1>1, <1>2, <1>3, <1>4 DEF IInv

\* Compressing the argument of a finished search keeps what is said of the
\* pointers.
LEMMA CompressKeeps ==
    ASSUME IInv, Arrived,
           partition' = [partition EXCEPT ![node] = repr]
    PROVE  /\ partition' \in [Nodes -> Nodes]
           /\ \A v \in Nodes : partition'[v] # v => size[v] < size[partition'[v]]
           /\ \A v \in Nodes : <<v, partition'[v]>> \in recorded
           /\ \A v \in Nodes : partition[v] = v <=> partition'[v] = v
<1> USE DEF IInv, TypeOK, Arrived
<1>1. /\ node \in Nodes /\ repr \in Nodes
      /\ partition \in [Nodes -> Nodes]
      /\ \A v \in Nodes : partition'[v] = IF v = node THEN repr ELSE partition[v]
  OBVIOUS
<1>2. partition' \in [Nodes -> Nodes]
  BY <1>1
<1>3. \A v \in Nodes : partition'[v] # v => size[v] < size[partition'[v]]
  BY <1>1 DEF SizesGrow, SearchGrows
<1>4. \A v \in Nodes : <<v, partition'[v]>> \in recorded
  BY <1>1 DEF PointersRecorded, SearchRecorded
<1>5. \A v \in Nodes : partition[v] = v <=> partition'[v] = v
  <2> SUFFICES ASSUME NEW v \in Nodes PROVE partition[v] = v <=> partition'[v] = v
    OBVIOUS
  <2>1. CASE v # node
    BY <1>1, <2>1
  <2>2. CASE v = node /\ node = repr
    BY <1>1, <2>2
  <2>3. CASE v = node /\ node # repr
    BY <1>1, <2>3 DEF SearchMoved
  <2> QED
    BY <2>1, <2>2, <2>3
<1> QED
  BY <1>2, <1>3, <1>4, <1>5

\* Merging two different recorded roots when the second search has ended keeps
\* what is said of the pointers, and neither a node nor the root of a class
\* comes to represent a class it did not.
LEMMA MergeKeeps ==
    ASSUME IInv, Arrived,
           NEW child \in Nodes, NEW root \in Nodes, child # root,
           partition[child] = child, partition[root] = root,
           <<child, root>> \in recorded,
           repr \in {child, root},
           Merge(child, root)
    PROVE  /\ partition' \in [Nodes -> Nodes]
           /\ size' \in [Nodes -> Nat]
           /\ \A v \in Nodes : size'[v] >= 1
           /\ SizesGrow'
           /\ \A v \in Nodes : <<v, partition'[v]>> \in recorded
           /\ \A v \in Nodes : partition[v] # v => partition'[v] # v
<1> USE DEF IInv, TypeOK, Arrived
<1>1. /\ node \in Nodes /\ repr \in Nodes
      /\ partition \in [Nodes -> Nodes]
      /\ size \in [Nodes -> Nat]
      /\ \A v \in Nodes : size[v] >= 1
  OBVIOUS
<1>2. /\ partition' \in [Nodes -> Nodes]
      /\ \A v \in Nodes : partition'[v] = IF v = child THEN root
                                          ELSE IF v = node THEN repr
                                          ELSE partition[v]
  BY <1>1 DEF Merge
<1>3. /\ size' \in [Nodes -> Nat]
      /\ size'[root] = size[root] + size[child]
      /\ \A v \in Nodes : v # root => size'[v] = size[v]
  BY <1>1 DEF Merge
<1>4. \A v \in Nodes : size'[v] >= size[v] /\ size'[v] >= 1
  BY <1>1, <1>3
<1>5. node # repr => partition[node] # node /\ size[node] < size[repr]
  BY DEF SearchMoved, SearchGrows
<1>6. ASSUME NEW v \in Nodes, partition'[v] # v
      PROVE  size'[v] < size'[partition'[v]]
  <2>1. CASE v = child
    BY <1>1, <1>2, <1>3, <2>1
  <2>2. CASE v = node /\ v # child
    <3>1. partition'[v] = repr /\ node # repr
      BY <1>2, <1>6, <2>2
    <3>2. node # root
      BY <1>5, <3>1
    <3>3. size'[node] = size[node] /\ size'[repr] >= size[repr]
      BY <1>1, <1>3, <1>4, <3>2
    <3> QED
      BY <1>1, <1>3, <1>5, <2>2, <3>1, <3>3
  <2>3. CASE v # node /\ v # child
    <3>1. partition'[v] = partition[v] /\ partition[v] # v
      BY <1>2, <1>6, <2>3
    <3>2. v # root
      BY <3>1
    <3>3. size[v] < size[partition[v]] /\ partition[v] \in Nodes
      BY <1>1, <3>1 DEF SizesGrow
    <3> QED
      BY <1>1, <1>3, <1>4, <3>1, <3>2, <3>3
  <2> QED
    BY <2>1, <2>2, <2>3
<1>7. \A v \in Nodes : <<v, partition'[v]>> \in recorded
  BY <1>1, <1>2 DEF PointersRecorded, SearchRecorded
<1>8. \A v \in Nodes : partition[v] # v => partition'[v] # v
  BY <1>1, <1>2
<1> QED
  BY <1>2, <1>3, <1>4, <1>6, <1>7, <1>8 DEF SizesGrow

\* What returning from the second search does, and to which roots.
LEMMA SecondReturns ==
    ASSUME IInv, ReturnSecond
    PROVE  /\ partition' \in [Nodes -> Nodes]
           /\ size' \in [Nodes -> Nat]
           /\ \A v \in Nodes : size'[v] >= 1
           /\ SizesGrow'
           /\ \A v \in Nodes : <<v, partition'[v]>> \in recorded
           /\ \A v \in Nodes : partition[v] # v => partition'[v] # v
<1>1. /\ Arrived
      /\ pc = "second"
      /\ repr \in Nodes /\ repr1 \in Nodes /\ node \in Nodes
      /\ partition[repr] = repr /\ partition[repr1] = repr1
      /\ size \in [Nodes -> Nat]
      /\ \A v \in Nodes : size[v] >= 1
  BY DEF IInv, TypeOK, ReturnSecond, Arrived, FirstIsRoot
<1>2. <<repr1, repr>> \in recorded /\ <<repr, repr1>> \in recorded
  BY <1>1 DEF IInv, SearchRecorded, IsEquivalence
<1>3. CASE size[repr1] < size[repr] /\ Merge(repr, repr1)
  <2>1. repr # repr1
    BY <1>1, <1>3
  <2> QED
    BY <1>1, <1>2, <1>3, <2>1, MergeKeeps
<1>4. CASE repr > repr1 /\ Merge(repr1, repr)
  <2>1. repr # repr1
    BY <1>1, <1>4 DEF Nodes
  <2> QED
    BY <1>1, <1>2, <1>4, <2>1, MergeKeeps
<1>5. CASE partition' = [partition EXCEPT ![node] = repr] /\ UNCHANGED size
  BY <1>1, <1>5, CompressKeeps DEF SizesGrow
<1> QED
  BY <1>3, <1>4, <1>5 DEF ReturnSecond

-----------------------------------------------------------------------------
\* Every step keeps the invariant.
LEMMA NextIInv == IInv /\ [Next]_vars => IInv'
<1> SUFFICES ASSUME IInv, [Next]_vars PROVE IInv'
  OBVIOUS
<1>t. /\ partition \in [Nodes -> Nodes]
      /\ size \in [Nodes -> Nat]
      /\ \A v \in Nodes : size[v] >= 1
      /\ node \in Nodes /\ repr \in Nodes /\ repr1 \in Nodes /\ other \in Nodes
      /\ recorded \subseteq Nodes \X Nodes
      /\ IsEquivalence(recorded)
  BY DEF IInv, TypeOK
<1>1. CASE clear
  <2>1. TypeOK' /\ \A v \in Nodes : size'[v] >= 1
    BY <1>1, <1>t DEF clear, TypeOK
  <2>2. IsEquivalence(recorded)'
    BY <1>1 DEF clear, IsEquivalence
  <2>3. SizesGrow' /\ PointersRecorded'
    BY <1>1 DEF clear, SizesGrow, PointersRecorded
  <2>4. SearchGrows' /\ SearchMoved' /\ FirstIsRoot' /\ SearchRecorded'
    BY <1>1 DEF clear, SearchGrows, SearchMoved, FirstIsRoot, SearchRecorded
  <2> QED
    BY <2>1, <2>2, <2>3, <2>4 DEF IInv
<1>2. ASSUME NEW v \in Nodes, get_representative(v) PROVE IInv'
  <2> USE <1>2 DEF get_representative
  <2>1. TypeOK'
    BY <1>t DEF IInv, TypeOK
  <2>2. SizesGrow' /\ PointersRecorded' /\ IsEquivalence(recorded)'
    BY DEF IInv, SizesGrow, PointersRecorded, IsEquivalence
  <2>3. SearchGrows' /\ SearchMoved' /\ FirstIsRoot'
    BY DEF SearchGrows, SearchMoved, FirstIsRoot
  <2>4. SearchRecorded'
    BY <1>t DEF IsEquivalence, SearchRecorded
  <2> QED
    BY <1>t, <2>1, <2>2, <2>3, <2>4 DEF IInv
<1>3. ASSUME NEW v1 \in Nodes, NEW v2 \in Nodes, union_orbits(v1, v2) PROVE IInv'
  <2> USE <1>3 DEF union_orbits
  <2>1. /\ IsEquivalence(recorded')
        /\ recorded \subseteq recorded'
        /\ <<v1, v2>> \in recorded'
    BY <1>t, JoinedEquivalence
  <2>2. TypeOK'
    BY <1>t, <2>1 DEF IInv, TypeOK, IsEquivalence
  <2>3. SizesGrow' /\ PointersRecorded'
    BY <2>1 DEF IInv, SizesGrow, PointersRecorded
  <2>4. SearchGrows' /\ SearchMoved' /\ FirstIsRoot'
    BY DEF SearchGrows, SearchMoved, FirstIsRoot
  <2>5. SearchRecorded'
    BY <2>1 DEF IsEquivalence, SearchRecorded
  <2> QED
    BY <1>t, <2>1, <2>2, <2>3, <2>4, <2>5 DEF IInv, IsEquivalence
<1>4. CASE Walk
  <2> USE <1>4 DEF Walk
  <2>1. TypeOK'
    BY <1>t DEF IInv, TypeOK
  <2>2. size[repr] < size[partition[repr]] /\ <<repr, partition[repr]>> \in recorded
    BY <1>t DEF IInv, SizesGrow, PointersRecorded
  <2>3. SearchGrows'
    BY <1>t, <2>2 DEF IInv, SearchGrows
  <2>4. SearchMoved'
    BY <1>t DEF IInv, SearchMoved
  <2>5. SearchRecorded'
    BY <1>t, <2>2 DEF IInv, SearchRecorded, IsEquivalence
  <2>6. SizesGrow' /\ PointersRecorded' /\ FirstIsRoot' /\ IsEquivalence(recorded)'
    BY DEF IInv, SizesGrow, PointersRecorded, FirstIsRoot, IsEquivalence
  <2> QED
    BY <1>t, <2>1, <2>3, <2>4, <2>5, <2>6 DEF IInv
<1>5. CASE ReturnQuery
  <2> USE <1>5 DEF ReturnQuery
  <2>1. /\ partition' \in [Nodes -> Nodes]
        /\ \A v \in Nodes : partition'[v] # v => size[v] < size[partition'[v]]
        /\ \A v \in Nodes : <<v, partition'[v]>> \in recorded
    BY CompressKeeps
  <2>2. TypeOK'
    BY <1>t, <2>1 DEF TypeOK
  <2>3. SizesGrow' /\ PointersRecorded' /\ IsEquivalence(recorded)'
    BY <1>t, <2>1 DEF SizesGrow, PointersRecorded, IsEquivalence
  <2>4. SearchGrows' /\ SearchMoved' /\ FirstIsRoot' /\ SearchRecorded'
    BY DEF SearchGrows, SearchMoved, FirstIsRoot, SearchRecorded
  <2> QED
    BY <1>t, <2>2, <2>3, <2>4 DEF IInv
<1>6. CASE ReturnFirst
  <2> USE <1>6 DEF ReturnFirst
  <2>1. /\ partition' \in [Nodes -> Nodes]
        /\ \A v \in Nodes : partition'[v] # v => size[v] < size[partition'[v]]
        /\ \A v \in Nodes : <<v, partition'[v]>> \in recorded
        /\ \A v \in Nodes : partition[v] = v <=> partition'[v] = v
    BY CompressKeeps
  <2>2. TypeOK'
    BY <1>t, <2>1 DEF TypeOK
  <2>3. SizesGrow' /\ PointersRecorded' /\ IsEquivalence(recorded)'
    BY <1>t, <2>1 DEF SizesGrow, PointersRecorded, IsEquivalence
  <2>4. SearchGrows' /\ SearchMoved'
    BY DEF SearchGrows, SearchMoved
  <2>5. FirstIsRoot'
    BY <1>t, <2>1 DEF Arrived, FirstIsRoot
  <2>6. SearchRecorded'
    <3>1. <<node, repr>> \in recorded /\ <<node, other>> \in recorded
      BY DEF IInv, SearchRecorded
    <3>2. <<repr, other>> \in recorded /\ <<other, other>> \in recorded
      BY <1>t, <3>1 DEF IsEquivalence
    <3> QED
      BY <3>2 DEF SearchRecorded
  <2> QED
    BY <1>t, <2>2, <2>3, <2>4, <2>5, <2>6 DEF IInv
<1>7. CASE ReturnSecond
  <2>1. /\ partition' \in [Nodes -> Nodes]
        /\ size' \in [Nodes -> Nat]
        /\ \A v \in Nodes : size'[v] >= 1
        /\ SizesGrow'
        /\ \A v \in Nodes : <<v, partition'[v]>> \in recorded
    BY <1>7, SecondReturns
  <2>2. pc' = "idle" /\ UNCHANGED <<node, repr, repr1, other, recorded>>
    BY <1>7 DEF ReturnSecond
  <2>3. TypeOK'
    BY <1>t, <2>1, <2>2 DEF TypeOK
  <2>4. PointersRecorded' /\ IsEquivalence(recorded)'
    BY <1>t, <2>1, <2>2 DEF PointersRecorded, IsEquivalence
  <2>5. SearchGrows' /\ SearchMoved' /\ FirstIsRoot' /\ SearchRecorded'
    BY <2>2 DEF SearchGrows, SearchMoved, FirstIsRoot, SearchRecorded
  <2> QED
    BY <2>1, <2>3, <2>4, <2>5 DEF IInv
<1>8. CASE UNCHANGED vars
  BY <1>8 DEF vars, IInv, TypeOK, SizesGrow, SearchGrows, SearchMoved, FirstIsRoot,
              IsEquivalence, PointersRecorded, SearchRecorded
<1> QED
  BY <1>1, <1>2, <1>3, <1>4, <1>5, <1>6, <1>7, <1>8 DEF Next

\* A step that is no clear() makes no root of a node that was none.
LEMMA StepKeepsChildren ==
    ASSUME IInv, [Next]_vars
    PROVE  clear \/ \A v \in Nodes : partition[v] # v => partition'[v] # v
<1>1. CASE clear
  BY <1>1
<1>2. CASE ReturnQuery \/ ReturnFirst
  BY <1>2, CompressKeeps DEF ReturnQuery, ReturnFirst
<1>3. CASE ReturnSecond
  BY <1>3, SecondReturns
<1>4. CASE UNCHANGED partition
  BY <1>4
<1> QED
  BY <1>1, <1>2, <1>3, <1>4
     DEF Next, vars, get_representative, union_orbits, Walk

-----------------------------------------------------------------------------
\* Every reachable state satisfies the inductive invariant.
LEMMA Invariance == Spec => []IInv
<1>1. Init => IInv
  BY InitIInv
<1>2. IInv /\ [Next]_vars => IInv'
  BY NextIInv
<1> QED
  BY <1>1, <1>2, PTL DEF Spec

\* Node indices, pointers and sizes stay in range (the asserts of orbits.hpp:29,
\* 49-50), for every number of nodes.
THEOREM TypeCorrect == Spec => []TypeOK
<1>1. IInv => TypeOK
  BY DEF IInv
<1> QED
  BY <1>1, Invariance, PTL

\* Sizes grow along the pointers of orbits.hpp, so that they form no cycle and
\* the loop of get_representative cannot run forever, for every number of nodes.
THEOREM PointersAcyclic == Spec => []SizesGrow
<1>1. IInv => SizesGrow
  BY DEF IInv
<1> QED
  BY <1>1, Invariance, PTL

\* Every pointer of orbits.hpp, at every step of every call, joins nodes that
\* the recorded automorphisms relate, for every number of nodes.
THEOREM OnlyRecordedMerged == Spec => []PointersRecorded
<1>1. IInv => PointersRecorded
  BY DEF IInv
<1> QED
  BY <1>1, Invariance, PTL

\* No call but clear() makes a node of orbits.hpp a representative that has
\* ceased to be one, for every number of nodes.
THEOREM RootsOnlyVanish == Spec => NoReturningRoot
<1>1. IInv /\ [Next]_vars =>
         [clear \/ \A v \in Nodes : partition[v] # v => partition'[v] # v]_vars
  BY StepKeepsChildren
<1> QED
  BY <1>1, Invariance, PTL DEF Spec, NoReturningRoot

-----------------------------------------------------------------------------
(***************************************************************************)
(* Classes, their sizes, and the calls that the steps implement.           *)
(***************************************************************************)
RootMap == [v \in Nodes |-> Root(v)]

Class(r) == {v \in Nodes : Root(v) = r}

\* A search stays within the class of its argument.
SearchInClass == pc # "idle" => Root(repr) = Root(node)

\* The inductive invariant.
RInv == IInv /\ SearchInClass /\ RootSizesExact

-----------------------------------------------------------------------------
\* There are N nodes.
LEMMA NodesFinite == IsFiniteSet(Nodes) /\ Cardinality(Nodes) = N /\ N \in Nat
BY SizeAssumption, FS_Interval DEF Nodes

LEMMA RootByWalk == \A v : Root(v) = WalkEnd(N, partition, v)
BY DEF Root, WalkEnd

\* The same of the state after a step.
LEMMA NextRootByWalk == \A v : Root(v)' = WalkEnd(N, partition', v)
BY DEF Root, WalkEnd

\* The walks of get_representative end at roots.
LEMMA RootsFound == IInv => IsRootMap(Nodes, partition, RootMap)
<1> SUFFICES ASSUME IInv PROVE IsRootMap(Nodes, partition, RootMap)
  OBVIOUS
<1>1. /\ partition \in [Nodes -> Nodes]
      /\ size \in [Nodes -> Nat]
      /\ Grows(Nodes, partition, size)
  BY DEF IInv, TypeOK, SizesGrow, Grows
<1>2. N \in Nat /\ Cardinality(Nodes) <= N /\ IsFiniteSet(Nodes)
  BY NodesFinite
<1>3. IsRootMap(Nodes, partition, [v \in Nodes |-> WalkEnd(N, partition, v)])
  BY <1>1, <1>2, WalksMapToRoots
<1>4. RootMap = [v \in Nodes |-> WalkEnd(N, partition, v)]
  BY RootByWalk DEF RootMap
<1> QED BY <1>3, <1>4

\* What that says of a root and of a step along a pointer.
RootsAreRoots ==
    \A v \in Nodes : /\ Root(v) \in Nodes
                     /\ partition[Root(v)] = Root(v)
                     /\ partition[v] = v => Root(v) = v
                     /\ partition[v] # v => Root(v) = Root(partition[v])

LEMMA RootFacts == IInv => RootsAreRoots
<1> SUFFICES ASSUME IInv PROVE RootsAreRoots
  OBVIOUS
<1>1. IsRootMap(Nodes, partition, RootMap) /\ partition \in [Nodes -> Nodes]
  BY RootsFound DEF IInv, TypeOK
<1>2. \A v \in Nodes : RootMap[v] = Root(v) /\ partition[v] \in Nodes
  BY <1>1 DEF RootMap
<1> QED BY <1>1, <1>2 DEF IsRootMap, RootsAreRoots

\* Whatever maps the nodes to roots of the pointers after a step gives the
\* roots after the step.
LEMMA NextRoots ==
    ASSUME NEW s \in [Nodes -> Nat], partition' \in [Nodes -> Nodes],
           Grows(Nodes, partition', s), NEW f, IsRootMap(Nodes, partition', f)
    PROVE  \A v \in Nodes : Root(v)' = f[v]
<1>1. N \in Nat /\ Cardinality(Nodes) <= N /\ IsFiniteSet(Nodes)
  BY NodesFinite
<1>2. \A v \in Nodes : WalkEnd(N, partition', v) = f[v]
  BY <1>1, WalkEndIsRoot
<1> QED BY <1>2, NextRootByWalk

\* A finished search is at the root of its argument.
LEMMA ArrivedAtRoot ==
    ASSUME IInv, SearchInClass, Arrived
    PROVE  node \in Nodes /\ repr \in Nodes /\ Root(repr) = repr /\ Root(node) = repr
BY RootFacts DEF IInv, TypeOK, SearchInClass, Arrived, RootsAreRoots

\* Compressing the argument of a finished search changes no root.
LEMMA CompressKeepsRoots ==
    ASSUME IInv, SearchInClass, Arrived, partition' = [partition EXCEPT ![node] = repr]
    PROVE  \A v \in Nodes : Root(v)' = Root(v)
<1>1. /\ partition \in [Nodes -> Nodes] /\ size \in [Nodes -> Nat]
      /\ partition' \in [Nodes -> Nodes]
      /\ Grows(Nodes, partition', size)
  BY CompressKeeps DEF IInv, TypeOK, Grows
<1>2. \A v \in Nodes : partition'[v] = IF v = node THEN repr ELSE partition[v]
  BY <1>1
<1>3. \A v \in Nodes : RootMap[v] = Root(v)
  BY DEF RootMap
<1>4. IsRootMap(Nodes, partition', RootMap)
  <2>1. RootMap \in [Nodes -> Nodes]
    BY RootFacts DEF RootMap, RootsAreRoots
  <2>2. \A v \in Nodes : partition'[Root(v)] = Root(v)
    BY <1>2, RootFacts, ArrivedAtRoot DEF RootsAreRoots
  <2>3. \A v \in Nodes : Root(v) = IF partition'[v] = v THEN v ELSE Root(partition'[v])
    BY <1>1, <1>2, RootFacts, ArrivedAtRoot DEF RootsAreRoots
  <2> QED BY <1>1, <1>3, <2>1, <2>2, <2>3 DEF IsRootMap
<1> QED BY <1>1, <1>3, <1>4, NextRoots

\* Attaching one root to another gives the nodes of its class the other root.
LEMMA MergeMovesRoots ==
    ASSUME IInv, SearchInClass, Arrived,
           NEW child \in Nodes, NEW root \in Nodes, child # root,
           partition[child] = child, partition[root] = root,
           <<child, root>> \in recorded,
           repr \in {child, root},
           Merge(child, root)
    PROVE  \A v \in Nodes : Root(v)' = IF Root(v) = child THEN root ELSE Root(v)
<1>1. /\ partition \in [Nodes -> Nodes] /\ size' \in [Nodes -> Nat]
      /\ partition' \in [Nodes -> Nodes]
      /\ Grows(Nodes, partition', size')
  BY MergeKeeps DEF IInv, TypeOK, SizesGrow, Grows
<1>2. \A v \in Nodes : partition'[v] = IF v = child THEN root
                                       ELSE IF v = node THEN repr ELSE partition[v]
  BY <1>1 DEF Merge, IInv, TypeOK
<1> DEFINE f == [v \in Nodes |-> IF Root(v) = child THEN root ELSE Root(v)]
<1>3. /\ f \in [Nodes -> Nodes]
      /\ \A v \in Nodes : f[v] = IF Root(v) = child THEN root ELSE Root(v)
  BY RootFacts DEF RootsAreRoots
<1> HIDE DEF f
<1>4. Root(child) = child /\ Root(root) = root
  BY RootFacts DEF RootsAreRoots
<1>5. IsRootMap(Nodes, partition', f)
  <2>1. \A v \in Nodes : partition'[f[v]] = f[v]
    <3> TAKE v \in Nodes
    <3>1. f[v] \in Nodes /\ f[v] # child /\ partition[f[v]] = f[v] /\ Root(f[v]) = f[v]
      BY <1>3, <1>4, RootFacts DEF RootsAreRoots
    <3>2. f[v] = node => repr = node
      BY <3>1, ArrivedAtRoot
    <3> QED BY <1>2, <3>1, <3>2
  <2>2. \A v \in Nodes : f[v] = IF partition'[v] = v THEN v ELSE f[partition'[v]]
    <3> TAKE v \in Nodes
    <3>1. CASE v = child
      BY <1>2, <1>3, <1>4, <3>1
    <3>2. CASE v # child /\ v = node
      <4>1. partition'[v] = repr /\ Root(v) = repr /\ Root(repr) = repr /\ repr \in Nodes
        BY <1>2, <3>2, ArrivedAtRoot
      <4> QED BY <1>3, <1>4, <3>2, <4>1
    <3>3. CASE v # child /\ v # node
      <4>1. partition'[v] = partition[v] /\ partition[v] \in Nodes
        BY <1>1, <1>2, <3>3
      <4> QED BY <1>3, <3>3, <4>1, RootFacts DEF RootsAreRoots
    <3> QED BY <3>1, <3>2, <3>3
  <2> QED BY <1>3, <2>1, <2>2 DEF IsRootMap
<1>6. \A v \in Nodes : Root(v)' = f[v]
  BY <1>1, <1>5, NextRoots
<1> QED BY <1>3, <1>6

-----------------------------------------------------------------------------
(***************************************************************************)
(* What a call leaves of the roots.                                        *)
(***************************************************************************)

\* The sizes of two classes add up when they become one.
LEMMA MergeKeepsSizes ==
    ASSUME IInv, SearchInClass, RootSizesExact, Arrived,
           NEW child \in Nodes, NEW root \in Nodes, child # root,
           partition[child] = child, partition[root] = root,
           <<child, root>> \in recorded,
           repr \in {child, root},
           Merge(child, root)
    PROVE  RootSizesExact'
<1>1. /\ partition \in [Nodes -> Nodes] /\ size \in [Nodes -> Nat]
      /\ partition' \in [Nodes -> Nodes]
      /\ \A v \in Nodes : partition[v] # v => partition'[v] # v
  BY MergeKeeps DEF IInv, TypeOK
<1>2. /\ size'[root] = size[root] + size[child]
      /\ \A v \in Nodes : v # root => size'[v] = size[v]
      /\ partition'[child] = root
  BY <1>1 DEF Merge
<1>3. \A v \in Nodes : Root(v)' = IF Root(v) = child THEN root ELSE Root(v)
  BY MergeMovesRoots
<1>4. \A r \in Nodes : IsFiniteSet(Class(r)) /\ Cardinality(Class(r)) \in Nat
  <2>1. \A r \in Nodes : Class(r) \in SUBSET Nodes
    BY DEF Class
  <2> QED BY <2>1, NodesFinite, FS_Subset, FS_CardinalityType
<1>5. Cardinality(Class(root) \cup Class(child))
        = Cardinality(Class(root)) + Cardinality(Class(child))
  <2>1. Class(root) \cap Class(child) = {}
    BY DEF Class
  <2>2. Cardinality(Class(root) \cap Class(child)) = 0
    BY <2>1, FS_EmptySet
  <2>3. Cardinality(Class(root) \cup Class(child))
          = Cardinality(Class(root)) + Cardinality(Class(child))
              - Cardinality(Class(root) \cap Class(child))
    BY <1>4, FS_Union
  <2> QED BY <1>4, <2>2, <2>3
<1>6. ASSUME NEW r \in Nodes, partition'[r] = r
      PROVE  size'[r] = Cardinality({v \in Nodes : Root(v)' = r})
  <2>1. partition[r] = r /\ r # child
    BY <1>1, <1>2, <1>6
  <2>2. size[r] = Cardinality(Class(r)) /\ size[child] = Cardinality(Class(child))
    BY <2>1 DEF RootSizesExact, Class
  <2>3. CASE r = root
    <3>1. {v \in Nodes : Root(v)' = r} = Class(root) \cup Class(child)
      BY <1>3, <2>3 DEF Class
    <3> QED BY <1>2, <1>5, <2>2, <2>3, <3>1
  <2>4. CASE r # root
    <3>1. {v \in Nodes : Root(v)' = r} = Class(r)
      BY <1>3, <2>1, <2>4 DEF Class
    <3> QED BY <1>2, <2>2, <2>4, <3>1
  <2> QED BY <2>3, <2>4
<1> QED BY <1>6 DEF RootSizesExact

\* Steps that change neither roots nor sizes keep the sizes exact.
LEMMA SameRootsKeepSizes ==
    ASSUME RootSizesExact, UNCHANGED size,
           \A v \in Nodes : Root(v)' = Root(v),
           \A v \in Nodes : partition'[v] = v => partition[v] = v
    PROVE  RootSizesExact'
<1>1. \A r \in Nodes : {v \in Nodes : Root(v)' = r} = {v \in Nodes : Root(v) = r}
  OBVIOUS
<1> QED BY <1>1 DEF RootSizesExact

LEMMA CompressKeepsSizes ==
    ASSUME RInv, Arrived, partition' = [partition EXCEPT ![node] = repr],
           UNCHANGED size
    PROVE  RootSizesExact'
BY CompressKeeps, CompressKeepsRoots, SameRootsKeepSizes DEF RInv

\* The three ends of union_orbits: the larger class goes below the smaller one,
\* equal ones below the larger node, or nothing happens.
SecondFacts ==
    /\ Arrived /\ pc = "second"
    /\ repr \in Nodes /\ repr1 \in Nodes /\ node \in Nodes
    /\ partition[repr] = repr /\ partition[repr1] = repr1
    /\ <<repr1, repr>> \in recorded /\ <<repr, repr1>> \in recorded
    /\ \A v \in Nodes : size[v] \in Nat

LEMMA SecondFound == IInv /\ ReturnSecond => SecondFacts
BY DEF IInv, TypeOK, ReturnSecond, Arrived, FirstIsRoot, SearchRecorded, IsEquivalence,
       SecondFacts

LEMMA SecondKeepsSizes == RInv /\ ReturnSecond => RootSizesExact'
<1> SUFFICES ASSUME RInv, ReturnSecond PROVE RootSizesExact'
  OBVIOUS
<1>1. IInv /\ SearchInClass /\ RootSizesExact /\ SecondFacts
  BY SecondFound DEF RInv
<1> USE DEF SecondFacts
<1>2. CASE size[repr1] < size[repr] /\ Merge(repr, repr1)
  <2>1. repr # repr1
    BY <1>1, <1>2
  <2> QED BY <1>1, <1>2, <2>1, MergeKeepsSizes
<1>3. CASE repr > repr1 /\ Merge(repr1, repr)
  <2>1. repr # repr1
    BY <1>1, <1>3 DEF Nodes
  <2> QED BY <1>1, <1>3, <2>1, MergeKeepsSizes
<1>4. CASE partition' = [partition EXCEPT ![node] = repr] /\ UNCHANGED size
  BY <1>1, <1>4, CompressKeepsSizes
<1> QED BY <1>2, <1>3, <1>4 DEF ReturnSecond

-----------------------------------------------------------------------------
LEMMA InitRInv == Init => RInv
<1> SUFFICES ASSUME Init PROVE RInv
  OBVIOUS
<1>1. IInv
  BY InitIInv
<1>2. \A v \in Nodes : Root(v) = v
  BY <1>1, RootFacts DEF Init, RootsAreRoots
<1>3. SearchInClass
  BY DEF Init, SearchInClass
<1>4. RootSizesExact
  <2> SUFFICES ASSUME NEW r \in Nodes
               PROVE  size[r] = Cardinality({v \in Nodes : Root(v) = r})
    BY DEF RootSizesExact
  <2>1. {v \in Nodes : Root(v) = r} = {r} /\ size[r] = 1
    BY <1>2 DEF Init
  <2> QED BY <2>1, FS_Singleton
<1> QED BY <1>1, <1>3, <1>4 DEF RInv

LEMMA NextRInv == RInv /\ [Next]_vars => RInv'
<1> SUFFICES ASSUME RInv, [Next]_vars PROVE RInv'
  OBVIOUS
<1>0. IInv /\ IInv' /\ SearchInClass /\ RootSizesExact
  BY NextIInv DEF RInv
<1>t. /\ partition \in [Nodes -> Nodes]
      /\ node \in Nodes /\ repr \in Nodes /\ repr1 \in Nodes /\ other \in Nodes
  BY <1>0 DEF IInv, TypeOK
<1>1. CASE clear
  <2>1. \A v \in Nodes : partition'[v] = v /\ size'[v] = 1
    BY <1>1 DEF clear
  <2>2. \A v \in Nodes : Root(v)' = v
    <3>1. IInv' => RootsAreRoots'
      BY RootFacts, PTL
    <3> QED BY <1>0, <2>1, <3>1 DEF RootsAreRoots
  <2>3. RootSizesExact'
    <3> SUFFICES ASSUME NEW r \in Nodes
                 PROVE  size'[r] = Cardinality({v \in Nodes : Root(v)' = r})
      BY DEF RootSizesExact
    <3>1. {v \in Nodes : Root(v)' = r} = {r}
      BY <2>2
    <3> QED BY <2>1, <3>1, FS_Singleton
  <2>4. SearchInClass'
    BY <1>1 DEF clear, SearchInClass
  <2> QED BY <1>0, <2>3, <2>4 DEF RInv
<1>2. CASE UNCHANGED <<partition, size>>
  <2>1. \A v : Root(v)' = Root(v)
    BY <1>2 DEF Root
  <2>2. RootSizesExact'
    BY <1>0, <1>2, <2>1, SameRootsKeepSizes
  <2>3. SearchInClass'
    <3>1. CASE \E v \in Nodes : get_representative(v)
      BY <3>1 DEF get_representative, SearchInClass
    <3>2. CASE \E v1, v2 \in Nodes : union_orbits(v1, v2)
      BY <3>2 DEF union_orbits, SearchInClass
    <3>3. CASE Walk
      <4>1. Root(partition[repr]) = Root(repr)
        BY <1>0, <1>t, <3>3, RootFacts DEF Walk, RootsAreRoots
      <4> QED BY <1>0, <2>1, <3>3, <4>1 DEF Walk, SearchInClass
    <3>4. CASE ReturnQuery \/ ReturnSecond \/ clear
      BY <3>4 DEF ReturnQuery, ReturnSecond, clear, SearchInClass
    <3>5. CASE ReturnFirst
      BY <3>5 DEF ReturnFirst, SearchInClass
    <3>6. CASE UNCHANGED vars
      BY <1>0, <2>1, <3>6 DEF vars, SearchInClass
    <3> QED BY <3>1, <3>2, <3>3, <3>4, <3>5, <3>6 DEF Next
  <2> QED BY <1>0, <2>2, <2>3 DEF RInv
<1>3. CASE ReturnQuery
  <2>1. RootSizesExact'
    BY <1>3, CompressKeepsSizes DEF ReturnQuery
  <2>2. SearchInClass'
    BY <1>3 DEF ReturnQuery, SearchInClass
  <2> QED BY <1>0, <2>1, <2>2 DEF RInv
<1>4. CASE ReturnFirst
  <2>1. RootSizesExact'
    BY <1>4, CompressKeepsSizes DEF ReturnFirst
  <2>2. SearchInClass'
    BY <1>4 DEF ReturnFirst, SearchInClass
  <2> QED BY <1>0, <2>1, <2>2 DEF RInv
<1>5. CASE ReturnSecond
  <2>1. RootSizesExact'
    BY <1>5, SecondKeepsSizes
  <2>2. SearchInClass'
    BY <1>5 DEF ReturnSecond, SearchInClass
  <2> QED BY <1>0, <2>1, <2>2 DEF RInv
<1> QED BY <1>1, <1>2, <1>3, <1>4, <1>5
        DEF Next, vars, get_representative, union_orbits, Walk

LEMMA RInvariance == Spec => []RInv
<1>1. Init => RInv
  BY InitRInv
<1>2. RInv /\ [Next]_vars => RInv'
  BY NextRInv
<1> QED BY <1>1, <1>2, PTL DEF Spec

(***************************************************************************)
(* The size of orbits.hpp at a root is the number of nodes in its class,   *)
(* whatever was merged, dropped or compressed, for every number of nodes.  *)
(***************************************************************************)
THEOREM SizesExact == Spec => []RootSizesExact
<1>1. RInv => RootSizesExact
  BY DEF RInv
<1> QED BY <1>1, RInvariance, PTL

-----------------------------------------------------------------------------
(***************************************************************************)
(* The steps implement the calls.                                          *)
(***************************************************************************)
LEMMA RepresentativeIsRoot ==
    \A v : Calls!Representative([partition |-> partition, size |-> size], v) = Root(v)
BY DEF Calls!Representative, Root

LEMMA CallsNodes == Calls!Nodes = Nodes
BY DEF Calls!Nodes, Nodes

\* A finished search has compressed its argument, as the whole call does.
LEMMA ReturnCompresses ==
    ASSUME RInv, Arrived, partition' = [partition EXCEPT ![node] = repr],
           UNCHANGED size
    PROVE  Calls!get_representative(node)
<1>1. Root(node) = repr
  BY ArrivedAtRoot DEF RInv
<1>2. Calls!Compress([partition |-> partition, size |-> size], node)
        = [partition |-> partition', size |-> size']
  BY <1>1, RepresentativeIsRoot DEF Calls!Compress
<1> QED BY <1>2 DEF Calls!get_representative

\* Attaching one class to another, on pointers and sizes.
LEMMA AttachedParts ==
    ASSUME NEW p, NEW s, NEW child, NEW root
    PROVE  Calls!Attach([partition |-> p, size |-> s], child, root)
             = [partition |-> [p EXCEPT ![child] = root],
                size |-> [s EXCEPT ![root] = @ + s[child]]]
<1> DEFINE o == [partition |-> p, size |-> s]
           q == [p EXCEPT ![child] = root]
           t == [s EXCEPT ![root] = s[root] + s[child]]
<1>1. o.partition = p /\ o.size = s
  OBVIOUS
<1>2. Calls!Attach(o, child, root) = [o EXCEPT !.partition = q, !.size = t]
  BY <1>1 DEF Calls!Attach
<1> HIDE DEF q, t
<1>3. [o EXCEPT !.partition = q, !.size = t] = [partition |-> q, size |-> t]
  <2>1. [o EXCEPT !.partition = q] = [partition |-> q, size |-> s]
    OBVIOUS
  <2>2. [[partition |-> q, size |-> s] EXCEPT !.size = t]
          = [partition |-> q, size |-> t]
    OBVIOUS
  <2> QED BY <2>1, <2>2
<1> QED BY <1>2, <1>3 DEF q, t

\* The last step of a union is the union of the two classes found.
LEMMA SecondIsUnion == RInv /\ ReturnSecond => Calls!union_orbits(repr1, node)
<1> SUFFICES ASSUME RInv, ReturnSecond PROVE Calls!union_orbits(repr1, node)
  OBVIOUS
<1> DEFINE o == [partition |-> partition, size |-> size]
           found == Calls!Compress(Calls!Compress(o, repr1), node)
<1>1. IInv /\ SearchInClass /\ RootSizesExact /\ SecondFacts
  BY SecondFound DEF RInv
<1>2. partition \in [Nodes -> Nodes] /\ size \in [Nodes -> Nat]
  BY <1>1 DEF IInv, TypeOK
<1>3. Root(repr1) = repr1 /\ Root(node) = repr
  BY <1>1, RootFacts, ArrivedAtRoot DEF SecondFacts, RootsAreRoots
<1>4. /\ Calls!Representative(o, repr1) = repr1
      /\ Calls!Representative(o, node) = repr
  BY <1>3, RepresentativeIsRoot
<1>5. Calls!Compress(o, repr1) = o
  <2>1. [partition EXCEPT ![repr1] = repr1] = partition
    BY <1>1, <1>2 DEF SecondFacts
  <2> QED BY <1>4, <2>1 DEF Calls!Compress
<1>6. found = [partition |-> [partition EXCEPT ![node] = repr], size |-> size]
  <2>1. found = Calls!Compress(o, node)
    BY <1>5
  <2>2. Calls!Compress(o, node)
          = [partition |-> [partition EXCEPT ![node] = repr], size |-> size]
    BY <1>4 DEF Calls!Compress
  <2> QED BY <2>1, <2>2
<1> HIDE DEF found
<1>7. Calls!UnionOrbits(o, repr1, node)
        = CASE size[repr1] < size[repr] -> Calls!Attach(found, repr, repr1)
            [] size[repr1] >= size[repr] /\ repr > repr1
                  -> Calls!Attach(found, repr1, repr)
            [] OTHER -> found
  BY <1>4 DEF Calls!UnionOrbits, found
<1>8. \A child, root \in Nodes :
          Merge(child, root) => Calls!Attach(found, child, root)
                                   = [partition |-> partition', size |-> size']
  <2> SUFFICES ASSUME NEW child \in Nodes, NEW root \in Nodes, Merge(child, root)
               PROVE  Calls!Attach(found, child, root)
                         = [partition |-> partition', size |-> size']
    OBVIOUS
  <2> DEFINE p == [partition EXCEPT ![node] = repr]
  <2>1. partition' = [p EXCEPT ![child] = root]
    BY DEF Merge
  <2> HIDE DEF p
  <2>2. Calls!Attach([partition |-> p, size |-> size], child, root)
          = [partition |-> [p EXCEPT ![child] = root],
             size |-> [size EXCEPT ![root] = @ + size[child]]]
    BY AttachedParts
  <2>3. found = [partition |-> p, size |-> size]
    BY <1>6 DEF p
  <2> QED BY <2>1, <2>2, <2>3 DEF Merge
<1>9. size[repr] \in Nat /\ size[repr1] \in Nat /\ repr \in Nat /\ repr1 \in Nat
  BY <1>1, SizeAssumption DEF SecondFacts, Nodes
<1>10. CASE size[repr1] < size[repr] /\ Merge(repr, repr1)
  BY <1>1, <1>7, <1>8, <1>10 DEF SecondFacts, Calls!union_orbits
<1>11. CASE size[repr1] >= size[repr] /\ repr > repr1 /\ Merge(repr1, repr)
  BY <1>1, <1>7, <1>8, <1>9, <1>11 DEF SecondFacts, Calls!union_orbits
<1>12. CASE /\ size[repr1] >= size[repr] /\ repr <= repr1
            /\ partition' = [partition EXCEPT ![node] = repr]
            /\ UNCHANGED size
  BY <1>6, <1>7, <1>9, <1>12 DEF Calls!union_orbits
<1> QED BY <1>10, <1>11, <1>12 DEF ReturnSecond

LEMMA InitIsCleared == Init => Calls!Init
BY CallsNodes DEF Init, Calls!Init, Calls!ClearOrbits

\* Every step is a call or leaves partition and sizes alone.
LEMMA StepIsCall ==
    ASSUME RInv, [Next]_vars
    PROVE  Calls!Next \/ UNCHANGED <<partition, size>>
<1>1. node \in Calls!Nodes /\ repr1 \in Calls!Nodes
  BY CallsNodes DEF RInv, IInv, TypeOK
<1>2. CASE clear
  BY <1>2, CallsNodes DEF clear, Calls!Next, Calls!clear, Calls!ClearOrbits
<1>3. CASE ReturnQuery \/ ReturnFirst
  BY <1>1, <1>3, ReturnCompresses DEF ReturnQuery, ReturnFirst, Calls!Next
<1>4. CASE ReturnSecond
  BY <1>1, <1>4, SecondIsUnion DEF Calls!Next
<1> QED BY <1>2, <1>3, <1>4 DEF Next, vars, get_representative, union_orbits, Walk

(***************************************************************************)
(* The steps of orbits.hpp implement its calls taken as atomic: searches   *)
(* that compress on their way back and a union between two searches leave  *)
(* nothing behind that the calls would not, for every number of nodes.     *)
(***************************************************************************)
THEOREM StepsImplementCalls == Spec => ImplementsCalls
<1>1. Init => Calls!Init
  BY InitIsCleared
<1>2. RInv /\ [Next]_vars
        => [Calls!Next]_([partition |-> partition, size |-> size])
  BY StepIsCall
<1> QED BY <1>1, <1>2, RInvariance, PTL DEF Spec, ImplementsCalls, Calls!Spec

(***************************************************************************)
(* Each return of orbits.hpp is the call of its own arguments: the root    *)
(* that the first search of a union has found is still the right one when  *)
(* the second has compressed pointers (orbits.hpp:47-60).                  *)
(***************************************************************************)
THEOREM ReturnsAreTheirCalls == Spec => ReturnsItsCall
<1>1. RInv /\ [Next]_vars =>
         [/\ ReturnQuery \/ ReturnFirst => Calls!get_representative(node)
          /\ ReturnSecond => Calls!union_orbits(repr1, node)]_vars
  BY ReturnCompresses, SecondIsUnion DEF ReturnQuery, ReturnFirst
<1> QED BY <1>1, RInvariance, PTL DEF Spec, ReturnsItsCall
=============================================================================
