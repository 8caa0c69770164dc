-------------------------- MODULE AdjMatrixProofs --------------------------
(***************************************************************************)
(* For every number of nodes, word size and row capacity: the matrix of    *)
(* adj_matrix.hpp is a simple graph after any calls, and the calls         *)
(* implement those on a set of edges.                                      *)
(***************************************************************************)
EXTENDS AdjMatrixApi, SequenceTheorems, InductionLemmas

\* The number of bits can be computed in a node_t.  (That a power of two is a
\* natural number is said because the provers have no exponentiation.)
BufferFits == 2^NodeBits \in Nat /\ Capacity * Capacity < 2^NodeBits

\* Rows and columns, the ones behind the nodes included.
Slots == 0 .. Capacity-1

-----------------------------------------------------------------------------
(***************************************************************************)
(* Addresses: each bit of the matrix has a place of its own.               *)
(***************************************************************************)
LEMMA RowsAreWhole ==
    /\ WordsPerRow \in Nat \ {0}
    /\ Capacity = WordsPerRow * Word
<1>1. Word \in Nat \ {0} /\ Capacity \in Nat \ {0} /\ Capacity % Word = 0
  BY StorageAssumption
<1>2. Capacity = Word * (Capacity \div Word) + (Capacity % Word)
      /\ Capacity \div Word \in Nat
  BY <1>1
<1>3. Capacity \div Word # 0
  BY <1>1, <1>2
<1> QED BY <1>1, <1>2, <1>3 DEF WordsPerRow

\* Word and bit of a column.
LEMMA ColumnPlace ==
    ASSUME NEW v \in Slots
    PROVE  /\ v \div Word \in 0 .. WordsPerRow-1
           /\ Bit(v) \in 0 .. Word-1
           /\ v = (v \div Word) * Word + Bit(v)
<1>1. Word \in Nat \ {0} /\ v \in Nat /\ v < Capacity
  BY StorageAssumption DEF Slots
<1> DEFINE d == v \div Word
           r == v % Word
<1>2. d \in Nat /\ r \in 0 .. Word-1 /\ v = d * Word + r
  BY <1>1
<1>3. d < WordsPerRow
  <2> HIDE DEF d, r
  <2>1. SUFFICES ASSUME WordsPerRow <= d PROVE FALSE
    BY <1>2, RowsAreWhole
  <2>2. WordsPerRow * Word <= d * Word
    BY <1>1, <1>2, <2>1, RowsAreWhole, ProductGrows
  <2>3. d * Word \in Int
    BY <1>1, <1>2
  <2> QED BY <1>1, <1>2, <2>2, <2>3, RowsAreWhole
<1> QED BY <1>2, <1>3, RowsAreWhole DEF Bit

LEMMA PlaceOfColumn ==
    ASSUME NEW i \in 0 .. WordsPerRow-1, NEW b \in 0 .. Word-1
    PROVE  /\ i * Word + b \in Slots
           /\ (i * Word + b) \div Word = i
           /\ Bit(i * Word + b) = b
<1>1. /\ Word \in Nat \ {0} /\ WordsPerRow \in Nat \ {0} /\ i \in Nat /\ b \in Nat
      /\ Capacity = WordsPerRow * Word
  BY StorageAssumption, RowsAreWhole
<1> DEFINE v == i * Word + b
<1>2. v \in Nat
  BY <1>1
<1>3. v < Capacity
  <2>1. i + 1 \in Nat /\ i + 1 <= WordsPerRow
    BY <1>1
  <2>2. (i + 1) * Word <= WordsPerRow * Word
    BY <1>1, <2>1, ProductGrows
  <2>3. (i + 1) * Word = i * Word + Word /\ i * Word \in Int
    BY <1>1
  <2> QED BY <1>1, <2>2, <2>3
<1>4. v \in Slots
  BY <1>2, <1>3, StorageAssumption DEF Slots
<1>5. v \div Word \in Nat /\ Bit(v) \in 0 .. Word-1 /\ v = (v \div Word) * Word + Bit(v)
  <2> HIDE DEF v
  <2>1. /\ v \div Word \in 0 .. WordsPerRow-1 /\ Bit(v) \in 0 .. Word-1
        /\ v = (v \div Word) * Word + Bit(v)
    BY <1>4, ColumnPlace
  <2>2. v \div Word \in Nat
    BY <1>1, <2>1
  <2> QED BY <2>1, <2>2
<1>6. v \div Word = i /\ Bit(v) = b
  <2> DEFINE d == v \div Word
             r == Bit(v)
  <2>1. d * Word + r = i * Word + b
    BY <1>5
  <2> HIDE DEF d, r
  <2>2. d \in Nat /\ r \in 0 .. Word-1
    BY <1>5 DEF d, r
  <2>3. d = i /\ r = b
    BY <1>1, <2>1, <2>2, PlaceUnique
  <2> QED BY <2>3 DEF d, r
<1> QED BY <1>4, <1>6

LEMMA IndicesWhole ==
    ASSUME BufferFits
    PROVE  Indices = 0 .. Capacity * WordsPerRow - 1
<1> DEFINE m == 2^NodeBits
           c == Capacity * Capacity
<1>1. Capacity \in Nat \ {0} /\ Word \in Nat \ {0}
  BY StorageAssumption
<1>2. m \in Nat /\ c \in Nat /\ c < m
  BY <1>1 DEF BufferFits
<1>3. c % m = c
  <2> HIDE DEF m, c
  <2> QED BY <1>2
<1>4. c \div Word = Capacity * WordsPerRow
  <2> DEFINE k == Capacity * WordsPerRow
  <2>1. k \in Nat /\ c = k * Word
    BY <1>1, RowsAreWhole
  <2> HIDE DEF k, c
  <2>2. (k * Word) \div Word = k
    BY <1>1, <2>1
  <2> QED BY <2>1, <2>2 DEF k
<1> QED BY <1>3, <1>4 DEF Indices

\* Words of a row.
LEMMA WordsInBuffer ==
    ASSUME BufferFits, NEW u \in Slots, NEW i \in 0 .. WordsPerRow-1
    PROVE  u * WordsPerRow + i \in Indices
<1>1. WordsPerRow \in Nat /\ u \in Nat /\ u + 1 <= Capacity /\ i \in Nat /\ Capacity \in Nat
  BY RowsAreWhole, StorageAssumption DEF Slots
<1>2. (u + 1) * WordsPerRow <= Capacity * WordsPerRow
  BY <1>1, ProductGrows
<1>3. (u + 1) * WordsPerRow = u * WordsPerRow + WordsPerRow /\ u * WordsPerRow \in Nat
      /\ Capacity * WordsPerRow \in Nat
  BY <1>1
<1>4. u * WordsPerRow + i \in 0 .. Capacity * WordsPerRow - 1
  BY <1>1, <1>2, <1>3
<1> QED BY <1>4, IndicesWhole

LEMMA OffsetInBuffer ==
    ASSUME BufferFits, NEW u \in Slots, NEW v \in Slots
    PROVE  Offset(u, v) \in Indices
BY ColumnPlace, WordsInBuffer DEF Offset

LEMMA OffsetUnique ==
    ASSUME NEW u \in Slots, NEW v \in Slots, NEW a \in Slots, NEW b \in Slots,
           Offset(u, v) = Offset(a, b), Bit(v) = Bit(b)
    PROVE  u = a /\ v = b
<1> DEFINE i == v \div Word
           j == b \div Word
<1>1. /\ i \in 0 .. WordsPerRow-1 /\ v = i * Word + Bit(v)
      /\ j \in 0 .. WordsPerRow-1 /\ b = j * Word + Bit(b)
  BY ColumnPlace
<1>2. u * WordsPerRow + i = a * WordsPerRow + j
  BY DEF Offset
<1>3. u \in Nat /\ a \in Nat /\ WordsPerRow \in Nat \ {0}
  BY RowsAreWhole DEF Slots
<1> HIDE DEF i, j
<1>4. u = a /\ i = j
  BY <1>1, <1>2, <1>3, PlaceUnique
<1> QED BY <1>1, <1>4

-----------------------------------------------------------------------------
(***************************************************************************)
(* One bit is set or cleared, the others keep their values.                *)
(***************************************************************************)
Buffers == [Indices -> SUBSET (0 .. Word-1)]

LEMMA SetsOneBit ==
    ASSUME BufferFits, NEW buf \in Buffers, NEW u \in Slots, NEW v \in Slots
    PROVE  /\ set_bit(buf, u, v) \in Buffers
           /\ \A a, b \in Slots : get_bit(set_bit(buf, u, v), a, b)
                                    <=> get_bit(buf, a, b) \/ (a = u /\ b = v)
<1> DEFINE o == Offset(u, v)
           new == set_bit(buf, u, v)
<1>1. o \in Indices /\ Bit(v) \in 0 .. Word-1
  BY OffsetInBuffer, ColumnPlace
<1>2. new = [buf EXCEPT ![o] = buf[o] \cup {Bit(v)}]
  BY DEF set_bit
<1> HIDE DEF new
<1>3. /\ new \in Buffers
      /\ new[o] = buf[o] \cup {Bit(v)}
      /\ \A i \in Indices : i # o => new[i] = buf[i]
  <2> HIDE DEF o
  <2> QED BY <1>1, <1>2 DEF Buffers
<1>4. ASSUME NEW a \in Slots, NEW b \in Slots
      PROVE  get_bit(new, a, b) <=> get_bit(buf, a, b) \/ (a = u /\ b = v)
  <2>1. Offset(a, b) \in Indices
    BY OffsetInBuffer
  <2>2. Offset(a, b) = o /\ Bit(b) = Bit(v) => a = u /\ b = v
    BY OffsetUnique
  <2> QED BY <1>3, <2>1, <2>2 DEF get_bit
<1> QED BY <1>3, <1>4 DEF new

LEMMA UnsetsOneBit ==
    ASSUME BufferFits, NEW buf \in Buffers, NEW u \in Slots, NEW v \in Slots
    PROVE  /\ unset_bit(buf, u, v) \in Buffers
           /\ \A a, b \in Slots : get_bit(unset_bit(buf, u, v), a, b)
                                    <=> get_bit(buf, a, b) /\ ~(a = u /\ b = v)
<1> DEFINE o == Offset(u, v)
           new == unset_bit(buf, u, v)
<1>1. o \in Indices
  BY OffsetInBuffer
<1>2. new = [buf EXCEPT ![o] = buf[o] \ {Bit(v)}]
  BY DEF unset_bit
<1> HIDE DEF new
<1>3. /\ new \in Buffers
      /\ new[o] = buf[o] \ {Bit(v)}
      /\ \A i \in Indices : i # o => new[i] = buf[i]
  <2> HIDE DEF o
  <2> QED BY <1>1, <1>2 DEF Buffers
<1>4. ASSUME NEW a \in Slots, NEW b \in Slots
      PROVE  get_bit(new, a, b) <=> get_bit(buf, a, b) /\ ~(a = u /\ b = v)
  <2>1. Offset(a, b) \in Indices
    BY OffsetInBuffer
  <2>2. Offset(a, b) = o /\ Bit(b) = Bit(v) => a = u /\ b = v
    BY OffsetUnique
  <2> QED BY <1>3, <2>1, <2>2 DEF get_bit
<1> QED BY <1>3, <1>4 DEF new

-----------------------------------------------------------------------------
(***************************************************************************)
(* Buffers that hold a simple graph, and its edges.                        *)
(***************************************************************************)
HoldsGraph(buf) ==
    /\ buf \in Buffers
    /\ \A u, v \in Slots : get_bit(buf, u, v) =>
          u \in Nodes /\ v \in Nodes /\ u # v /\ get_bit(buf, v, u)

EdgesOf(buf) == {{e[1], e[2]} : e \in {d \in Nodes \X Nodes : has_edge(buf, d[1], d[2])}}

LEMMA NodesAreSlots == Nodes \subseteq Slots /\ N \in Nat /\ Capacity \in Nat
BY StorageAssumption DEF Nodes, Slots

LEMMA EdgesByBits ==
    ASSUME NEW buf, HoldsGraph(buf), NEW e
    PROVE  e \in EdgesOf(buf) <=> \E u, v \in Nodes : e = {u, v} /\ get_bit(buf, u, v)
<1> DEFINE D == {d \in Nodes \X Nodes : has_edge(buf, d[1], d[2])}
<1>1. ASSUME e \in EdgesOf(buf) PROVE \E u, v \in Nodes : e = {u, v} /\ get_bit(buf, u, v)
  <2>1. PICK d \in D : e = {d[1], d[2]}
    BY <1>1 DEF EdgesOf
  <2>2. d[1] \in Nodes /\ d[2] \in Nodes /\ get_bit(buf, d[1], d[2])
    BY <2>1 DEF has_edge
  <2> QED BY <2>1, <2>2
<1>2. ASSUME NEW u \in Nodes, NEW v \in Nodes, e = {u, v}, get_bit(buf, u, v)
      PROVE  e \in EdgesOf(buf)
  <2> DEFINE d == <<u, v>>
  <2>1. d \in Nodes \X Nodes /\ d[1] = u /\ d[2] = v
    OBVIOUS
  <2> HIDE DEF d
  <2>2. d \in D
    BY <1>2, <2>1 DEF has_edge
  <2>3. e = {d[1], d[2]}
    BY <1>2, <2>1
  <2> QED BY <2>2, <2>3 DEF EdgesOf
<1> QED BY <1>1, <1>2

LEMMA BitIsEdge ==
    ASSUME NEW buf, HoldsGraph(buf), NEW u \in Nodes, NEW v \in Nodes
    PROVE  {u, v} \in EdgesOf(buf) <=> get_bit(buf, u, v)
<1>1. ASSUME {u, v} \in EdgesOf(buf) PROVE get_bit(buf, u, v)
  <2>1. PICK a \in Nodes, b \in Nodes : {u, v} = {a, b} /\ get_bit(buf, a, b)
    BY <1>1, EdgesByBits
  <2>2. (u = a /\ v = b) \/ (u = b /\ v = a)
    BY <2>1
  <2>3. get_bit(buf, b, a)
    BY <2>1, NodesAreSlots DEF HoldsGraph
  <2> QED BY <2>1, <2>2, <2>3
<1> QED BY <1>1, EdgesByBits

LEMMA AddsOneEdge ==
    ASSUME BufferFits, NEW buf, HoldsGraph(buf), NEW u \in Nodes, NEW v \in Nodes, u # v
    PROVE  /\ HoldsGraph(AddEdge(buf, u, v))
           /\ EdgesOf(AddEdge(buf, u, v)) = EdgesOf(buf) \cup {{u, v}}
<1> DEFINE half == set_bit(buf, u, v)
           new == set_bit(half, v, u)
<1>1. u \in Slots /\ v \in Slots /\ buf \in Buffers
  BY NodesAreSlots DEF HoldsGraph
<1>2. /\ half \in Buffers
      /\ \A a, b \in Slots : get_bit(half, a, b) <=> get_bit(buf, a, b) \/ (a = u /\ b = v)
  BY <1>1, SetsOneBit
<1> HIDE DEF half
<1>3. /\ new \in Buffers
      /\ \A a, b \in Slots : get_bit(new, a, b) <=> get_bit(half, a, b) \/ (a = v /\ b = u)
  BY <1>1, <1>2, SetsOneBit
<1>4. AddEdge(buf, u, v) = new
  BY DEF AddEdge, half
<1> HIDE DEF new
<1>5. \A a, b \in Slots : get_bit(new, a, b) <=>
          get_bit(buf, a, b) \/ (a = u /\ b = v) \/ (a = v /\ b = u)
  BY <1>2, <1>3
<1>6. HoldsGraph(new)
  BY <1>3, <1>5 DEF HoldsGraph
<1>7. ASSUME NEW e PROVE e \in EdgesOf(new) <=> e \in EdgesOf(buf) \/ e = {u, v}
  <2>1. e \in EdgesOf(new) <=> \E a, b \in Nodes : e = {a, b} /\ get_bit(new, a, b)
    BY <1>6, EdgesByBits
  <2>2. e \in EdgesOf(buf) <=> \E a, b \in Nodes : e = {a, b} /\ get_bit(buf, a, b)
    BY EdgesByBits
  <2>3. \A a, b \in Nodes : get_bit(new, a, b) <=>
          get_bit(buf, a, b) \/ (a = u /\ b = v) \/ (a = v /\ b = u)
    BY <1>5, NodesAreSlots
  <2> QED BY <2>1, <2>2, <2>3
<1> QED BY <1>4, <1>6, <1>7

LEMMA RemovesOneEdge ==
    ASSUME BufferFits, NEW buf, HoldsGraph(buf), NEW u \in Nodes, NEW v \in Nodes
    PROVE  /\ HoldsGraph(RemoveEdge(buf, u, v))
           /\ EdgesOf(RemoveEdge(buf, u, v)) = EdgesOf(buf) \ {{u, v}}
<1> DEFINE half == unset_bit(buf, u, v)
           new == unset_bit(half, v, u)
<1>1. u \in Slots /\ v \in Slots /\ buf \in Buffers
  BY NodesAreSlots DEF HoldsGraph
<1>2. /\ half \in Buffers
      /\ \A a, b \in Slots : get_bit(half, a, b) <=> get_bit(buf, a, b) /\ ~(a = u /\ b = v)
  BY <1>1, UnsetsOneBit
<1> HIDE DEF half
<1>3. /\ new \in Buffers
      /\ \A a, b \in Slots : get_bit(new, a, b) <=> get_bit(half, a, b) /\ ~(a = v /\ b = u)
  BY <1>1, <1>2, UnsetsOneBit
<1>4. RemoveEdge(buf, u, v) = new
  BY DEF RemoveEdge, half
<1> HIDE DEF new
<1>5. \A a, b \in Slots : get_bit(new, a, b) <=>
          get_bit(buf, a, b) /\ ~(a = u /\ b = v) /\ ~(a = v /\ b = u)
  BY <1>2, <1>3
<1>6. HoldsGraph(new)
  BY <1>3, <1>5 DEF HoldsGraph
<1>7. ASSUME NEW e PROVE e \in EdgesOf(new) <=> e \in EdgesOf(buf) /\ e # {u, v}
  <2>1. e \in EdgesOf(new) <=> \E a, b \in Nodes : e = {a, b} /\ get_bit(new, a, b)
    BY <1>6, EdgesByBits
  <2>2. e \in EdgesOf(buf) <=> \E a, b \in Nodes : e = {a, b} /\ get_bit(buf, a, b)
    BY EdgesByBits
  <2>3. \A a, b \in Nodes : get_bit(new, a, b) <=>
          get_bit(buf, a, b) /\ ~(a = u /\ b = v) /\ ~(a = v /\ b = u)
    BY <1>5, NodesAreSlots
  <2>4. \A a, b \in Nodes : {a, b} = {u, v} <=> (a = u /\ b = v) \/ (a = v /\ b = u)
    OBVIOUS
  <2> QED BY <2>1, <2>2, <2>3, <2>4
<1> QED BY <1>4, <1>6, <1>7

\* The words start zeroed.
LEMMA NewIsEmpty ==
    ASSUME BufferFits
    PROVE  HoldsGraph(NewBuffer) /\ EdgesOf(NewBuffer) = {}
<1>1. NewBuffer \in Buffers /\ \A i \in Indices : NewBuffer[i] = {}
  BY DEF NewBuffer, Buffers
<1>2. \A u, v \in Slots : ~get_bit(NewBuffer, u, v)
  BY <1>1, OffsetInBuffer DEF get_bit
<1> QED BY <1>1, <1>2, NodesAreSlots DEF HoldsGraph, EdgesOf, has_edge

LEMMA EdgesFinite ==
    ASSUME NEW buf
    PROVE  IsFiniteSet(EdgesOf(buf)) /\ EdgesOf(buf) \in SUBSET SUBSET Nodes
<1>1. IsFiniteSet(Nodes)
  BY NodesAreSlots, FS_Interval DEF Nodes
<1>2. IsFiniteSet(SUBSET Nodes)
  BY <1>1, FS_SUBSET
<1>3. EdgesOf(buf) \in SUBSET SUBSET Nodes
  BY DEF EdgesOf
<1> QED BY <1>2, <1>3, FS_Subset

-----------------------------------------------------------------------------
(***************************************************************************)
(* add_edges and remove_edges, one edge after the other.                   *)
(***************************************************************************)
IsEdgeRange(range) ==
    /\ Len(range) \in Nat
    /\ \A i \in 1 .. Len(range) : /\ range[i][1] \in Nodes /\ range[i][2] \in Nodes
                                 /\ range[i][1] # range[i][2]

\* The edges among the first n of a range.
Named(range, n) == {{range[j][1], range[j][2]} : j \in 1 .. n}

LEMMA NamedGrows ==
    ASSUME NEW range, NEW n \in Nat, NEW i \in 1 .. n
    PROVE  Named(range, i) = Named(range, i-1) \cup {{range[i][1], range[i][2]}}
<1>1. \A j : j \in 1 .. i <=> j \in 1 .. i-1 \/ j = i
  OBVIOUS
<1> QED BY <1>1 DEF Named

LEMMA NamedFinite ==
    ASSUME NEW range, NEW n \in Nat,
           \A j \in 1 .. n : range[j][1] \in Nodes /\ range[j][2] \in Nodes
    PROVE  \A i \in 0 .. n : IsFiniteSet(Named(range, i))
<1>1. IsFiniteSet(SUBSET Nodes)
  <2>1. IsFiniteSet(Nodes)
    BY NodesAreSlots, FS_Interval DEF Nodes
  <2> QED BY <2>1, FS_SUBSET
<1> TAKE i \in 0 .. n
<1>2. \A j \in 1 .. i : range[j][1] \in Nodes /\ range[j][2] \in Nodes
  OBVIOUS
<1>3. Named(range, i) \in SUBSET SUBSET Nodes
  BY <1>2 DEF Named
<1> QED BY <1>1, <1>3, FS_Subset

LEMMA AddsTheirEdges ==
    ASSUME BufferFits, NEW buf, HoldsGraph(buf), NEW range, IsEdgeRange(range)
    PROVE  /\ HoldsGraph(AddEdges(buf, range).buffer)
           /\ EdgesOf(AddEdges(buf, range).buffer) = EdgesOf(buf) \cup Named(range, Len(range))
           /\ AddEdges(buf, range).count = Cardinality(Named(range, Len(range)) \ EdgesOf(buf))
<1> DEFINE n == Len(range)
           old == EdgesOf(buf)
           V == [buffer : {b \in Buffers : HoldsGraph(b)}, count : Nat]
           start == [buffer |-> buf, count |-> 0]
           next(s, i) == [buffer |-> AddEdge(s.buffer, range[i][1], range[i][2]),
                          count  |-> s.count + IF has_edge(s.buffer, range[i][1], range[i][2])
                                               THEN 0 ELSE 1]
           Solves(w) == w = [i \in 0 .. n |->
                IF i = 0 THEN [buffer |-> buf, count |-> 0]
                ELSE [buffer |-> AddEdge(w[i-1].buffer, range[i][1], range[i][2]),
                      count  |-> w[i-1].count + IF has_edge(w[i-1].buffer, range[i][1], range[i][2])
                                                THEN 0 ELSE 1]]
           chosen == CHOOSE w : Solves(w)
<1>1. /\ n \in Nat
      /\ \A i \in 1 .. n : /\ range[i][1] \in Nodes /\ range[i][2] \in Nodes
                           /\ range[i][1] # range[i][2]
  BY DEF IsEdgeRange
<1>2. start \in V
  BY DEF HoldsGraph
<1>3. ASSUME NEW s \in V, NEW i \in 1 .. n
      PROVE  /\ next(s, i) \in V
             /\ EdgesOf(next(s, i).buffer) = EdgesOf(s.buffer) \cup {{range[i][1], range[i][2]}}
             /\ next(s, i).count = s.count + IF {range[i][1], range[i][2]} \in EdgesOf(s.buffer)
                                             THEN 0 ELSE 1
  <2> DEFINE b == AddEdge(s.buffer, range[i][1], range[i][2])
  <2>1. HoldsGraph(s.buffer) /\ s.count \in Nat
    OBVIOUS
  <2>2. HoldsGraph(b) /\ EdgesOf(b) = EdgesOf(s.buffer) \cup {{range[i][1], range[i][2]}}
    <3> DEFINE u == range[i][1]
               v == range[i][2]
    <3>1. u \in Nodes /\ v \in Nodes /\ u # v
      BY <1>1
    <3> HIDE DEF u, v
    <3>2. HoldsGraph(AddEdge(s.buffer, u, v))
          /\ EdgesOf(AddEdge(s.buffer, u, v)) = EdgesOf(s.buffer) \cup {{u, v}}
      BY <2>1, <3>1, AddsOneEdge
    <3> QED BY <3>2 DEF u, v
  <2>3. has_edge(s.buffer, range[i][1], range[i][2])
          <=> {range[i][1], range[i][2]} \in EdgesOf(s.buffer)
    BY <1>1, <2>1, BitIsEdge DEF has_edge
  <2>4. b \in Buffers
    BY <2>2 DEF HoldsGraph
  <2> HIDE DEF b
  <2>5. next(s, i) = [buffer |-> b, count |-> s.count + IF {range[i][1], range[i][2]} \in EdgesOf(s.buffer)
                                             THEN 0 ELSE 1]
    BY <2>3 DEF b
  <2> HIDE DEF next
  <2> QED BY <2>1, <2>2, <2>4, <2>5
<1>4. \E w : Solves(w)
  <2> DEFINE step == [i \in 1 .. n |-> [s \in V |-> next(s, i)]]
  <2>1. /\ step \in [1 .. n -> [V -> V]]
        /\ \A i \in 1 .. n, s \in V : step[i][s] = next(s, i)
    BY <1>3
  <2> HIDE DEF step, V, next, start
  <2>2. PICK w : Iterates(n, V, start, step, w)
    BY <1>1, <1>2, <2>1, IterationExists
  <2>3. /\ w[0] = start /\ w \in [0 .. n -> V]
        /\ \A i \in 1 .. n : w[i] = next(w[i-1], i)
    <3>1. w \in [0 .. n -> V] /\ w[0] = start /\ \A i \in 1 .. n : w[i] = step[i][w[i-1]]
      BY <2>2 DEF Iterates
    <3>2. ASSUME NEW i \in 1 .. n PROVE w[i] = next(w[i-1], i)
      <4>1. w[i-1] \in V
        BY <1>1, <3>1
      <4> QED BY <2>1, <3>1, <4>1
    <3> QED BY <3>1, <3>2
  <2>4. w = [i \in 0 .. n |-> IF i = 0 THEN start ELSE next(w[i-1], i)]
    BY <2>3
  <2>5. Solves(w)
    BY <2>4 DEF next, start
  <2> QED BY <2>5
<1>5. Solves(chosen)
  <2> HIDE DEF Solves
  <2> QED BY <1>4
<1>6. AddEdges(buf, range) = chosen[n]
  BY DEF AddEdges
<1> HIDE DEF chosen
<1>7. chosen = [i \in 0 .. n |-> IF i = 0 THEN start ELSE next(chosen[i-1], i)]
  BY <1>5
<1> HIDE DEF Solves, next
<1>8. chosen[0] = start /\ \A i \in 1 .. n : chosen[i] = next(chosen[i-1], i)
  BY <1>1, <1>7
<1> HIDE DEF V, start
<1> DEFINE Holds(i) == /\ chosen[i] \in V
                       /\ EdgesOf(chosen[i].buffer) = old \cup Named(range, i)
                       /\ chosen[i].count = Cardinality(Named(range, i) \ old)
           T == {i \in 0 .. n : Holds(i)}
<1>9. Holds(0)
  <2>1. Named(range, 0) = {}
    BY DEF Named
  <2>2. chosen[0].buffer = buf /\ chosen[0].count = 0
    BY <1>8 DEF start
  <2> QED BY <1>2, <1>8, <2>1, <2>2, FS_EmptySet
<1>10. ASSUME NEW i \in 1 .. n, Holds(i-1) PROVE Holds(i)
  <2> DEFINE e == {range[i][1], range[i][2]}
             s == chosen[i-1]
  <2>1. Named(range, i) = Named(range, i-1) \cup {e}
    BY <1>1, NamedGrows
  <2>2. /\ chosen[i] \in V
        /\ EdgesOf(chosen[i].buffer) = EdgesOf(s.buffer) \cup {e}
        /\ chosen[i].count = s.count + IF e \in EdgesOf(s.buffer) THEN 0 ELSE 1
    <3>1. s \in V
      BY <1>10
    <3>2. chosen[i] = next(s, i)
      BY <1>8
    <3> HIDE DEF s
    <3> QED BY <1>3, <3>1, <3>2
  <2>3. IsFiniteSet(Named(range, i-1) \ old)
    <3>1. i-1 \in 0 .. n /\ \A j \in 1 .. n : range[j][1] \in Nodes /\ range[j][2] \in Nodes
      BY <1>1
    <3>2. IsFiniteSet(Named(range, i-1))
      BY <1>1, <3>1, NamedFinite
    <3> QED BY <3>2, FS_Difference
  <2> HIDE DEF e, s
  <2>4. EdgesOf(s.buffer) = old \cup Named(range, i-1) /\ s.count = Cardinality(Named(range, i-1) \ old)
    BY <1>10 DEF s
  <2>5. EdgesOf(chosen[i].buffer) = old \cup Named(range, i)
    BY <2>1, <2>2, <2>4
  <2>6. chosen[i].count = Cardinality(Named(range, i) \ old)
    <3> DEFINE D == Named(range, i-1) \ old
    <3>1. CASE e \in EdgesOf(s.buffer)
      <4>1. Named(range, i) \ old = Named(range, i-1) \ old
        BY <2>1, <2>4, <3>1
      <4>2. s.count \in Nat
        BY <1>10 DEF s, V
      <4>3. chosen[i].count = s.count
        BY <2>2, <3>1, <4>2
      <4> QED BY <2>4, <4>1, <4>3
    <3>2. CASE e \notin EdgesOf(s.buffer)
      <4>1. Named(range, i) \ old = D \cup {e} /\ e \notin D
        BY <2>1, <2>4, <3>2
      <4>2. Cardinality(D \cup {e}) = Cardinality(D) + 1
        BY <2>3, <4>1, FS_AddElement
      <4>3. s.count \in Nat
        BY <1>10 DEF s, V
      <4>4. chosen[i].count = s.count + 1
        BY <2>2, <3>2
      <4> QED BY <2>4, <4>1, <4>2, <4>4
    <3> QED BY <3>1, <3>2
  <2> QED BY <2>2, <2>5, <2>6
<1>11. Holds(n)
  <2> HIDE DEF Holds
  <2>1. 0 \in T /\ \A i \in 1 .. n : i-1 \in T => i \in T
    BY <1>1, <1>9, <1>10
  <2>2. \A i \in 0 .. n : i \in T
    <3> HIDE DEF T
    <3> QED BY <1>1, <2>1, UpTo
  <2> QED BY <1>1, <2>2
<1> QED BY <1>6, <1>11 DEF V

LEMMA RemovesTheirEdges ==
    ASSUME BufferFits, NEW buf, HoldsGraph(buf), NEW range, IsEdgeRange(range)
    PROVE  /\ HoldsGraph(RemoveEdges(buf, range).buffer)
           /\ EdgesOf(RemoveEdges(buf, range).buffer) = EdgesOf(buf) \ Named(range, Len(range))
           /\ RemoveEdges(buf, range).count = Cardinality(Named(range, Len(range)) \cap EdgesOf(buf))
<1> DEFINE n == Len(range)
           old == EdgesOf(buf)
           V == [buffer : {b \in Buffers : HoldsGraph(b)}, count : Nat]
           start == [buffer |-> buf, count |-> 0]
           next(s, i) == [buffer |-> RemoveEdge(s.buffer, range[i][1], range[i][2]),
                          count  |-> s.count + IF has_edge(s.buffer, range[i][1], range[i][2])
                                               THEN 1 ELSE 0]
           Solves(w) == w = [i \in 0 .. n |->
                IF i = 0 THEN [buffer |-> buf, count |-> 0]
                ELSE [buffer |-> RemoveEdge(w[i-1].buffer, range[i][1], range[i][2]),
                      count  |-> w[i-1].count + IF has_edge(w[i-1].buffer, range[i][1], range[i][2])
                                                THEN 1 ELSE 0]]
           chosen == CHOOSE w : Solves(w)
<1>1. /\ n \in Nat
      /\ \A i \in 1 .. n : /\ range[i][1] \in Nodes /\ range[i][2] \in Nodes
                           /\ range[i][1] # range[i][2]
  BY DEF IsEdgeRange
<1>2. start \in V
  BY DEF HoldsGraph
<1>3. ASSUME NEW s \in V, NEW i \in 1 .. n
      PROVE  /\ next(s, i) \in V
             /\ EdgesOf(next(s, i).buffer) = EdgesOf(s.buffer) \ {{range[i][1], range[i][2]}}
             /\ next(s, i).count = s.count + IF {range[i][1], range[i][2]} \in EdgesOf(s.buffer)
                                             THEN 1 ELSE 0
  <2> DEFINE b == RemoveEdge(s.buffer, range[i][1], range[i][2])
  <2>1. HoldsGraph(s.buffer) /\ s.count \in Nat
    OBVIOUS
  <2>2. HoldsGraph(b) /\ EdgesOf(b) = EdgesOf(s.buffer) \ {{range[i][1], range[i][2]}}
    <3> DEFINE u == range[i][1]
               v == range[i][2]
    <3>1. u \in Nodes /\ v \in Nodes /\ u # v
      BY <1>1
    <3> HIDE DEF u, v
    <3>2. HoldsGraph(RemoveEdge(s.buffer, u, v))
          /\ EdgesOf(RemoveEdge(s.buffer, u, v)) = EdgesOf(s.buffer) \ {{u, v}}
      BY <2>1, <3>1, RemovesOneEdge
    <3> QED BY <3>2 DEF u, v
  <2>3. has_edge(s.buffer, range[i][1], range[i][2])
          <=> {range[i][1], range[i][2]} \in EdgesOf(s.buffer)
    BY <1>1, <2>1, BitIsEdge DEF has_edge
  <2>4. b \in Buffers
    BY <2>2 DEF HoldsGraph
  <2> HIDE DEF b
  <2>5. next(s, i) = [buffer |-> b, count |-> s.count + IF {range[i][1], range[i][2]} \in EdgesOf(s.buffer)
                                             THEN 1 ELSE 0]
    BY <2>3 DEF b
  <2> HIDE DEF next
  <2> QED BY <2>1, <2>2, <2>4, <2>5
<1>4. \E w : Solves(w)
  <2> DEFINE step == [i \in 1 .. n |-> [s \in V |-> next(s, i)]]
  <2>1. /\ step \in [1 .. n -> [V -> V]]
        /\ \A i \in 1 .. n, s \in V : step[i][s] = next(s, i)
    BY <1>3
  <2> HIDE DEF step, V, next, start
  <2>2. PICK w : Iterates(n, V, start, step, w)
    BY <1>1, <1>2, <2>1, IterationExists
  <2>3. /\ w[0] = start /\ w \in [0 .. n -> V]
        /\ \A i \in 1 .. n : w[i] = next(w[i-1], i)
    <3>1. w \in [0 .. n -> V] /\ w[0] = start /\ \A i \in 1 .. n : w[i] = step[i][w[i-1]]
      BY <2>2 DEF Iterates
    <3>2. ASSUME NEW i \in 1 .. n PROVE w[i] = next(w[i-1], i)
      <4>1. w[i-1] \in V
        BY <1>1, <3>1
      <4> QED BY <2>1, <3>1, <4>1
    <3> QED BY <3>1, <3>2
  <2>4. w = [i \in 0 .. n |-> IF i = 0 THEN start ELSE next(w[i-1], i)]
    BY <2>3
  <2>5. Solves(w)
    BY <2>4 DEF next, start
  <2> QED BY <2>5
<1>5. Solves(chosen)
  <2> HIDE DEF Solves
  <2> QED BY <1>4
<1>6. RemoveEdges(buf, range) = chosen[n]
  BY DEF RemoveEdges
<1> HIDE DEF chosen
<1>7. chosen = [i \in 0 .. n |-> IF i = 0 THEN start ELSE next(chosen[i-1], i)]
  BY <1>5
<1> HIDE DEF Solves, next
<1>8. chosen[0] = start /\ \A i \in 1 .. n : chosen[i] = next(chosen[i-1], i)
  BY <1>1, <1>7
<1> HIDE DEF V, start
<1> DEFINE Holds(i) == /\ chosen[i] \in V
                       /\ EdgesOf(chosen[i].buffer) = old \ Named(range, i)
                       /\ chosen[i].count = Cardinality(Named(range, i) \cap old)
           T == {i \in 0 .. n : Holds(i)}
<1>9. Holds(0)
  <2>1. Named(range, 0) = {}
    BY DEF Named
  <2>2. chosen[0].buffer = buf /\ chosen[0].count = 0
    BY <1>8 DEF start
  <2> QED BY <1>2, <1>8, <2>1, <2>2, FS_EmptySet
<1>10. ASSUME NEW i \in 1 .. n, Holds(i-1) PROVE Holds(i)
  <2> DEFINE e == {range[i][1], range[i][2]}
             s == chosen[i-1]
  <2>1. Named(range, i) = Named(range, i-1) \cup {e}
    BY <1>1, NamedGrows
  <2>2. /\ chosen[i] \in V
        /\ EdgesOf(chosen[i].buffer) = EdgesOf(s.buffer) \ {e}
        /\ chosen[i].count = s.count + IF e \in EdgesOf(s.buffer) THEN 1 ELSE 0
    <3>1. s \in V
      BY <1>10
    <3>2. chosen[i] = next(s, i)
      BY <1>8
    <3> HIDE DEF s
    <3> QED BY <1>3, <3>1, <3>2
  <2>3. IsFiniteSet(Named(range, i-1) \cap old)
    <3>1. i-1 \in 0 .. n /\ \A j \in 1 .. n : range[j][1] \in Nodes /\ range[j][2] \in Nodes
      BY <1>1
    <3>2. IsFiniteSet(Named(range, i-1))
      BY <1>1, <3>1, NamedFinite
    <3> QED BY <3>2, FS_Intersection
  <2> HIDE DEF e, s
  <2>4. EdgesOf(s.buffer) = old \ Named(range, i-1) /\ s.count = Cardinality(Named(range, i-1) \cap old)
    BY <1>10 DEF s
  <2>5. EdgesOf(chosen[i].buffer) = old \ Named(range, i)
    BY <2>1, <2>2, <2>4
  <2>6. chosen[i].count = Cardinality(Named(range, i) \cap old)
    <3> DEFINE D == Named(range, i-1) \cap old
    <3>1. CASE e \in EdgesOf(s.buffer)
      <4>1. Named(range, i) \cap old = D \cup {e} /\ e \notin D
        BY <2>1, <2>4, <3>1
      <4>2. Cardinality(D \cup {e}) = Cardinality(D) + 1
        BY <2>3, <4>1, FS_AddElement
      <4>3. s.count \in Nat
        BY <1>10 DEF s, V
      <4>4. chosen[i].count = s.count + 1
        BY <2>2, <3>1
      <4> QED BY <2>4, <4>1, <4>2, <4>4
    <3>2. CASE e \notin EdgesOf(s.buffer)
      <4>1. Named(range, i) \cap old = Named(range, i-1) \cap old
        BY <2>1, <2>4, <3>2
      <4>2. s.count \in Nat
        BY <1>10 DEF s, V
      <4>3. chosen[i].count = s.count
        BY <2>2, <3>2, <4>2
      <4> QED BY <2>4, <4>1, <4>3
    <3> QED BY <3>1, <3>2
  <2> QED BY <2>2, <2>5, <2>6
<1>11. Holds(n)
  <2> HIDE DEF Holds
  <2>1. 0 \in T /\ \A i \in 1 .. n : i-1 \in T => i \in T
    BY <1>1, <1>9, <1>10
  <2>2. \A i \in 0 .. n : i \in T
    <3> HIDE DEF T
    <3> QED BY <1>1, <2>1, UpTo
  <2> QED BY <1>1, <2>2
<1> QED BY <1>6, <1>11 DEF V

-----------------------------------------------------------------------------
(***************************************************************************)
(* Sequences that list a set: in ascending order, or each member once.     *)
(***************************************************************************)
Lists(s, S) ==
    /\ s \in Seq(Int)
    /\ \A i, j \in 1 .. Len(s) : i < j => s[i] < s[j]
    /\ \A x : x \in S <=> \E i \in 1 .. Len(s) : s[i] = x

ListsOnce(s, S) ==
    /\ s \in Seq(S)
    /\ \A i, j \in 1 .. Len(s) : s[i] = s[j] => i = j
    /\ \A x \in S : \E i \in 1 .. Len(s) : s[i] = x

LEMMA ListsNothing == Lists(<<>>, {}) /\ ListsOnce(<<>>, {})
<1>1. \A S : <<>> \in Seq(S) /\ Len(<<>>) = 0
  BY EmptySeq
<1> QED BY <1>1 DEF Lists, ListsOnce

LEMMA ListedOnceCount ==
    ASSUME NEW s, NEW S, ListsOnce(s, S)
    PROVE  IsFiniteSet(S) /\ Cardinality(S) = Len(s)
<1>1. Len(s) \in Nat /\ s \in [1 .. Len(s) -> S]
  BY LenProperties DEF ListsOnce
<1>2. s \in Injection(1 .. Len(s), S) /\ s \in Surjection(1 .. Len(s), S)
  BY <1>1 DEF ListsOnce, Injection, IsInjective, Surjection
<1>3. ExistsBijection(1 .. Len(s), S)
  BY <1>2 DEF ExistsBijection, Bijection
<1>4. IsFiniteSet(1 .. Len(s)) /\ Cardinality(1 .. Len(s)) = Len(s)
  BY <1>1, FS_Interval
<1> QED BY <1>3, <1>4, FS_Bijection

LEMMA ConcatLists ==
    ASSUME NEW s, NEW S, Lists(s, S), NEW t, NEW T, Lists(t, T),
           \A x \in S, y \in T : x < y
    PROVE  Lists(s \o t, S \cup T)
<1> DEFINE m == Len(s)
           n == Len(t)
           st == s \o t
<1>1. /\ m \in Nat /\ n \in Nat /\ s \in Seq(Int) /\ t \in Seq(Int)
      /\ st \in Seq(Int) /\ Len(st) = m + n
      /\ \A i \in 1 .. m + n : st[i] = IF i <= m THEN s[i] ELSE t[i - m]
  BY ConcatProperties, LenProperties DEF Lists
<1> HIDE DEF m, n, st
<1>2. \A i \in 1 .. m : s[i] \in S /\ s[i] \in Int
  BY <1>1, ElementOfSeq DEF Lists, m
<1>3. \A i \in 1 .. n : t[i] \in T /\ t[i] \in Int
  BY <1>1, ElementOfSeq DEF Lists, n
<1>4. ASSUME NEW i \in 1 .. m + n, NEW j \in 1 .. m + n, i < j
      PROVE  st[i] < st[j]
  <2>1. CASE j <= m
    <3>1. i \in 1 .. m /\ j \in 1 .. m
      BY <1>1, <1>4, <2>1
    <3>2. s[i] < s[j]
      BY <1>4, <3>1 DEF Lists, m
    <3> QED BY <1>1, <1>4, <2>1, <3>1, <3>2
  <2>2. CASE m < i
    <3>1. i-m \in 1 .. n /\ j-m \in 1 .. n /\ i-m < j-m
      BY <1>1, <1>4, <2>2
    <3>2. t[i-m] < t[j-m]
      BY <3>1 DEF Lists, n
    <3>3. ~(i <= m) /\ ~(j <= m)
      BY <1>1, <1>4, <2>2
    <3> QED BY <1>1, <3>2, <3>3
  <2>3. CASE i <= m /\ m < j
    <3>1. i \in 1 .. m /\ j-m \in 1 .. n /\ ~(j <= m)
      BY <1>1, <1>4, <2>3
    <3>2. s[i] < t[j-m]
      BY <1>2, <1>3, <3>1
    <3> QED BY <1>1, <2>3, <3>1, <3>2
  <2> QED BY <1>1, <1>4, <2>1, <2>2, <2>3
<1>5. ASSUME NEW i \in 1 .. m + n PROVE st[i] \in S \cup T
  <2>1. CASE i <= m
    <3>1. i \in 1 .. m
      BY <1>1, <2>1
    <3> QED BY <1>1, <1>2, <2>1, <3>1
  <2>2. CASE ~(i <= m)
    <3>1. i-m \in 1 .. n
      BY <1>1, <2>2
    <3> QED BY <1>1, <1>3, <2>2, <3>1
  <2> QED BY <2>1, <2>2
<1>6. ASSUME NEW x \in S PROVE \E i \in 1 .. m + n : st[i] = x
  <2>1. PICK i \in 1 .. m : s[i] = x
    BY DEF Lists, m
  <2>2. i \in 1 .. m + n /\ i <= m
    BY <1>1
  <2> QED BY <1>1, <2>1, <2>2
<1>7. ASSUME NEW x \in T PROVE \E i \in 1 .. m + n : st[i] = x
  <2>1. PICK j \in 1 .. n : t[j] = x
    BY DEF Lists, n
  <2>2. m+j \in 1 .. m + n /\ ~(m+j <= m) /\ (m+j)-m = j
    BY <1>1
  <2> QED BY <1>1, <2>1, <2>2
<1>8. Len(st) = m + n
  BY <1>1
<1>9. Lists(st, S \cup T)
  BY <1>1, <1>4, <1>5, <1>6, <1>7, <1>8 DEF Lists
<1> QED BY <1>9 DEF st

LEMMA ConcatListsOnce ==
    ASSUME NEW s, NEW S, ListsOnce(s, S), NEW t, NEW T, ListsOnce(t, T), S \cap T = {}
    PROVE  ListsOnce(s \o t, S \cup T)
<1> DEFINE m == Len(s)
           n == Len(t)
           st == s \o t
           U == S \cup T
<1>0. s \in Seq(U) /\ t \in Seq(U)
  <2>1. S \subseteq U /\ T \subseteq U
    OBVIOUS
  <2> HIDE DEF U
  <2> QED BY <2>1, SeqMonotonic DEF ListsOnce
<1>1. /\ m \in Nat /\ n \in Nat
      /\ st \in Seq(U) /\ Len(st) = m + n
      /\ \A i \in 1 .. m + n : st[i] = IF i <= m THEN s[i] ELSE t[i - m]
  <2> HIDE DEF U
  <2> QED BY <1>0, ConcatProperties, LenProperties
<1> HIDE DEF m, n, st
<1>2. \A i \in 1 .. m : s[i] \in S
  BY ElementOfSeq DEF ListsOnce, m
<1>3. \A i \in 1 .. n : t[i] \in T
  BY ElementOfSeq DEF ListsOnce, n
<1>4. ASSUME NEW i \in 1 .. m + n, NEW j \in 1 .. m + n, st[i] = st[j]
      PROVE  i = j
  <2>1. CASE i <= m /\ j <= m
    <3>1. i \in 1 .. m /\ j \in 1 .. m /\ s[i] = s[j]
      BY <1>1, <1>4, <2>1
    <3> QED BY <3>1 DEF ListsOnce, m
  <2>2. CASE ~(i <= m) /\ ~(j <= m)
    <3>1. i-m \in 1 .. n /\ j-m \in 1 .. n /\ t[i-m] = t[j-m]
      BY <1>1, <1>4, <2>2
    <3>2. i-m = j-m
      BY <3>1 DEF ListsOnce, n
    <3> QED BY <1>1, <3>2
  <2>3. CASE i <= m /\ ~(j <= m)
    <3>1. i \in 1 .. m /\ j-m \in 1 .. n /\ s[i] = t[j-m]
      BY <1>1, <1>4, <2>3
    <3> QED BY <1>2, <1>3, <3>1
  <2>4. CASE ~(i <= m) /\ j <= m
    <3>1. j \in 1 .. m /\ i-m \in 1 .. n /\ t[i-m] = s[j]
      BY <1>1, <1>4, <2>4
    <3> QED BY <1>2, <1>3, <3>1
  <2> QED BY <2>1, <2>2, <2>3, <2>4
<1>6. ASSUME NEW x \in S PROVE \E i \in 1 .. m + n : st[i] = x
  <2>1. PICK i \in 1 .. m : s[i] = x
    BY DEF ListsOnce, m
  <2>2. i \in 1 .. m + n /\ i <= m
    BY <1>1
  <2> QED BY <1>1, <2>1, <2>2
<1>7. ASSUME NEW x \in T PROVE \E i \in 1 .. m + n : st[i] = x
  <2>1. PICK j \in 1 .. n : t[j] = x
    BY DEF ListsOnce, n
  <2>2. m+j \in 1 .. m + n /\ ~(m+j <= m) /\ (m+j)-m = j
    BY <1>1
  <2> QED BY <1>1, <2>1, <2>2
<1>8. Len(st) = m + n /\ st \in Seq(U)
  BY <1>1
<1>9. ListsOnce(st, S \cup T)
  BY <1>4, <1>6, <1>7, <1>8 DEF ListsOnce
<1> QED BY <1>9 DEF st

\* FlattenSeq appends one sequence after the other.
Appends(g, n, seqs, X) ==
    /\ g \in [0 .. n -> Seq(X)]
    /\ g[0] = <<>>
    /\ \A i \in 1 .. n : g[i] = g[i-1] \o seqs[i]

LEMMA FlattenAppends ==
    ASSUME NEW X, NEW seqs \in Seq(Seq(X))
    PROVE  \E g : Appends(g, Len(seqs), seqs, X) /\ FlattenSeq(seqs) = g[Len(seqs)]
<1> DEFINE n == Len(seqs)
           V == Seq(X)
           Solves(w) == w = [i \in 1 .. n |-> IF i = 1 THEN seqs[i] ELSE w[i-1] \o seqs[i]]
           chosen == CHOOSE w : Solves(w)
<1>1. n \in Nat /\ \A i \in 1 .. n : seqs[i] \in V
  BY LenProperties, ElementOfSeq
<1>2. <<>> \in V /\ \A x, y \in V : x \o y \in V
  BY EmptySeq, ConcatProperties
<1>3. \A x \in V : <<>> \o x = x
  BY ConcatEmptySeq
<1>4. CASE n = 0
  <2> DEFINE g == [i \in 0 .. n |-> <<>>]
  <2>1. seqs = <<>> /\ FlattenSeq(seqs) = seqs
    <3>1. seqs # <<>> => n # 0
      BY EmptySeq
    <3> QED BY <1>4, <3>1 DEF FlattenSeq
  <2>2. g \in [0 .. n -> V] /\ g[0] = <<>> /\ g[n] = <<>>
    BY <1>2, <1>4
  <2>3. ~\E i \in 1 .. n : TRUE
    BY <1>4
  <2> HIDE DEF g, n
  <2>4. Appends(g, n, seqs, X)
    BY <2>2, <2>3 DEF Appends
  <2> QED BY <2>1, <2>2, <2>4 DEF n
<1>5. CASE n # 0
  <2> DEFINE step == [i \in 1 .. n |-> [x \in V |-> x \o seqs[i]]]
  <2>1. /\ step \in [1 .. n -> [V -> V]]
        /\ \A i \in 1 .. n, x \in V : step[i][x] = x \o seqs[i]
    BY <1>1, <1>2
  <2> HIDE DEF step, V, n
  <2>2. PICK g : Iterates(n, V, <<>>, step, g)
    BY <1>1, <1>2, <2>1, IterationExists
  <2>3. g \in [0 .. n -> V] /\ g[0] = <<>> /\ \A i \in 1 .. n : g[i] = step[i][g[i-1]]
    BY <2>2 DEF Iterates
  <2>4. \A i \in 1 .. n : g[i-1] \in V /\ g[i] = g[i-1] \o seqs[i]
    <3> TAKE i \in 1 .. n
    <3>1. g[i-1] \in V
      BY <1>1, <2>3
    <3> QED BY <2>1, <2>3, <3>1
  <2> DEFINE w == [i \in 1 .. n |-> g[i]]
  <2>5. \A i \in 1 .. n : w[i] = IF i = 1 THEN seqs[i] ELSE w[i-1] \o seqs[i]
    <3> TAKE i \in 1 .. n
    <3>1. CASE i = 1
      <4>1. i-1 = 0 /\ seqs[i] \in V
        BY <1>1, <3>1
      <4>2. g[i] = <<>> \o seqs[i]
        BY <2>3, <2>4, <4>1
      <4>3. g[i] = seqs[i]
        BY <1>3, <4>1, <4>2
      <4> QED BY <3>1, <4>3
    <3>2. CASE i # 1
      <4>1. i-1 \in 1 .. n
        BY <1>1, <3>2
      <4> QED BY <2>4, <3>2, <4>1
    <3> QED BY <3>1, <3>2
  <2>6. w = [i \in 1 .. n |-> IF i = 1 THEN seqs[i] ELSE w[i-1] \o seqs[i]]
    BY <2>5
  <2> HIDE DEF w
  <2>7. Solves(w)
    BY <2>6
  <2>8. Solves(chosen)
    <3> HIDE DEF Solves
    <3> QED BY <2>7
  <2>9. FlattenSeq(seqs) = chosen[n]
    BY <1>5 DEF FlattenSeq, n
  <2> HIDE DEF chosen
  <2>10. \A i \in 1 .. n : chosen[i] = IF i = 1 THEN seqs[i] ELSE chosen[i-1] \o seqs[i]
    BY <2>8
  <2> DEFINE T == {i \in 0 .. n : i = 0 \/ chosen[i] = g[i]}
  <2>11. \A i \in 1 .. n : i-1 \in T => i \in T
    <3> TAKE i \in 1 .. n
    <3> HAVE i-1 \in T
    <3>1. CASE i = 1
      <4>1. chosen[i] = w[i]
        BY <2>5, <2>10, <3>1
      <4> QED BY <4>1 DEF w
    <3>2. CASE i # 1
      <4>1. chosen[i-1] = g[i-1]
        BY <1>1, <3>2
      <4>2. chosen[i] = chosen[i-1] \o seqs[i]
        BY <2>10, <3>2
      <4>3. chosen[i] = g[i]
        BY <2>4, <4>1, <4>2
      <4> QED BY <4>3
    <3> QED BY <3>1, <3>2
  <2>12. \A i \in 0 .. n : i \in T
    <3>1. 0 \in T
      BY <1>1
    <3> HIDE DEF T
    <3> QED BY <1>1, <2>11, <3>1, UpTo
  <2>13. chosen[n] = g[n]
    BY <1>1, <1>5, <2>12
  <2>14. Appends(g, n, seqs, X)
    BY <2>3, <2>4 DEF Appends, V
  <2> QED BY <2>9, <2>13, <2>14 DEF n
<1> QED BY <1>4, <1>5

-----------------------------------------------------------------------------
(***************************************************************************)
(* iterate_set_bits lists the one bits of a row, and count_ones is how     *)
(* many there are.                                                         *)
(***************************************************************************)
LEMMA AscendingLists ==
    ASSUME NEW S, IsFiniteSet(S), S \subseteq Nat
    PROVE  Lists(Ascending(S), S) /\ Len(Ascending(S)) = Cardinality(S)
<1> DEFINE n == Cardinality(S)
           R == {e \in S \X S : e[1] < e[2]}
           rank(b) == Cardinality({c \in S : c < b})
           a == [j \in 1 .. n |-> CHOOSE b \in S : rank(b) = j-1]
<1>0. n \in Nat
  BY FS_CardinalityType
<1>1. \A x, y \in S : <<x, y>> \in R <=> x < y
  OBVIOUS
<1>2. StrictOrder(R, S)
  <2> HIDE DEF R
  <2> QED BY <1>1 DEF StrictOrder
<1>3. \A b \in S : Before(R, S, b) = {c \in S : c < b}
  <2> HIDE DEF R
  <2> QED BY <1>1 DEF Before
<1>4. /\ \A b \in S : rank(b) \in 0 .. n-1
      /\ \A b, c \in S : b < c <=> rank(b) < rank(c)
      /\ \A j \in 0 .. n-1 : \E b \in S : rank(b) = j
  <2> HIDE DEF R
  <2>1. /\ \A b \in S : Cardinality(Before(R, S, b)) \in 0 .. n - 1
        /\ \A b, c \in S : <<b, c>> \in R <=>
              Cardinality(Before(R, S, b)) < Cardinality(Before(R, S, c))
        /\ \A j \in 0 .. n - 1 : \E b \in S : Cardinality(Before(R, S, b)) = j
    <3>1. IsFiniteSet(S) /\ StrictOrder(R, S)
      BY <1>2
    <3> HIDE DEF n
    <3>2. \A b \in S : Cardinality(Before(R, S, b)) \in 0 .. Cardinality(S) - 1
      BY <3>1, RankIsPlace, Zenon
    <3>3. \A b, c \in S : <<b, c>> \in R <=>
                Cardinality(Before(R, S, b)) < Cardinality(Before(R, S, c))
      BY <3>1, RankIsPlace, Zenon
    <3>4. EachPlaceTaken(R, S)
      BY <3>1, RankIsPlace, Zenon
    <3> QED BY <3>2, <3>3, <3>4, Zenon DEF n, EachPlaceTaken
  <2>2. \A b \in S : Cardinality(Before(R, S, b)) = rank(b)
    BY <1>3
  <2> HIDE DEF rank, n
  <2>3. \A b \in S : rank(b) \in 0 .. n-1
    BY <2>1, <2>2
  <2>4. \A b, c \in S : b < c <=> rank(b) < rank(c)
    <3> TAKE b, c \in S
    <3>1. <<b, c>> \in R <=> Cardinality(Before(R, S, b)) < Cardinality(Before(R, S, c))
      BY <2>1
    <3>2. <<b, c>> \in R <=> b < c
      BY <1>1
    <3>3. Cardinality(Before(R, S, b)) = rank(b) /\ Cardinality(Before(R, S, c)) = rank(c)
      BY <2>2
    <3> QED BY <3>1, <3>2, <3>3
  <2>5. \A j \in 0 .. n-1 : \E b \in S : rank(b) = j
    BY <2>1, <2>2
  <2> QED BY <2>3, <2>4, <2>5
<1>5. Ascending(S) = a
  BY DEF Ascending
<1> HIDE DEF rank, R
<1>6. \A j \in 1 .. n : a[j] \in S /\ rank(a[j]) = j-1
  <2> TAKE j \in 1 .. n
  <2>1. j-1 \in 0 .. n-1
    BY <1>0
  <2>2. \E b \in S : rank(b) = j-1
    BY <1>4, <2>1
  <2> QED BY <2>2
<1>7. a \in [1 .. n -> S]
  BY <1>6
<1>8. a \in Seq(Int) /\ Len(a) = n
  <2> HIDE DEF n
  <2>1. a \in Seq(S) /\ Len(a) = n
    BY <1>0, <1>7
  <2>2. S \subseteq Int
    OBVIOUS
  <2> HIDE DEF a
  <2>3. Seq(S) \subseteq Seq(Int)
    BY <2>2, SeqMonotonic
  <2> QED BY <2>1, <2>3
<1> HIDE DEF a, n
<1>9. \A i, j \in 1 .. n : i < j => a[i] < a[j]
  <2> TAKE i, j \in 1 .. n
  <2> HAVE i < j
  <2>1. rank(a[i]) < rank(a[j])
    BY <1>0, <1>6
  <2> QED BY <1>4, <1>6, <2>1
<1>10. ASSUME NEW x \in S PROVE \E i \in 1 .. n : a[i] = x
  <2> DEFINE i == rank(x) + 1
  <2>1. i \in 1 .. n /\ i-1 = rank(x)
    BY <1>0, <1>4
  <2> HIDE DEF i
  <2>2. a[i] \in S /\ rank(a[i]) = rank(x)
    BY <1>6, <2>1
  <2>3. ~(a[i] < x) /\ ~(x < a[i])
    <3> DEFINE y == a[i]
    <3>1. y \in S /\ rank(y) = rank(x) /\ rank(x) \in Int
      BY <1>0, <1>4, <2>2
    <3> HIDE DEF y
    <3>2. ~(y < x) /\ ~(x < y)
      BY <1>4, <3>1
    <3> QED BY <3>2 DEF y
  <2>4. a[i] = x
    <3>1. \A b \in S : b \in Int
      OBVIOUS
    <3>2. a[i] \in Int /\ x \in Int
      BY <2>2, <3>1
    <3> QED BY <2>3, <3>2
  <2> QED BY <2>1, <2>4
<1>11. \A i \in 1 .. n : a[i] \in S
  BY <1>6
<1> QED BY <1>5, <1>8, <1>9, <1>10, <1>11 DEF Lists, n

LEMMA ListsIsOnce ==
    ASSUME NEW s, NEW S, Lists(s, S)
    PROVE  ListsOnce(s, S)
<1>1. Len(s) \in Nat /\ s \in [1 .. Len(s) -> Int] /\ s \in Seq(Int)
  BY LenProperties DEF Lists
<1>2. \A i \in 1 .. Len(s) : s[i] \in S
  BY DEF Lists
<1>3. s \in Seq(S)
  <2> DEFINE n == Len(s)
  <2>1. s \in [1 .. n -> S] /\ n \in Nat
    BY <1>1, <1>2
  <2> HIDE DEF n
  <2> QED BY <2>1, SeqDef
<1>4. \A i, j \in 1 .. Len(s) : s[i] = s[j] => i = j
  <2> TAKE i, j \in 1 .. Len(s)
  <2>1. i < j => s[i] < s[j]
    BY DEF Lists
  <2>2. j < i => s[j] < s[i]
    BY DEF Lists
  <2>3. s[i] \in Int /\ s[j] \in Int /\ i \in Int /\ j \in Int
    BY <1>1
  <2> QED BY <2>1, <2>2, <2>3
<1> QED BY <1>3, <1>4 DEF Lists, ListsOnce

\* A column in an earlier word comes first.
LEMMA EarlierWord ==
    ASSUME NEW x \in Slots, NEW y \in Slots, x \div Word < y \div Word
    PROVE  x < y
<1> DEFINE c == x \div Word
           d == y \div Word
<1>1. /\ c \in 0 .. WordsPerRow-1 /\ Bit(x) \in 0 .. Word-1 /\ x = c * Word + Bit(x)
      /\ d \in 0 .. WordsPerRow-1 /\ Bit(y) \in 0 .. Word-1 /\ y = d * Word + Bit(y)
  BY ColumnPlace
<1>2. c < d /\ Word \in Nat /\ WordsPerRow \in Nat
  BY StorageAssumption, RowsAreWhole
<1> HIDE DEF c, d
<1>3. c + 1 \in Nat /\ d \in Nat /\ c + 1 <= d
  BY <1>1, <1>2
<1>4. (c + 1) * Word <= d * Word
  BY <1>2, <1>3, ProductGrows
<1>5. (c + 1) * Word = c * Word + Word /\ c * Word \in Int /\ d * Word \in Int
  BY <1>1, <1>2
<1> QED BY <1>1, <1>2, <1>4, <1>5

\* The columns of row u that are set, in the i-th word and in the first i words.
InWord(buf, u, i) == {v \in Slots : v \div Word = i-1 /\ get_bit(buf, u, v)}
InWords(buf, u, i) == {v \in Slots : v \div Word < i /\ get_bit(buf, u, v)}
InRow(buf, u) == {v \in Slots : get_bit(buf, u, v)}

WordListed(buf, u) ==
    [i \in 1 .. WordsPerRow |->
        LET bits == Ascending(buf[u * WordsPerRow + i-1])
        IN  [j \in 1 .. Len(bits) |-> (i-1) * Word + bits[j]]]

LEMMA WordIsListed ==
    ASSUME BufferFits, NEW buf \in Buffers, NEW u \in Slots, NEW i \in 1 .. WordsPerRow
    PROVE  /\ Lists(WordListed(buf, u)[i], InWord(buf, u, i))
           /\ Len(WordListed(buf, u)[i]) = Cardinality(buf[u * WordsPerRow + i-1])
<1> DEFINE word == buf[u * WordsPerRow + i-1]
           bits == Ascending(word)
           base == (i-1) * Word
           s == [j \in 1 .. Len(bits) |-> base + bits[j]]
           n == Len(bits)
<1>0. WordsPerRow \in Nat \ {0} /\ Word \in Nat \ {0} /\ u \in Nat /\ u * WordsPerRow \in Nat
      /\ i-1 \in 0 .. WordsPerRow-1 /\ base \in Nat
  BY RowsAreWhole, StorageAssumption DEF Slots
<1>1. u * WordsPerRow + i-1 = u * WordsPerRow + (i-1)
  BY <1>0
<1>2. word \in SUBSET (0 .. Word-1)
  <2>1. u * WordsPerRow + (i-1) \in Indices
    BY <1>0, WordsInBuffer
  <2> QED BY <1>1, <2>1 DEF Buffers
<1>3. IsFiniteSet(word) /\ word \subseteq Nat
  <2>1. IsFiniteSet(0 .. Word-1)
    BY <1>0, FS_Interval
  <2>2. 0 .. Word-1 \subseteq Nat
    BY <1>0
  <2> HIDE DEF word
  <2> DEFINE W == 0 .. Word-1
  <2>3. word \subseteq W /\ IsFiniteSet(W) /\ W \subseteq Nat
    BY <1>2, <2>1, <2>2
  <2> HIDE DEF W
  <2>4. IsFiniteSet(word)
    BY <2>3, FS_Subset
  <2> QED BY <2>3, <2>4
<1>4. WordListed(buf, u)[i] = s
  BY DEF WordListed
<1>5. ASSUME NEW v \in Slots, v \div Word = i-1
      PROVE  get_bit(buf, u, v) <=> Bit(v) \in word
  BY <1>1, <1>5 DEF get_bit, Offset
<1> HIDE DEF word
<1>6. Lists(bits, word) /\ n = Cardinality(word) /\ n \in Nat
  <2>1. Lists(bits, word) /\ n = Cardinality(word)
    BY <1>3, AscendingLists
  <2> QED BY <2>1, LenProperties DEF Lists
<1>7. \A j \in 1 .. n : bits[j] \in word /\ bits[j] \in 0 .. Word-1
  BY <1>2, <1>6 DEF Lists
<1> HIDE DEF bits, base
<1>8. \A j \in 1 .. n : s[j] = base + bits[j] /\ s[j] \in Int
  BY <1>0, <1>7
<1>9. s \in Seq(Int) /\ Len(s) = n
  <2>1. s \in [1 .. n -> Int]
    BY <1>8
  <2> HIDE DEF n, s
  <2> QED BY <1>6, <2>1
<1> HIDE DEF s, n
<1>10. \A j, k \in 1 .. n : j < k => s[j] < s[k]
  <2> TAKE j, k \in 1 .. n
  <2> HAVE j < k
  <2>1. bits[j] < bits[k]
    BY <1>6 DEF Lists, n
  <2> QED BY <1>0, <1>7, <1>8, <2>1
<1>11. ASSUME NEW j \in 1 .. n PROVE s[j] \in InWord(buf, u, i)
  <2> DEFINE b == bits[j]
             v == s[j]
  <2>1. b \in word /\ b \in 0 .. Word-1 /\ v = (i-1) * Word + b
    BY <1>7, <1>8 DEF base
  <2> HIDE DEF b, v
  <2>2. v \in Slots /\ v \div Word = i-1 /\ Bit(v) = b
    <3> DEFINE k == i-1
    <3>1. k \in 0 .. WordsPerRow-1
      BY <1>0
    <3> HIDE DEF k
    <3>2. k * Word + b \in Slots /\ (k * Word + b) \div Word = k /\ Bit(k * Word + b) = b
      BY <2>1, <3>1, PlaceOfColumn
    <3>3. v = k * Word + b
      BY <2>1 DEF k
    <3> QED BY <3>2, <3>3 DEF k
  <2>3. get_bit(buf, u, v)
    BY <1>5, <2>1, <2>2
  <2> QED BY <2>2, <2>3 DEF InWord, v
<1>12. ASSUME NEW v \in InWord(buf, u, i) PROVE \E j \in 1 .. n : s[j] = v
  <2>1. v \in Slots /\ v \div Word = i-1 /\ get_bit(buf, u, v)
    BY DEF InWord
  <2>2. Bit(v) \in word
    BY <1>5, <2>1
  <2>3. v = (i-1) * Word + Bit(v)
    BY <2>1, ColumnPlace
  <2>4. PICK j \in 1 .. n : bits[j] = Bit(v)
    BY <1>6, <2>2 DEF Lists, n
  <2> QED BY <1>8, <2>3, <2>4 DEF base
<1>13. Lists(s, InWord(buf, u, i))
  BY <1>9, <1>10, <1>11, <1>12 DEF Lists
<1> HIDE DEF Lists
<1>14. Len(WordListed(buf, u)[i]) = Cardinality(buf[u * WordsPerRow + i-1])
  BY <1>4, <1>6, <1>9 DEF word
<1> QED BY <1>4, <1>13, <1>14

LEMMA RowIsListed ==
    ASSUME BufferFits, NEW buf \in Buffers, NEW u \in Slots
    PROVE  /\ Lists(iterate_set_bits(buf, u), InRow(buf, u))
           /\ count_ones(buf, u) = Len(iterate_set_bits(buf, u))
<1> DEFINE n == WordsPerRow
           seqs == WordListed(buf, u)
           word(i) == buf[u * WordsPerRow + i-1]
<1>1. n \in Nat \ {0}
  BY RowsAreWhole
<1>2. \A i \in 1 .. n : Lists(seqs[i], InWord(buf, u, i)) /\ Len(seqs[i]) = Cardinality(word(i))
  BY WordIsListed
<1>3. seqs \in Seq(Seq(Int)) /\ Len(seqs) = n
  <2>1. \A i \in 1 .. n : seqs[i] \in Seq(Int)
    BY <1>2 DEF Lists
  <2>2. seqs \in [1 .. n -> Seq(Int)]
    BY <2>1 DEF WordListed
  <2> HIDE DEF n, seqs
  <2> QED BY <1>1, <2>2
<1>4. iterate_set_bits(buf, u) = FlattenSeq(seqs)
  BY DEF iterate_set_bits, WordListed
<1> HIDE DEF n, seqs
<1>5. PICK g : Appends(g, n, seqs, Int) /\ FlattenSeq(seqs) = g[n]
  BY <1>3, FlattenAppends
<1>6. /\ g[0] = <<>> /\ g \in [0 .. n -> Seq(Int)]
      /\ \A i \in 1 .. n : g[i] = g[i-1] \o seqs[i]
  BY <1>5 DEF Appends
<1> DEFINE T == {i \in 0 .. n : Lists(g[i], InWords(buf, u, i))}
<1>7. 0 \in T
  <2>1. \A v \in Slots : ~(v \div Word < 0)
    BY ColumnPlace
  <2>2. InWords(buf, u, 0) = {}
    BY <2>1 DEF InWords
  <2>3. Lists(g[0], InWords(buf, u, 0))
    BY <1>6, <2>2, ListsNothing
  <2> QED BY <1>1, <2>3
<1>8. ASSUME NEW i \in 1 .. n, i-1 \in T PROVE i \in T
  <2>1. Lists(g[i-1], InWords(buf, u, i-1))
    BY <1>8
  <2>2. \A x \in InWords(buf, u, i-1), y \in InWord(buf, u, i) : x < y
    <3> TAKE x \in InWords(buf, u, i-1), y \in InWord(buf, u, i)
    <3>1. x \in Slots /\ y \in Slots /\ x \div Word < y \div Word
      BY DEF InWord, InWords
    <3> QED BY <3>1, EarlierWord
  <2>3. Lists(g[i], InWords(buf, u, i-1) \cup InWord(buf, u, i))
    <3> DEFINE a == g[i-1]
               S == InWords(buf, u, i-1)
               T2 == InWord(buf, u, i)
               b == seqs[i]
    <3>1. Lists(a, S) /\ Lists(b, T2) /\ g[i] = a \o b
      BY <1>2, <1>6, <2>1
    <3>2. \A x \in S, y \in T2 : x < y
      BY <2>2
    <3> HIDE DEF a, b, S, T2
    <3>3. Lists(a \o b, S \cup T2)
      BY <3>1, <3>2, ConcatLists
    <3> QED BY <3>1, <3>3 DEF S, T2
  <2>4. \A v \in Slots : v \div Word < i <=> v \div Word < i-1 \/ v \div Word = i-1
    <3> TAKE v \in Slots
    <3>1. v \div Word \in Int
      BY ColumnPlace, <1>1 DEF n
    <3> QED BY <3>1
  <2>5. InWords(buf, u, i-1) \cup InWord(buf, u, i) = InWords(buf, u, i)
    BY <2>4 DEF InWord, InWords
  <2> QED BY <2>3, <2>5
<1>9. Lists(g[n], InWords(buf, u, n))
  <2>1. \A i \in 0 .. n : i \in T
    <3> HIDE DEF T
    <3> QED BY <1>1, <1>7, <1>8, UpTo
  <2> QED BY <1>1, <2>1
<1>10. InWords(buf, u, n) = InRow(buf, u)
  <2>1. \A v \in Slots : v \div Word < n
    BY <1>1, ColumnPlace DEF n
  <2> QED BY <2>1 DEF InWords, InRow
<1>11. count_ones(buf, u) = Len(g[n])
  <2> DEFINE Solves(w) == w = [i \in 0 .. WordsPerRow |->
                 IF i = 0 THEN 0 ELSE w[i-1] + Cardinality(buf[u * WordsPerRow + i-1])]
             chosen == CHOOSE w : Solves(w)
             h == [i \in 0 .. n |-> Len(g[i])]
  <2>1. Len(g[0]) = 0 /\ \A i \in 1 .. n : Len(g[i]) = Len(g[i-1]) + Cardinality(word(i))
    <3>1. Len(g[0]) = 0
      BY <1>6, EmptySeq
    <3>2. ASSUME NEW i \in 1 .. n PROVE Len(g[i]) = Len(g[i-1]) + Len(seqs[i])
      <4>1. g[i-1] \in Seq(Int) /\ seqs[i] \in Seq(Int)
        BY <1>1, <1>2, <1>6 DEF Lists
      <4> DEFINE a == g[i-1]
                 b == seqs[i]
      <4>2. g[i] = a \o b /\ a \in Seq(Int) /\ b \in Seq(Int)
        BY <1>6, <4>1
      <4> HIDE DEF a, b
      <4>3. Len(a \o b) = Len(a) + Len(b)
        BY <4>2, ConcatProperties
      <4> QED BY <4>2, <4>3 DEF a, b
    <3> QED BY <1>2, <3>1, <3>2
  <2> HIDE DEF word
  <2>2. \A i \in 0 .. n : h[i] = IF i = 0 THEN 0 ELSE h[i-1] + Cardinality(word(i))
    BY <1>1, <2>1
  <2>3. h = [i \in 0 .. n |-> IF i = 0 THEN 0 ELSE h[i-1] + Cardinality(word(i))]
    BY <2>2
  <2>4. h[n] = Len(g[n])
    BY <1>1
  <2> HIDE DEF h
  <2>5. Solves(h)
    BY <2>3 DEF word, n
  <2>6. Solves(chosen)
    <3> HIDE DEF Solves
    <3> QED BY <2>5
  <2>7. count_ones(buf, u) = chosen[n]
    BY DEF count_ones, n
  <2> HIDE DEF chosen
  <2>8. chosen = [i \in 0 .. n |-> IF i = 0 THEN 0 ELSE chosen[i-1] + Cardinality(word(i))]
    BY <2>6 DEF word, n
  <2> HIDE DEF Solves
  <2> DEFINE U == {i \in 0 .. n : chosen[i] = h[i]}
  <2>9. 0 \in U /\ \A i \in 1 .. n : i-1 \in U => i \in U
    BY <1>1, <2>2, <2>8
  <2>10. \A i \in 0 .. n : i \in U
    <3> HIDE DEF U
    <3> QED BY <1>1, <2>9, UpTo
  <2> QED BY <1>1, <2>4, <2>7, <2>10
<1> QED BY <1>4, <1>5, <1>9, <1>10, <1>11
-----------------------------------------------------------------------------
(***************************************************************************)
(* edges lists each edge once, from its larger end.                        *)
(***************************************************************************)
LEMMA InitialPart ==
    ASSUME NEW n \in Nat, NEW D \in SUBSET (1 .. n), \A j \in D : \A i \in 1 .. j : i \in D
    PROVE  \E m \in 0 .. n : D = 1 .. m /\ Cardinality(D) = m
<1>1. CASE D = {}
  <2>1. D = 1 .. 0 /\ Cardinality(D) = 0
    BY <1>1, FS_EmptySet
  <2> QED BY <2>1
<1>2. CASE D # {}
  <2>1. D \subseteq 0 .. n
    OBVIOUS
  <2>2. PICK m \in D : \A y \in D : y <= m
    BY <1>2, <2>1, HasGreatest
  <2>3. m \in 1 .. n /\ \A y \in D : y \in 1 .. n /\ y <= m
    BY <2>2
  <2>4. D = 1 .. m
    <3>1. \A i \in 1 .. m : i \in D
      BY <2>2
    <3>2. \A i \in D : i \in 1 .. m
      BY <2>3
    <3> QED BY <3>1, <3>2
  <2>5. Cardinality(1 .. m) = m
    <3>1. 1 \in Int /\ m \in Int /\ 1 <= m
      BY <2>3
    <3>2. Cardinality(1 .. m) = IF 1 > m THEN 0 ELSE m - 1 + 1
      BY <3>1, FS_Interval
    <3> QED BY <3>1, <3>2
  <2> QED BY <2>3, <2>4, <2>5
<1> QED BY <1>1, <1>2

LEMMA ListsUpToLarger ==
    ASSUME NEW s, NEW S, Lists(s, S), NEW u \in Int
    PROVE  Lists(UpToLarger(s, u), {x \in S : x <= u})
<1> DEFINE n == Len(s)
           D == {j \in DOMAIN s : \A i \in 1 .. j : s[i] <= u}
           t == SubSeq(s, 1, Cardinality(D))
<1>1. s \in Seq(Int) /\ n \in Nat /\ DOMAIN s = 1 .. n /\ \A i \in 1 .. n : s[i] \in Int
  BY LenProperties DEF Lists
<1>2. D \in SUBSET (1 .. n) /\ \A j \in D : \A i \in 1 .. j : i \in D
  <2>1. \A j \in D : \A i \in 1 .. j : i \in D
    <3> TAKE j \in D
    <3> TAKE i \in 1 .. j
    <3>1. j \in 1 .. n /\ \A k \in 1 .. j : s[k] <= u
      BY <1>1
    <3>2. i \in 1 .. n /\ \A k \in 1 .. i : k \in 1 .. j
      BY <1>1, <3>1
    <3> QED BY <1>1, <3>1, <3>2
  <2> QED BY <1>1, <2>1
<1>3. \A j \in D : s[j] <= u
  <2> TAKE j \in D
  <2>1. j \in 1 .. n /\ \A i \in 1 .. j : s[i] <= u
    BY <1>1
  <2>2. j \in 1 .. j
    BY <2>1, <1>1
  <2> QED BY <2>1, <2>2
<1>4. ASSUME NEW j \in 1 .. n, s[j] <= u PROVE j \in D
  <2>1. ASSUME NEW i \in 1 .. j PROVE s[i] <= u
    <3>1. i \in 1 .. n /\ (i < j \/ i = j)
      BY <1>1
    <3>2. i < j => s[i] < s[j]
      BY <3>1 DEF Lists
    <3>3. s[i] \in Int /\ s[j] \in Int
      BY <1>1, <3>1
    <3> QED BY <1>4, <3>1, <3>2, <3>3
  <2> QED BY <1>1, <2>1
<1> HIDE DEF D, n
<1>5. PICK m \in 0 .. n : D = 1 .. m /\ Cardinality(D) = m
  BY <1>1, <1>2, InitialPart
<1>6. t \in Seq(Int) /\ Len(t) = m /\ \A i \in 1 .. m : t[i] = s[i]
  <2>1. m \in Nat /\ m <= Len(s) /\ 1 \in 1 .. Len(s)+1 /\ m \in 0 .. Len(s)
    BY <1>1, <1>5 DEF n
  <2>2. t = SubSeq(s, 1, m)
    BY <1>5
  <2> HIDE DEF t
  <2>3. Len(t) = (IF 1 <= m THEN m - 1 + 1 ELSE 0) /\ \A i \in 1 .. m - 1 + 1 : t[i] = s[1 + i - 1]
    BY <1>1, <2>1, <2>2, SubSeqProperties
  <2>4. t \in Seq(Int)
    BY <1>1, <2>1, <2>2, SubSeqProperties
  <2>5. ASSUME NEW i \in 1 .. m PROVE t[i] = s[i]
    <3>1. i \in 1 .. m - 1 + 1 /\ 1 + i - 1 = i
      BY <2>1
    <3> QED BY <2>3, <3>1
  <2>6. Len(t) = m
    BY <2>1, <2>3
  <2> QED BY <2>4, <2>5, <2>6
<1>7. UpToLarger(s, u) = t
  BY DEF UpToLarger, D
<1> HIDE DEF t
<1>8. \A i, j \in 1 .. m : i < j => t[i] < t[j]
  <2> TAKE i, j \in 1 .. m
  <2>1. i \in 1 .. Len(s) /\ j \in 1 .. Len(s)
    BY <1>1, <1>5 DEF n
  <2>2. i < j => s[i] < s[j]
    BY <2>1 DEF Lists
  <2> QED BY <1>6, <2>2
<1>9. ASSUME NEW i \in 1 .. m PROVE t[i] \in S /\ t[i] <= u
  <2>1. i \in D /\ i \in 1 .. n
    BY <1>1, <1>5
  <2>2. s[i] <= u /\ s[i] \in S
    BY <1>3, <2>1 DEF Lists, n
  <2> QED BY <1>6, <2>2
<1>10. ASSUME NEW x \in S, x <= u PROVE \E i \in 1 .. m : t[i] = x
  <2>1. PICK i \in 1 .. n : s[i] = x
    BY DEF Lists, n
  <2>2. i \in D
    BY <1>4, <1>10, <2>1
  <2> QED BY <1>5, <1>6, <2>1, <2>2
<1>11. Lists(t, {x \in S : x <= u})
  BY <1>6, <1>8, <1>9, <1>10 DEF Lists
<1> QED BY <1>7, <1>11

\* The edges from a node to a smaller one: the first end is i-1, or below i.
ArcsOf(buf, i) ==
    {d \in Nodes \X Nodes : d[1] = i-1 /\ d[2] <= d[1] /\ get_bit(buf, d[1], d[2])}
ArcsTo(buf, i) ==
    {d \in Nodes \X Nodes : d[1] < i /\ d[2] <= d[1] /\ get_bit(buf, d[1], d[2])}

ArcListed(buf) ==
    [i \in 1 .. N |->
        LET below == UpToLarger(neighbors_of(buf, i-1), i-1)
        IN  [j \in 1 .. Len(below) |-> <<i-1, below[j]>>]]

LEMMA ArcsAreListed ==
    ASSUME BufferFits, NEW buf, HoldsGraph(buf), NEW i \in 1 .. N
    PROVE  ListsOnce(ArcListed(buf)[i], ArcsOf(buf, i))
<1> DEFINE u == i-1
           s == UpToLarger(neighbors_of(buf, i-1), i-1)
           t == [j \in 1 .. Len(s) |-> <<i-1, s[j]>>]
           S == {x \in InRow(buf, u) : x <= u}
           A == ArcsOf(buf, i)
           n == Len(s)
<1>1. u \in Nodes /\ u \in Slots /\ u \in Int /\ buf \in Buffers
  BY NodesAreSlots DEF Nodes, Slots, HoldsGraph
<1>2. Lists(s, S)
  <2>1. Lists(iterate_set_bits(buf, u), InRow(buf, u))
    BY <1>1, RowIsListed
  <2>2. Lists(UpToLarger(iterate_set_bits(buf, u), u), S)
    <3> DEFINE R == InRow(buf, u)
               r == iterate_set_bits(buf, u)
    <3>1. Lists(r, R) /\ u \in Int
      BY <1>1, <2>1
    <3> HIDE DEF R, r, u
    <3>2. Lists(UpToLarger(r, u), {x \in R : x <= u})
      BY <3>1, ListsUpToLarger
    <3> QED BY <3>2 DEF R, r
  <2> QED BY <2>2 DEF neighbors_of
<1>3. ListsOnce(s, S)
  BY <1>2, ListsIsOnce
<1>4. n \in Nat /\ \A j \in 1 .. n : s[j] \in S
  BY <1>3, LenProperties DEF ListsOnce
<1>5. ArcListed(buf)[i] = t
  BY DEF ArcListed
<1> HIDE DEF s
<1>6. ASSUME NEW x \in S PROVE <<u, x>> \in A
  <2>1. x \in Nodes /\ x <= u /\ get_bit(buf, u, x)
    BY <1>1 DEF InRow, HoldsGraph
  <2> QED BY <1>1, <2>1 DEF ArcsOf
<1>7. ASSUME NEW d \in A PROVE \E x \in S : d = <<u, x>>
  <2>1. d = <<d[1], d[2]>> /\ d[1] = u /\ d[2] \in Nodes /\ d[2] <= u /\ get_bit(buf, u, d[2])
    BY DEF ArcsOf
  <2>2. d[2] \in S
    BY <2>1, NodesAreSlots DEF InRow
  <2> QED BY <2>1, <2>2
<1> HIDE DEF S, A
<1>8. \A j \in 1 .. n : t[j] = <<u, s[j]>> /\ t[j] \in A
  BY <1>4, <1>6
<1>9. t \in Seq(A) /\ Len(t) = n
  <2>1. t \in [1 .. n -> A]
    BY <1>8
  <2> HIDE DEF t, n
  <2> QED BY <1>4, <2>1
<1> HIDE DEF t, u
<1>10. \A j, k \in 1 .. n : t[j] = t[k] => j = k
  <2> TAKE j, k \in 1 .. n
  <2> HAVE t[j] = t[k]
  <2>1. s[j] = s[k]
    BY <1>8
  <2> QED BY <1>3, <2>1 DEF ListsOnce
<1>11. ASSUME NEW d \in A PROVE \E j \in 1 .. n : t[j] = d
  <2>1. PICK x \in S : d = <<u, x>>
    BY <1>7
  <2>2. PICK j \in 1 .. n : s[j] = x
    BY <1>3 DEF ListsOnce
  <2> QED BY <1>8, <2>1, <2>2
<1>12. ListsOnce(t, A)
  BY <1>9, <1>10, <1>11 DEF ListsOnce
<1> QED BY <1>5, <1>12 DEF A

LEMMA EdgesListed ==
    ASSUME BufferFits, NEW buf, HoldsGraph(buf)
    PROVE  ListsOnce(edges(buf), ArcsTo(buf, N))
<1> DEFINE n == N
           seqs == ArcListed(buf)
           X == Nodes \X Nodes
<1>1. n \in Nat
  BY StorageAssumption
<1>2. \A i \in 1 .. n : ListsOnce(seqs[i], ArcsOf(buf, i))
  BY ArcsAreListed
<1>3. seqs \in Seq(Seq(X)) /\ Len(seqs) = n
  <2>1. \A i \in 1 .. n : seqs[i] \in Seq(X)
    <3> TAKE i \in 1 .. n
    <3>1. seqs[i] \in Seq(ArcsOf(buf, i)) /\ ArcsOf(buf, i) \subseteq X
      BY <1>2 DEF ListsOnce, ArcsOf
    <3>2. Seq(ArcsOf(buf, i)) \subseteq Seq(X)
      BY <3>1, SeqMonotonic
    <3> QED BY <3>1, <3>2
  <2>2. seqs \in [1 .. n -> Seq(X)]
    BY <2>1 DEF ArcListed
  <2> HIDE DEF n, seqs, X
  <2> QED BY <1>1, <2>2
<1>4. edges(buf) = FlattenSeq(seqs)
  BY DEF edges, ArcListed
<1> HIDE DEF n, seqs, X
<1>5. PICK g : Appends(g, n, seqs, X) /\ FlattenSeq(seqs) = g[n]
  BY <1>3, FlattenAppends
<1>6. /\ g[0] = <<>> /\ g \in [0 .. n -> Seq(X)]
      /\ \A i \in 1 .. n : g[i] = g[i-1] \o seqs[i]
  BY <1>5 DEF Appends
<1> DEFINE T == {i \in 0 .. n : ListsOnce(g[i], ArcsTo(buf, i))}
<1>7. 0 \in T
  <2>1. ArcsTo(buf, 0) = {}
    BY DEF ArcsTo, Nodes
  <2>2. ListsOnce(g[0], ArcsTo(buf, 0))
    BY <1>6, <2>1, ListsNothing
  <2> QED BY <1>1, <2>2
<1>8. ASSUME NEW i \in 1 .. n, i-1 \in T PROVE i \in T
  <2> DEFINE a == g[i-1]
             b == seqs[i]
             A == ArcsTo(buf, i-1)
             B == ArcsOf(buf, i)
  <2>1. ListsOnce(a, A) /\ ListsOnce(b, B) /\ g[i] = a \o b
    BY <1>2, <1>6, <1>8
  <2>2. i \in Nat /\ N \in Nat /\ \A d \in Nodes \X Nodes : d[1] \in Int
    BY <1>1, NodesAreSlots DEF Nodes
  <2>3. A \cap B = {}
    BY <2>2 DEF ArcsTo, ArcsOf
  <2>4. A \cup B = ArcsTo(buf, i)
    <3>1. \A d \in Nodes \X Nodes : d[1] < i <=> d[1] < i-1 \/ d[1] = i-1
      BY <2>2
    <3> QED BY <3>1 DEF ArcsTo, ArcsOf
  <2> HIDE DEF a, b, A, B
  <2>5. ListsOnce(a \o b, A \cup B)
    BY <2>1, <2>3, ConcatListsOnce
  <2>6. ListsOnce(g[i], ArcsTo(buf, i))
    BY <2>1, <2>4, <2>5
  <2> QED BY <1>1, <2>6
<1>9. \A i \in 0 .. n : i \in T
  <2> HIDE DEF T
  <2> QED BY <1>1, <1>7, <1>8, UpTo
<1>10. ListsOnce(g[n], ArcsTo(buf, n))
  BY <1>1, <1>9
<1> QED BY <1>4, <1>5, <1>10 DEF n

LEMMA ArcsAreEdges ==
    ASSUME NEW buf, HoldsGraph(buf)
    PROVE  /\ \A d \in ArcsTo(buf, N) : /\ d[1] \in Nodes /\ d[2] \in Nodes /\ d[2] < d[1]
                                        /\ {d[1], d[2]} \in EdgesOf(buf)
           /\ \A c, d \in ArcsTo(buf, N) : {c[1], c[2]} = {d[1], d[2]} => c = d
           /\ \A e \in EdgesOf(buf) : \E d \in ArcsTo(buf, N) : e = {d[1], d[2]}
<1>0. N \in Nat /\ \A u \in Nodes : u \in Int /\ u < N /\ u \in Slots
  BY NodesAreSlots DEF Nodes
<1>1. ASSUME NEW d \in ArcsTo(buf, N)
      PROVE  /\ d[1] \in Nodes /\ d[2] \in Nodes /\ d[2] < d[1] /\ d = <<d[1], d[2]>>
             /\ {d[1], d[2]} \in EdgesOf(buf)
  <2>1. d[1] \in Nodes /\ d[2] \in Nodes /\ d[2] <= d[1] /\ get_bit(buf, d[1], d[2])
        /\ d = <<d[1], d[2]>>
    BY DEF ArcsTo
  <2>2. d[1] # d[2]
    BY <1>0, <2>1 DEF HoldsGraph
  <2>3. {d[1], d[2]} \in EdgesOf(buf)
    BY <2>1, BitIsEdge
  <2> QED BY <1>0, <2>1, <2>2, <2>3
<1>2. ASSUME NEW c \in ArcsTo(buf, N), NEW d \in ArcsTo(buf, N), {c[1], c[2]} = {d[1], d[2]}
      PROVE  c = d
  <2>1. /\ c[2] < c[1] /\ c[1] \in Int /\ c[2] \in Int /\ c = <<c[1], c[2]>>
        /\ d[2] < d[1] /\ d[1] \in Int /\ d[2] \in Int /\ d = <<d[1], d[2]>>
    BY <1>0, <1>1
  <2>2. (c[1] = d[1] /\ c[2] = d[2]) \/ (c[1] = d[2] /\ c[2] = d[1])
    <3>1. c[1] \in {d[1], d[2]} /\ c[2] \in {d[1], d[2]} /\ d[1] \in {c[1], c[2]}
          /\ d[2] \in {c[1], c[2]}
      BY <1>2
    <3> QED BY <3>1
  <2> QED BY <2>1, <2>2
<1>3. ASSUME NEW e \in EdgesOf(buf) PROVE \E d \in ArcsTo(buf, N) : e = {d[1], d[2]}
  <2>1. PICK u, v \in Nodes : e = {u, v} /\ get_bit(buf, u, v)
    BY EdgesByBits
  <2>2. get_bit(buf, v, u)
    BY <1>0, <2>1 DEF HoldsGraph
  <2>3. CASE v <= u
    <3>1. <<u, v>> \in ArcsTo(buf, N)
      BY <1>0, <2>1, <2>3 DEF ArcsTo
    <3> QED BY <2>1, <3>1
  <2>4. CASE u <= v
    <3>1. <<v, u>> \in ArcsTo(buf, N)
      BY <1>0, <2>2, <2>4 DEF ArcsTo
    <3>2. e = {v, u}
      BY <2>1
    <3> QED BY <3>1, <3>2
  <2>5. u \in Int /\ v \in Int
    BY <1>0
  <2> QED BY <2>3, <2>4, <2>5
<1> QED BY <1>1, <1>2, <1>3

LEMMA EdgesNamed ==
    ASSUME BufferFits, NEW buf, HoldsGraph(buf)
    PROVE  /\ IsEdgeRange(edges(buf))
           /\ Named(edges(buf), Len(edges(buf))) = EdgesOf(buf)
           /\ Len(edges(buf)) = Cardinality(EdgesOf(buf))
<1> DEFINE s == edges(buf)
           n == Len(s)
           A == ArcsTo(buf, N)
           E == EdgesOf(buf)
           f == [d \in A |-> {d[1], d[2]}]
<1>1. ListsOnce(s, A)
  BY EdgesListed
<1>2. /\ \A d \in A : d[1] \in Nodes /\ d[2] \in Nodes /\ d[2] < d[1] /\ {d[1], d[2]} \in E
      /\ \A c, d \in A : {c[1], c[2]} = {d[1], d[2]} => c = d
      /\ \A e \in E : \E d \in A : e = {d[1], d[2]}
  BY ArcsAreEdges
<1>3. \A u \in Nodes : u \in Int
  BY DEF Nodes
<1> HIDE DEF s, A, E
<1>4. n \in Nat /\ \A i \in 1 .. n : s[i] \in A
  BY <1>1, LenProperties DEF ListsOnce
<1>5. IsEdgeRange(s)
  <2>1. ASSUME NEW i \in 1 .. n
        PROVE  s[i][1] \in Nodes /\ s[i][2] \in Nodes /\ s[i][1] # s[i][2]
    <3> DEFINE d == s[i]
    <3>1. d \in A
      BY <1>4
    <3> HIDE DEF d
    <3>2. d[1] \in Nodes /\ d[2] \in Nodes /\ d[2] < d[1]
      BY <1>2, <3>1
    <3>3. d[1] \in Int /\ d[2] \in Int
      BY <1>3, <3>2
    <3>4. d[1] # d[2]
      BY <3>2, <3>3
    <3> QED BY <3>2, <3>4 DEF d
  <2> QED BY <1>4, <2>1 DEF IsEdgeRange
<1>6. Named(s, n) = E
  <2>1. \A i \in 1 .. n : {s[i][1], s[i][2]} \in E
    BY <1>2, <1>4
  <2>2. ASSUME NEW e \in E PROVE \E i \in 1 .. n : e = {s[i][1], s[i][2]}
    <3>1. PICK d \in A : e = {d[1], d[2]}
      BY <1>2
    <3>2. PICK i \in 1 .. n : s[i] = d
      BY <1>1 DEF ListsOnce
    <3> QED BY <3>1, <3>2
  <2> QED BY <2>1, <2>2 DEF Named
<1>7. f \in Bijection(A, E)
  BY <1>2 DEF Bijection, Injection, Surjection, IsInjective
<1>8. IsFiniteSet(A) /\ Cardinality(A) = n
  BY <1>1, ListedOnceCount
<1>9. Cardinality(A) = Cardinality(E)
  BY <1>7, <1>8, FS_Bijection DEF ExistsBijection
<1> QED BY <1>5, <1>6, <1>8, <1>9 DEF s, E
-----------------------------------------------------------------------------
(***************************************************************************)
(* count_ones is the degree.                                               *)
(***************************************************************************)
LEMMA DegreeCounted ==
    ASSUME BufferFits, NEW buf, HoldsGraph(buf), NEW u \in Nodes
    PROVE  count_ones(buf, u) = Cardinality({e \in EdgesOf(buf) : u \in e})
<1> DEFINE s == iterate_set_bits(buf, u)
           R == InRow(buf, u)
           E == {e \in EdgesOf(buf) : u \in e}
           f == [v \in R |-> {u, v}]
<1>1. u \in Slots /\ buf \in Buffers
  BY NodesAreSlots DEF HoldsGraph
<1>2. Lists(s, R) /\ count_ones(buf, u) = Len(s)
  BY <1>1, RowIsListed
<1>3. ListsOnce(s, R)
  <2> HIDE DEF s, R
  <2> QED BY <1>2, ListsIsOnce
<1>4. IsFiniteSet(R) /\ Cardinality(R) = Len(s)
  <2> HIDE DEF s, R
  <2> QED BY <1>3, ListedOnceCount
<1>5. ASSUME NEW v \in R PROVE v \in Nodes /\ v # u /\ {u, v} \in E
  <2>1. v \in Nodes /\ v # u /\ get_bit(buf, u, v)
    BY <1>1 DEF InRow, HoldsGraph
  <2>2. {u, v} \in EdgesOf(buf)
    BY <2>1, BitIsEdge
  <2> QED BY <2>1, <2>2
<1>6. ASSUME NEW e \in E PROVE \E v \in R : e = {u, v}
  <2>1. PICK a, b \in Nodes : e = {a, b} /\ get_bit(buf, a, b)
    BY EdgesByBits
  <2>2. u = a \/ u = b
    BY <2>1
  <2>3. a \in Slots /\ b \in Slots
    BY NodesAreSlots
  <2>4. get_bit(buf, b, a)
    BY <2>1, <2>3 DEF HoldsGraph
  <2>5. u = a => b \in R /\ e = {u, b}
    BY <2>1, <2>3 DEF InRow
  <2>6. u = b => a \in R /\ e = {u, a}
    BY <2>1, <2>3, <2>4 DEF InRow
  <2> QED BY <2>2, <2>5, <2>6
<1> HIDE DEF R, E
<1>7. f \in Bijection(R, E)
  <2>1. f \in [R -> E]
    BY <1>5
  <2>2. \A v, w \in R : f[v] = f[w] => v = w
    <3> TAKE v, w \in R
    <3> HAVE f[v] = f[w]
    <3>1. {u, v} = {u, w} /\ v # u /\ w # u
      BY <1>5
    <3> QED BY <3>1
  <2>3. \A e \in E : \E v \in R : f[v] = e
    BY <1>6
  <2> HIDE DEF f
  <2> QED BY <2>1, <2>2, <2>3 DEF Bijection, Injection, Surjection, IsInjective
<1>8. Cardinality(R) = Cardinality(E)
  BY <1>4, <1>7, FS_Bijection DEF ExistsBijection
<1> QED BY <1>2, <1>4, <1>8 DEF E

-----------------------------------------------------------------------------
(***************************************************************************)
(* permuted is the graph under its new names.                              *)
(***************************************************************************)
IsRenaming(p) == p \in [Nodes -> Nodes] /\ \A u, v \in Nodes : p[u] = p[v] => u = v

LEMMA RenamesItsEdges ==
    ASSUME BufferFits, NEW buf, HoldsGraph(buf), NEW p, IsRenaming(p)
    PROVE  /\ HoldsGraph(Permuted(buf, p))
           /\ EdgesOf(Permuted(buf, p)) = {{p[u] : u \in e} : e \in EdgesOf(buf)}
<1> DEFINE s == edges(buf)
           n == Len(s)
           t == [i \in 1 .. n |-> <<p[s[i][1]], p[s[i][2]]>>]
           E == EdgesOf(buf)
<1>1. IsEdgeRange(s) /\ Named(s, n) = E
  BY EdgesNamed
<1>2. n \in Nat /\ \A i \in 1 .. n : s[i][1] \in Nodes /\ s[i][2] \in Nodes /\ s[i][1] # s[i][2]
  BY <1>1 DEF IsEdgeRange
<1>3. Permuted(buf, p) = AddEdges(NewBuffer, t).buffer
  BY DEF Permuted
<1> HIDE DEF s, n, E
<1>4. \A i \in 1 .. n : t[i][1] = p[s[i][1]] /\ t[i][2] = p[s[i][2]]
  OBVIOUS
<1>5. Len(t) = n
  <2>1. t \in [1 .. n -> Nodes \X Nodes]
    BY <1>2 DEF IsRenaming
  <2> HIDE DEF t
  <2>2. t \in Seq(Nodes \X Nodes)
    BY <1>2, <2>1
  <2> QED BY <1>2, <2>1, <2>2
<1> HIDE DEF t
<1>6. IsEdgeRange(t)
  <2>1. ASSUME NEW i \in 1 .. n
        PROVE  t[i][1] \in Nodes /\ t[i][2] \in Nodes /\ t[i][1] # t[i][2]
    BY <1>2, <1>4 DEF IsRenaming
  <2> QED BY <1>2, <1>5, <2>1 DEF IsEdgeRange
<1>7. /\ HoldsGraph(AddEdges(NewBuffer, t).buffer)
      /\ EdgesOf(AddEdges(NewBuffer, t).buffer) = EdgesOf(NewBuffer) \cup Named(t, Len(t))
  BY <1>6, NewIsEmpty, AddsTheirEdges
<1>8. EdgesOf(Permuted(buf, p)) = Named(t, n)
  BY <1>3, <1>5, <1>7, NewIsEmpty
<1>9. Named(t, n) = {{p[u] : u \in e} : e \in Named(s, n)}
  <2>1. \A i \in 1 .. n : {t[i][1], t[i][2]} = {p[u] : u \in {s[i][1], s[i][2]}}
    BY <1>4
  <2> DEFINE renamed(e) == {p[u] : u \in e}
             old(i) == {s[i][1], s[i][2]}
             new(i) == {t[i][1], t[i][2]}
  <2>2. \A i \in 1 .. n : new(i) = renamed(old(i))
    BY <2>1
  <2> HIDE DEF renamed, old, new
  <2>3. {new(i) : i \in 1 .. n} = {renamed(e) : e \in {old(i) : i \in 1 .. n}}
    BY <2>2
  <2> QED BY <2>3 DEF Named, renamed, old, new
<1> QED BY <1>1, <1>3, <1>7, <1>8, <1>9 DEF E

LEMMA RenamedBits ==
    ASSUME BufferFits, NEW buf, HoldsGraph(buf), NEW p, IsRenaming(p),
           NEW u \in Nodes, NEW v \in Nodes
    PROVE  get_bit(Permuted(buf, p), p[u], p[v]) <=> get_bit(buf, u, v)
<1> DEFINE q == Permuted(buf, p)
<1>1. p[u] \in Nodes /\ p[v] \in Nodes
  BY DEF IsRenaming
<1>2. HoldsGraph(q) /\ EdgesOf(q) = {{p[w] : w \in e} : e \in EdgesOf(buf)}
  BY RenamesItsEdges
<1> HIDE DEF q
<1>3. {p[u], p[v]} \in EdgesOf(q) <=> get_bit(q, p[u], p[v])
  BY <1>1, <1>2, BitIsEdge
<1>4. {u, v} \in EdgesOf(buf) <=> get_bit(buf, u, v)
  BY BitIsEdge
<1>5. ASSUME {u, v} \in EdgesOf(buf) PROVE {p[u], p[v]} \in EdgesOf(q)
  <2>1. {p[u], p[v]} = {p[w] : w \in {u, v}}
    OBVIOUS
  <2> QED BY <1>2, <1>5, <2>1
<1>6. ASSUME {p[u], p[v]} \in EdgesOf(q) PROVE {u, v} \in EdgesOf(buf)
  <2>1. PICK e \in EdgesOf(buf) : {p[u], p[v]} = {p[w] : w \in e}
    BY <1>2, <1>6
  <2>2. e \subseteq Nodes
    BY EdgesFinite
  <2>3. \A w \in e : w = u \/ w = v
    <3> TAKE w \in e
    <3>1. p[w] \in {p[u], p[v]} /\ w \in Nodes
      BY <2>1, <2>2
    <3> QED BY <3>1 DEF IsRenaming
  <2>4. u \in e /\ v \in e
    <3>1. PICK a \in e : p[a] = p[u]
      BY <2>1
    <3>2. PICK b \in e : p[b] = p[v]
      BY <2>1
    <3>3. a = u /\ b = v
      BY <2>2, <3>1, <3>2 DEF IsRenaming
    <3> QED BY <3>3
  <2>5. e = {u, v}
    BY <2>3, <2>4
  <2> QED BY <2>5
<1> QED BY <1>3, <1>4, <1>5, <1>6 DEF q

\* The rotation and the swap that the calls are made with are renamings.
LEMMA RenamingsRename ==
    ASSUME NEW p \in Renamings
    PROVE  IsRenaming(p)
<1>1. N \in Nat /\ \A u : u \in Nodes <=> u \in Int /\ 0 <= u /\ u < N
  BY StorageAssumption DEF Nodes
<1>2. CASE p = [u \in Nodes |-> (u + 1) % N]
  <2>1. \A u \in Nodes : p[u] = IF u + 1 = N THEN 0 ELSE u + 1
    <3> TAKE u \in Nodes
    <3>1. N \in Nat \ {0} /\ u + 1 \in 0 .. N
      BY <1>1
    <3>2. (u + 1) % N = IF u + 1 = N THEN 0 ELSE u + 1
      BY <3>1
    <3> QED BY <1>2, <3>2
  <2>2. \A u \in Nodes : p[u] \in Nodes
    BY <1>1, <2>1
  <2>3. \A u, v \in Nodes : p[u] = p[v] => u = v
    BY <1>1, <2>1
  <2> QED BY <1>2, <2>2, <2>3 DEF IsRenaming
<1>3. CASE p = [u \in Nodes |-> IF u < 2 /\ N > 1 THEN 1 - u ELSE u]
  <2>1. \A u \in Nodes : p[u] = IF u < 2 /\ N > 1 THEN 1 - u ELSE u
    BY <1>3
  <2>2. \A u \in Nodes : p[u] \in Nodes
    BY <1>1, <2>1
  <2>3. \A u, v \in Nodes : p[u] = p[v] => u = v
    BY <1>1, <2>1
  <2> QED BY <1>3, <2>2, <2>3 DEF IsRenaming
<1> QED BY <1>2, <1>3 DEF Renamings

-----------------------------------------------------------------------------
(***************************************************************************)
(* The calls.                                                              *)
(***************************************************************************)
Inv == HoldsGraph(buffer) /\ returned \in Nat

\* INSTANCE brings a Cardinality of its own.
LEMMA SameCardinality == \A S : Graph!Cardinality(S) = Cardinality(S)
  BY DEF Graph!Cardinality, Cardinality

LEMMA PairIsPair ==
    ASSUME NEW u \in Nodes, NEW v \in Nodes, u # v
    PROVE  {u, v} \in Graph!Pairs
<1>1. IsFiniteSet({u}) /\ Cardinality({u}) = 1
  BY FS_Singleton
<1>2. {u, v} = {u} \cup {v}
  OBVIOUS
<1>3. Cardinality({u} \cup {v}) = 2
  BY <1>1, FS_AddElement
<1>4. Graph!Cardinality({u, v}) = 2
  BY <1>2, <1>3, SameCardinality
<1> QED BY <1>4 DEF Graph!Pairs, Graph!Nodes, Nodes

\* The edges of a path walked up and back down.
NamesJust(range, E) == IsEdgeRange(range) /\ Named(range, Len(range)) = E

LEMMA PathNamed ==
    ASSUME NEW u \in Nodes, NEW v \in Nodes, NEW w \in Nodes, Cardinality({u, v, w}) = 3
    PROVE  /\ NamesJust(PathRange(u, v, w), {{u, v}, {v, w}})
           /\ {{u, v}, {v, w}} \in SUBSET Graph!Pairs
<1>1. u # v /\ v # w
  <2>1. \A a, b : Cardinality({a, b}) <= 2
    <3> TAKE a, b
    <3>1. IsFiniteSet({a}) /\ Cardinality({a}) = 1
      BY FS_Singleton
    <3>2. {a, b} = {a} \cup {b}
      OBVIOUS
    <3>3. Cardinality({a} \cup {b}) = IF b \in {a} THEN Cardinality({a}) ELSE Cardinality({a}) + 1
      BY <3>1, FS_AddElement
    <3> QED BY <3>1, <3>2, <3>3
  <2>2. u = v => {u, v, w} = {u, w}
    OBVIOUS
  <2>3. v = w => {u, v, w} = {u, v}
    OBVIOUS
  <2>4. ASSUME NEW S, S = {u, w} \/ S = {u, v} PROVE Cardinality(S) # 3
    <3>1. Cardinality({u, w}) <= 2 /\ Cardinality({u, v}) <= 2
      BY <2>1
    <3>2. Cardinality({u, w}) # 3 /\ Cardinality({u, v}) # 3
      BY <3>1
    <3> QED BY <2>4, <3>2
  <2> QED BY <2>2, <2>3, <2>4
<1> DEFINE r == PathRange(u, v, w)
<1>2. /\ Len(r) = 4
      /\ r[1] = <<u, v>> /\ r[2] = <<v, w>> /\ r[3] = <<w, v>> /\ r[4] = <<v, u>>
  BY DEF PathRange
<1> HIDE DEF r
<1>3. \A i \in 1 .. 4 : i = 1 \/ i = 2 \/ i = 3 \/ i = 4
  OBVIOUS
<1>4. IsEdgeRange(r)
  BY <1>1, <1>2, <1>3 DEF IsEdgeRange
<1>5. Named(r, Len(r)) = {{u, v}, {v, w}}
  <2>1. ASSUME NEW i \in 1 .. 4
        PROVE  {r[i][1], r[i][2]} = {u, v} \/ {r[i][1], r[i][2]} = {v, w}
    BY <1>2, <1>3
  <2>2. {r[1][1], r[1][2]} = {u, v} /\ {r[2][1], r[2][2]} = {v, w}
    BY <1>2
  <2> QED BY <1>2, <2>1, <2>2 DEF Named
<1>6. {u, v} \in Graph!Pairs /\ {v, w} \in Graph!Pairs
  BY <1>1, PairIsPair
<1> QED BY <1>4, <1>5, <1>6 DEF r, NamesJust
LEMMA EdgeSetIsEdgesOf == EdgeSet = EdgesOf(buffer) /\ EdgeSet' = EdgesOf(buffer')
  BY DEF EdgeSet, EdgesOf

LEMMA AddEdgeCalled ==
    ASSUME BufferFits, Inv, NEW u \in Nodes, NEW v \in Nodes, add_edge(u, v)
    PROVE  Inv' /\ Graph!Next
<1>1. u # v /\ buffer' = AddEdge(buffer, u, v) /\ returned' = AsNumber(has_edge(buffer, u, v))
  BY DEF add_edge
<1>2. HoldsGraph(buffer) /\ {u, v} \in Graph!Pairs
  BY <1>1, PairIsPair DEF Inv
<1>3. HoldsGraph(buffer') /\ EdgeSet' = EdgeSet \cup {{u, v}}
  BY <1>1, <1>2, AddsOneEdge, EdgeSetIsEdgesOf
<1>4. {u, v} \in EdgeSet <=> get_bit(buffer, u, v)
  BY <1>2, BitIsEdge, EdgeSetIsEdgesOf
<1>5. returned' = IF {u, v} \in EdgeSet THEN 1 ELSE 0
  BY <1>1, <1>4 DEF AsNumber, has_edge
<1>6. Graph!add_edge({u, v})
  BY <1>3, <1>5 DEF Graph!add_edge
<1>7. Graph!Next
  BY <1>2, <1>6 DEF Graph!Next
<1>8. returned' \in Nat
  BY <1>5
<1> QED BY <1>3, <1>7, <1>8 DEF Inv

LEMMA RemoveEdgeCalled ==
    ASSUME BufferFits, Inv, NEW u \in Nodes, NEW v \in Nodes, remove_edge(u, v)
    PROVE  Inv' /\ Graph!Next
<1>1. u # v /\ buffer' = RemoveEdge(buffer, u, v) /\ returned' = AsNumber(has_edge(buffer, u, v))
  BY DEF remove_edge
<1>2. HoldsGraph(buffer) /\ {u, v} \in Graph!Pairs
  BY <1>1, PairIsPair DEF Inv
<1>3. HoldsGraph(buffer') /\ EdgeSet' = EdgeSet \ {{u, v}}
  BY <1>1, <1>2, RemovesOneEdge, EdgeSetIsEdgesOf
<1>4. {u, v} \in EdgeSet <=> get_bit(buffer, u, v)
  BY <1>2, BitIsEdge, EdgeSetIsEdgesOf
<1>5. returned' = IF {u, v} \in EdgeSet THEN 1 ELSE 0
  BY <1>1, <1>4 DEF AsNumber, has_edge
<1>6. Graph!remove_edge({u, v})
  BY <1>3, <1>5 DEF Graph!remove_edge
<1>7. Graph!Next
  BY <1>2, <1>6 DEF Graph!Next
<1>8. returned' \in Nat
  BY <1>5
<1> QED BY <1>3, <1>7, <1>8 DEF Inv

LEMMA AddEdgesCalled ==
    ASSUME BufferFits, Inv, NEW u \in Nodes, NEW v \in Nodes, NEW w \in Nodes,
           Cardinality({u, v, w}) = 3, add_edges(PathRange(u, v, w))
    PROVE  Inv' /\ Graph!Next
<1> DEFINE r == PathRange(u, v, w)
           E == {{u, v}, {v, w}}
           result == AddEdges(buffer, r)
<1>1. buffer' = result.buffer /\ returned' = result.count
  BY DEF add_edges
<1>2. IsEdgeRange(r) /\ Named(r, Len(r)) = E /\ E \in SUBSET Graph!Pairs
  <2>1. NamesJust(r, E) /\ E \in SUBSET Graph!Pairs
    BY PathNamed
  <2> QED BY <2>1 DEF NamesJust
<1>3. HoldsGraph(buffer)
  BY DEF Inv
<1> HIDE DEF r, E
<1>4. /\ HoldsGraph(result.buffer)
      /\ EdgesOf(result.buffer) = EdgesOf(buffer) \cup Named(r, Len(r))
      /\ result.count = Cardinality(Named(r, Len(r)) \ EdgesOf(buffer))
  BY <1>2, <1>3, AddsTheirEdges
<1> HIDE DEF result
<1>5. EdgeSet' = EdgeSet \cup E
  BY <1>1, <1>2, <1>4, EdgeSetIsEdgesOf
<1>6. returned' = Cardinality(E \ EdgeSet)
  BY <1>1, <1>2, <1>4, EdgeSetIsEdgesOf
<1>7. returned' \in Nat
  <2>1. IsFiniteSet(E)
    <3>1. IsFiniteSet({{u, v}}) /\ E = {{u, v}} \cup {{v, w}}
      BY FS_Singleton DEF E
    <3> QED BY <3>1, FS_AddElement
  <2>2. IsFiniteSet(E \ EdgeSet)
    BY <2>1, FS_Difference
  <2> QED BY <1>6, <2>2, FS_CardinalityType
<1>8. Graph!add_edges(E)
  BY <1>5, <1>6, SameCardinality DEF Graph!add_edges
<1>9. Graph!Next
  BY <1>2, <1>8 DEF Graph!Next
<1> QED BY <1>1, <1>4, <1>7, <1>9 DEF Inv

LEMMA RemoveEdgesCalled ==
    ASSUME BufferFits, Inv, NEW u \in Nodes, NEW v \in Nodes, NEW w \in Nodes,
           Cardinality({u, v, w}) = 3, remove_edges(PathRange(u, v, w))
    PROVE  Inv' /\ Graph!Next
<1> DEFINE r == PathRange(u, v, w)
           E == {{u, v}, {v, w}}
           result == RemoveEdges(buffer, r)
<1>1. buffer' = result.buffer /\ returned' = result.count
  BY DEF remove_edges
<1>2. IsEdgeRange(r) /\ Named(r, Len(r)) = E /\ E \in SUBSET Graph!Pairs
  <2>1. NamesJust(r, E) /\ E \in SUBSET Graph!Pairs
    BY PathNamed
  <2> QED BY <2>1 DEF NamesJust
<1>3. HoldsGraph(buffer)
  BY DEF Inv
<1> HIDE DEF r, E
<1>4. /\ HoldsGraph(result.buffer)
      /\ EdgesOf(result.buffer) = EdgesOf(buffer) \ Named(r, Len(r))
      /\ result.count = Cardinality(Named(r, Len(r)) \cap EdgesOf(buffer))
  BY <1>2, <1>3, RemovesTheirEdges
<1> HIDE DEF result
<1>5. EdgeSet' = EdgeSet \ E
  BY <1>1, <1>2, <1>4, EdgeSetIsEdgesOf
<1>6. returned' = Cardinality(E \cap EdgeSet)
  BY <1>1, <1>2, <1>4, EdgeSetIsEdgesOf
<1>7. returned' \in Nat
  <2>1. IsFiniteSet(E)
    <3>1. IsFiniteSet({{u, v}}) /\ E = {{u, v}} \cup {{v, w}}
      BY FS_Singleton DEF E
    <3> QED BY <3>1, FS_AddElement
  <2>2. IsFiniteSet(E \cap EdgeSet)
    BY <2>1, FS_Intersection
  <2> QED BY <1>6, <2>2, FS_CardinalityType
<1>8. Graph!remove_edges(E)
  BY <1>5, <1>6, SameCardinality DEF Graph!remove_edges
<1>9. Graph!Next
  BY <1>2, <1>8 DEF Graph!Next
<1> QED BY <1>1, <1>4, <1>7, <1>9 DEF Inv

LEMMA PermutedCalled ==
    ASSUME BufferFits, Inv, NEW p \in Renamings, permuted(p)
    PROVE  Inv' /\ Graph!Next
<1>1. buffer' = Permuted(buffer, p) /\ returned' = 0
  BY DEF permuted
<1>2. HoldsGraph(buffer) /\ IsRenaming(p)
  BY RenamingsRename DEF Inv
<1>3. HoldsGraph(buffer') /\ EdgeSet' = {{p[u] : u \in e} : e \in EdgeSet}
  BY <1>1, <1>2, RenamesItsEdges, EdgeSetIsEdgesOf
<1>4. p \in Graph!NewNames
  BY <1>2 DEF IsRenaming, Graph!NewNames, Graph!Nodes, Nodes
<1>5. Graph!permuted(p)
  BY <1>1, <1>3 DEF Graph!permuted
<1>6. Graph!Next
  BY <1>4, <1>5 DEF Graph!Next
<1> QED BY <1>1, <1>3, <1>6 DEF Inv

LEMMA InvStarts ==
    ASSUME BufferFits, Init
    PROVE  Inv /\ Graph!Init
<1>1. buffer = NewBuffer /\ returned = 0
  BY DEF Init
<1>2. HoldsGraph(buffer) /\ EdgeSet = {}
  BY <1>1, NewIsEmpty, EdgeSetIsEdgesOf
<1> QED BY <1>1, <1>2 DEF Inv, Graph!Init

LEMMA CallsImplemented ==
    ASSUME BufferFits, Inv, [Next]_vars
    PROVE  Inv' /\ [Graph!Next]_<<EdgeSet, returned>>
<1>1. CASE \E u, v \in Nodes : add_edge(u, v)
  BY <1>1, AddEdgeCalled
<1>2. CASE \E u, v \in Nodes : remove_edge(u, v)
  BY <1>2, RemoveEdgeCalled
<1>3. CASE \E u, v, w \in Nodes :
              Cardinality({u, v, w}) = 3 /\ add_edges(PathRange(u, v, w))
  BY <1>3, AddEdgesCalled
<1>4. CASE \E u, v, w \in Nodes :
              Cardinality({u, v, w}) = 3 /\ remove_edges(PathRange(u, v, w))
  BY <1>4, RemoveEdgesCalled
<1>5. CASE \E p \in Renamings : permuted(p)
  BY <1>5, PermutedCalled
<1>6. CASE UNCHANGED vars
  <2>1. buffer' = buffer /\ returned' = returned
    BY <1>6 DEF vars
  <2>2. EdgeSet' = EdgeSet
    BY <2>1, EdgeSetIsEdgesOf
  <2> QED BY <2>1, <2>2 DEF Inv
<1> QED BY <1>1, <1>2, <1>3, <1>4, <1>5, <1>6 DEF Next

LEMMA InvKept ==
    ASSUME BufferFits
    PROVE  Spec => []Inv
<1>1. Init => Inv
  BY InvStarts
<1>2. Inv /\ [Next]_vars => Inv'
  BY CallsImplemented
<1> QED BY <1>1, <1>2, PTL DEF Spec

-----------------------------------------------------------------------------
(***************************************************************************)
(* If the number of bits fits into a node_t, then whatever the calls, no   *)
(* bit behind the rows and columns of the nodes is ever set                *)
(* (adj_matrix.hpp:155-175, naive.hpp:78).                                 *)
(***************************************************************************)
THEOREM NothingIsBeyondNodes ==
    ASSUME BufferFits
    PROVE  Spec => []NothingBeyondNodes
<1>1. Inv => NothingBeyondNodes
  BY DEF Inv, HoldsGraph, Buffers, Slots, NothingBeyondNodes
<1> QED BY <1>1, InvKept, PTL

(***************************************************************************)
(* The two bits of an edge agree, no node is its own neighbour and         *)
(* count_ones of a row is the degree (adj_matrix.hpp:157 and 170,          *)
(* bitspan.hpp count_ones).                                                *)
(***************************************************************************)
THEOREM MatrixIsSymmetric ==
    ASSUME BufferFits
    PROVE  Spec => []Symmetric
<1>1. Inv => Symmetric
  <2> SUFFICES ASSUME Inv, NEW u \in Nodes, NEW v \in Nodes
               PROVE  /\ has_edge(buffer, u, v) = has_edge(buffer, v, u)
                      /\ ~has_edge(buffer, u, u)
                      /\ count_ones(buffer, u) = Cardinality({e \in EdgeSet : u \in e})
    BY DEF Symmetric
  <2>1. HoldsGraph(buffer) /\ u \in Slots /\ v \in Slots
    BY NodesAreSlots DEF Inv
  <2>2. get_bit(buffer, u, v) <=> get_bit(buffer, v, u)
    BY <2>1 DEF HoldsGraph
  <2>3. ~get_bit(buffer, u, u)
    BY <2>1 DEF HoldsGraph
  <2>4. count_ones(buffer, u) = Cardinality({e \in EdgeSet : u \in e})
    BY <2>1, DegreeCounted, EdgeSetIsEdgesOf
  <2> QED BY <2>2, <2>3, <2>4 DEF has_edge, get_bit
<1> QED BY <1>1, InvKept, PTL

(***************************************************************************)
(* edges() yields each edge of the graph exactly once, although it stops   *)
(* each row at the first larger neighbour (adj_matrix.hpp:103-112).        *)
(***************************************************************************)
THEOREM EdgesComeOnce ==
    ASSUME BufferFits
    PROVE  Spec => []EdgesOnce
<1>1. Inv => EdgesOnce
  <2> SUFFICES ASSUME Inv PROVE EdgesOnce
    OBVIOUS
  <2> DEFINE seq == edges(buffer)
  <2>1. HoldsGraph(buffer)
    BY DEF Inv
  <2>2. /\ Named(seq, Len(seq)) = EdgeSet
        /\ Len(seq) = Cardinality(EdgeSet)
    BY <2>1, EdgesNamed, EdgeSetIsEdgesOf
  <2>3. DOMAIN seq = 1 .. Len(seq)
    BY <2>1, EdgesListed, LenProperties DEF ListsOnce
  <2> QED BY <2>2, <2>3 DEF EdgesOnce, Named
<1> QED BY <1>1, InvKept, PTL

(***************************************************************************)
(* permuted yields the isomorphic copy: two nodes are adjacent before      *)
(* exactly if their new names are afterwards (adj_matrix.hpp, permuted).   *)
(***************************************************************************)
THEOREM PermutedIsTheSameGraph ==
    ASSUME BufferFits
    PROVE  Spec => PermutedIsomorphic
<1> DEFINE Copied == \A p \in Renamings : permuted(p) =>
                        \A u, v \in Nodes :
                           has_edge(buffer, u, v) = has_edge(buffer', p[u], p[v])
<1>1. Inv => Copied
  <2> SUFFICES ASSUME Inv, NEW p \in Renamings, permuted(p), NEW u \in Nodes, NEW v \in Nodes
               PROVE  has_edge(buffer, u, v) = has_edge(buffer', p[u], p[v])
    OBVIOUS
  <2>1. HoldsGraph(buffer) /\ IsRenaming(p) /\ buffer' = Permuted(buffer, p)
    BY RenamingsRename DEF Inv, permuted
  <2>2. get_bit(buffer', p[u], p[v]) <=> get_bit(buffer, u, v)
    BY <2>1, RenamedBits
  <2> QED BY <2>2 DEF has_edge, get_bit
<1>2. Inv => [Copied]_vars
  BY <1>1
<1> HIDE DEF Copied
<1>3. Spec => [][Copied]_vars
  BY <1>2, InvKept, PTL
<1> QED BY <1>3 DEF PermutedIsomorphic, Copied

(***************************************************************************)
(* The matrix of words implements a set of edges: each call changes the    *)
(* set as its name says and returns whether, or how many, edges changed.   *)
(***************************************************************************)
THEOREM MatrixImplementsGraph ==
    ASSUME BufferFits
    PROVE  Spec => ImplementsGraph
<1>1. Init => Graph!Init
  BY InvStarts
<1>2. Inv /\ [Next]_vars => [Graph!Next]_<<EdgeSet, returned>>
  BY CallsImplemented
<1> QED BY <1>1, <1>2, InvKept, PTL DEF Spec, ImplementsGraph, Graph!Spec

\* The buffers in B are matrices that keep what is added to them.
KeepsGraph(B) ==
    /\ NewBuffer \in B
    /\ \A x, y \in Slots : ~get_bit(NewBuffer, x, y)
    /\ \A b \in B : \A u, v \in Nodes : u # v =>
          /\ AddEdge(b, u, v) \in B
          /\ \A x, y \in Slots :
                get_bit(AddEdge(b, u, v), x, y) <=> get_bit(b, x, y) \/ {x, y} = {u, v}

(***************************************************************************)
(* A new matrix has no edge, and add_edge adds its edge and no other: the  *)
(* two bits it writes are those of the edge, in every row up to its end    *)
(* (adj_matrix.hpp add_edge, bitspan.hpp set_bit).  devtool builds its     *)
(* instances with these calls (devtool.cpp:54-63).                         *)
(***************************************************************************)
THEOREM MatrixKeepsGraph ==
    ASSUME BufferFits
    PROVE  \E B : KeepsGraph(B)
<1> DEFINE B == {b \in Buffers : HoldsGraph(b)}
<1>1. NewBuffer \in B
  BY NewIsEmpty DEF HoldsGraph
<1>2. \A x, y \in Slots : ~get_bit(NewBuffer, x, y)
  BY OffsetInBuffer DEF get_bit, NewBuffer
<1>3. ASSUME NEW b \in B, NEW u \in Nodes, NEW v \in Nodes, u # v
      PROVE  /\ AddEdge(b, u, v) \in B
             /\ \A x, y \in Slots :
                   get_bit(AddEdge(b, u, v), x, y) <=> get_bit(b, x, y) \/ {x, y} = {u, v}
  <2>1. AddEdge(b, u, v) \in B
    BY <1>3, AddsOneEdge DEF HoldsGraph
  <2>2. u \in Slots /\ v \in Slots
    BY NodesAreSlots
  <2>3. PICK h : h = set_bit(b, u, v)
    OBVIOUS
  <2>4. /\ h \in Buffers
        /\ \A x, y \in Slots : get_bit(h, x, y) <=> get_bit(b, x, y) \/ (x = u /\ y = v)
    BY <2>2, <2>3, SetsOneBit
  <2>5. \A x, y \in Slots : get_bit(AddEdge(b, u, v), x, y) <=> get_bit(h, x, y) \/ (x = v /\ y = u)
    BY <2>2, <2>3, <2>4, SetsOneBit DEF AddEdge
  <2>6. \A x, y : {x, y} = {u, v} <=> (x = u /\ y = v) \/ (x = v /\ y = u)
    OBVIOUS
  <2> QED BY <2>1, <2>4, <2>5, <2>6
<1>4. KeepsGraph(B)
  BY <1>1, <1>2, <1>3 DEF KeepsGraph
<1> QED BY <1>4
=============================================================================
