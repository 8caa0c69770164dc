--------------------------- MODULE VectorSortApi ---------------------------
(***************************************************************************)
(* One array of words in registers, sorted in place.  sort<N> sorts groups *)
(* of N words when N is at most a register, and the whole array otherwise. *)
(***************************************************************************)
EXTENDS VectorSort

CONSTANT Shapes     \* records of vectors, lanes, items (N) and ascending

VARIABLES shape, input, vecs, pc

vars == <<shape, input, vecs, pc>>

\* Networks of minima and maxima commute with thresholds: they treat words as
\* they treat each of the bits "at least t", so bits are enough.
Bits == {<<0, 0>>, <<0, 1>>}

Init == /\ shape \in Shapes
        /\ input \in [1 .. shape.vectors -> [0 .. shape.lanes-1 -> Bits]]
        /\ vecs = input
        /\ pc = "loaded"

SortRegister ==
    /\ pc = "loaded"
    /\ shape.vectors = 1
    /\ vecs' = <<SortBatch(shape.items, shape.ascending, vecs[1])>>
    /\ pc' = "sorted"
    /\ UNCHANGED <<shape, input>>

SortRegisters ==
    /\ pc = "loaded"
    /\ shape.vectors > 1
    /\ vecs' = SortVecs(vecs, shape.ascending)
    /\ pc' = "sorted"
    /\ UNCHANGED <<shape, input>>

Next == SortRegister \/ SortRegisters

Spec == Init /\ [][Next]_vars

-----------------------------------------------------------------------------
WordAt(v, i) == v[(i \div shape.lanes) + 1][i % shape.lanes]
Indices == 0 .. shape.vectors * shape.lanes - 1
SameGroup(i, j) == i \div shape.items = j \div shape.items

(***************************************************************************)
(* Every group comes out in order with the words it went in with: the      *)
(* networks of sort_single_batch.hpp:77-108 sort every input, in either    *)
(* direction and in every group of a register, and the bitonic merge of    *)
(* sort.hpp:94-111 puts registers together.                                *)
(***************************************************************************)
SortsEveryInput ==
    pc = "sorted" =>
        /\ \A i, j \in Indices : i < j /\ SameGroup(i, j) =>
              IF shape.ascending THEN ~Below(WordAt(vecs, j), WordAt(vecs, i))
              ELSE ~Below(WordAt(vecs, i), WordAt(vecs, j))
        /\ \A i \in Indices :
              Cardinality({j \in Indices : SameGroup(i, j) /\ WordAt(vecs, j) = <<0, 1>>})
            = Cardinality({j \in Indices : SameGroup(i, j) /\ WordAt(input, j) = <<0, 1>>})
=============================================================================
