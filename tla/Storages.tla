------------------------------ MODULE Storages ------------------------------
(***************************************************************************)
(* Where graphs and colorings are kept: AdjMatrix8 to AdjMatrix128 and     *)
(* AdjMatrixHeap (adj_matrix.hpp) with their MatchedColoring               *)
(* (coloring.hpp).  A storage is a record of                               *)
(*    maxNodes    kMaxNodes,                                               *)
(*    word        kBitsPerWord,                                            *)
(*    colorBits   the width of scolor_t.                                   *)
(***************************************************************************)
EXTENDS Integers, FiniteSetsExt

CONSTANTS FixedStorages,  \* those without a heap
          HeapWord,       \* kBitsPerWord of HeapStorage
          NodeBits        \* the width of node_t and color_t

ASSUME StoragesAssumption ==
    /\ NodeBits \in Nat /\ HeapWord \in Nat \ {0}
    /\ \A s \in FixedStorages :
          /\ s.maxNodes \in Nat /\ s.word \in Nat \ {0} /\ s.maxNodes % s.word = 0
          /\ 2^s.colorBits - 1 >= s.maxNodes

HeapStorage == [maxNodes |-> 2^NodeBits - 1, word |-> HeapWord, colorBits |-> NodeBits]

\* std::bit_ceil
BitCeil(n) == 2^Min({i \in 0 .. NodeBits : 2^i >= n})

HeapCapacity(n) == Max({HeapWord, BitCeil(n)})

RowCapacity(storage, n) ==
    IF storage = HeapStorage THEN HeapCapacity(n) ELSE storage.maxNodes

\* A color as the storage keeps it.
Narrowed(storage, c) == c % 2^storage.colorBits
=============================================================================
