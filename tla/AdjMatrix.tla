----------------------------- MODULE AdjMatrix -----------------------------
(***************************************************************************)
(* The adjacency matrix as it is stored (adj_matrix.hpp, bitspan.hpp): one *)
(* linear buffer of words, `row_capacity' bits for each row.  A word is    *)
(* the set of its one bits.                                                *)
(***************************************************************************)
EXTENDS Integers, FiniteSets, SequencesExt

CONSTANTS N,            \* num_nodes()
          Word,         \* kBitsPerWord
          Capacity,     \* row_capacity()
          NodeBits      \* the width of node_t

\* The constructor's assertions, and the comment on row_capacity.
ASSUME StorageAssumption ==
    /\ N \in Nat /\ NodeBits \in Nat
    /\ Word \in Nat \ {0} /\ Capacity \in Nat \ {0}
    /\ Capacity % Word = 0
    /\ N <= Capacity

Nodes == 0 .. N-1

WordsPerRow == Capacity \div Word

\* The number of bits is computed as a node_t.
Indices == 0 .. ((Capacity * Capacity) % 2^NodeBits) \div Word - 1

\* make_unique and the initializer of std::array zero the buffer.
NewBuffer == [i \in Indices |-> {}]

-----------------------------------------------------------------------------
(***************************************************************************)
(* Bits of a row (BitSpan)                                                 *)
(***************************************************************************)

\* The word of row u that holds bit v, and the position of v in it.
Offset(u, v) == u * WordsPerRow + v \div Word

Bit(v) == v % Word

get_bit(buf, u, v) == Bit(v) \in buf[Offset(u, v)]

\* A faulty form, for the mutants: columns counted from 1.
set_bit_from_one(buf, u, v) ==
    [buf EXCEPT ![Offset(u, v + 1)] = @ \cup {Bit(v + 1)}]
set_bit(buf, u, v) == [buf EXCEPT ![Offset(u, v)] = @ \cup {Bit(v)}]

\* A faulty form, for the mutants: the rest of the word is lost.
clear_word(buf, u, v) == [buf EXCEPT ![Offset(u, v)] = {}]
unset_bit(buf, u, v) == [buf EXCEPT ![Offset(u, v)] = @ \ {Bit(v)}]

\* The one bits of a word, the lowest first.
Ascending(S) ==
    [j \in 1 .. Cardinality(S) |-> CHOOSE b \in S : Cardinality({c \in S : c < b}) = j-1]

\* iterate_set_bits: word by word.
iterate_set_bits(buf, u) ==
    FlattenSeq([i \in 1 .. WordsPerRow |->
        LET bits == Ascending(buf[u * WordsPerRow + i-1])
        IN  [j \in 1 .. Len(bits) |-> (i-1) * Word + bits[j]]])

count_ones(buf, u) ==
    LET sum[i \in 0 .. WordsPerRow] ==
            IF i = 0 THEN 0 ELSE sum[i-1] + Cardinality(buf[u * WordsPerRow + i-1])
    IN  sum[WordsPerRow]

-----------------------------------------------------------------------------
(***************************************************************************)
(* Edges                                                                   *)
(***************************************************************************)
has_edge(buf, u, v) == get_bit(buf, u, v)

neighbors_of(buf, u) == iterate_set_bits(buf, u)

\* A faulty form, for the mutants: without the break.
edges_both_ways(buf) ==
    FlattenSeq([i \in 1 .. N |->
        [j \in 1 .. Len(neighbors_of(buf, i-1)) |-> <<i-1, neighbors_of(buf, i-1)[j]>>]])

\* The part of a sequence before its first entry that is larger than u.
UpToLarger(seq, u) == SubSeq(seq, 1, Cardinality({j \in DOMAIN seq : \A i \in 1 .. j : seq[i] <= u}))

\* For each u its neighbours up to the first that is larger.
edges(buf) ==
    FlattenSeq([i \in 1 .. N |->
        LET below == UpToLarger(neighbors_of(buf, i-1), i-1)
        IN  [j \in 1 .. Len(below) |-> <<i-1, below[j]>>]])

\* A faulty form, for the mutants: only one direction is written.
AddArc(buf, u, v) == set_bit(buf, u, v)

\* Both directions; the call returns whether the edge was there.
AddEdge(buf, u, v) == set_bit(set_bit(buf, u, v), v, u)
RemoveEdge(buf, u, v) == unset_bit(unset_bit(buf, u, v), v, u)

\* add_edges and remove_edges: the buffer and the number of edges changed.
AddEdges(buf, range) ==
    LET after[i \in 0 .. Len(range)] ==
            IF i = 0 THEN [buffer |-> buf, count |-> 0]
            ELSE LET s == after[i-1]
                     u == range[i][1]
                     v == range[i][2]
                 IN  [buffer |-> AddEdge(s.buffer, u, v),
                      count  |-> s.count + IF has_edge(s.buffer, u, v) THEN 0 ELSE 1]
    IN  after[Len(range)]
RemoveEdges(buf, range) ==
    LET after[i \in 0 .. Len(range)] ==
            IF i = 0 THEN [buffer |-> buf, count |-> 0]
            ELSE LET s == after[i-1]
                     u == range[i][1]
                     v == range[i][2]
                 IN  [buffer |-> RemoveEdge(s.buffer, u, v),
                      count  |-> s.count + IF has_edge(s.buffer, u, v) THEN 1 ELSE 0]
    IN  after[Len(range)]

\* A faulty form, for the mutants: one end keeps its name.
PermutedRows(buf, p) ==
    LET seq == edges(buf)
    IN  AddEdges(NewBuffer, [i \in 1 .. Len(seq) |-> <<p[seq[i][1]], seq[i][2]>>]).buffer

\* permuted(new_id_of): the edges under their new names in a new matrix.
Permuted(buf, p) ==
    LET seq == edges(buf)
    IN  AddEdges(NewBuffer, [i \in 1 .. Len(seq) |-> <<p[seq[i][1]], p[seq[i][2]]>>]).buffer
=============================================================================
