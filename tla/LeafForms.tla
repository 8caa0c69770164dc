----------------------------- MODULE LeafForms -----------------------------
(***************************************************************************)
(* The special forms of reorder_graph and compare_matrix for the storages  *)
(* of 8 and 16 nodes (reorder.hpp, compare_leaves.hpp).  They work on the  *)
(* whole storage: 8 rows of 8 bits in one 64-bit word, or 16 lanes of 16   *)
(* bits, whatever the number of nodes.  A word is the set of its one bits. *)
(***************************************************************************)
EXTENDS Leaves

Xor(a, b) == (a \ b) \cup (b \ a)
ShiftRight(a, k) == {i - k : i \in {j \in a : j >= k}}
ShiftLeft(a, k, width) == {i + k : i \in {j \in a : j + k < width}}

\* The label buffer behind the nodes: zero as constructed; the vectorised
\* refinements store the disabled lanes there.
Paddings(W) == {[p \in N .. W-1 |-> 0], [p \in N .. W-1 |-> p]}

-----------------------------------------------------------------------------
(***************************************************************************)
(* 8 nodes: one word.                                                      *)
(***************************************************************************)
Word8(g) == {8 * e[1] + e[2] : e \in {d \in Nodes \X Nodes : d[2] \in g[d[1]]}}

\* Swap the blocks off the diagonal, of 1, 2 and 4 rows.
SwapBlocks(x, k, mask) ==
    LET t == Xor(x, ShiftRight(x, k)) \cap mask
    IN  Xor(Xor(x, t), ShiftLeft(t, k, 64))

\* The masks 0x00AA00AA00AA00AA, 0x0000CCCC0000CCCC and 0x00000000F0F0F0F0.
BlockMask(size) ==
    {i \in 0 .. 63 : (i \div (8 * size)) % 2 = 0 /\ (i \div size) % 2 = 1}

\* A faulty form, for the mutants: the last swap is missing.
TransposeWordTwice(x) == SwapBlocks(SwapBlocks(x, 7, BlockMask(1)), 14, BlockMask(2))

TransposeWord(x) ==
    SwapBlocks(SwapBlocks(SwapBlocks(x, 7, BlockMask(1)), 14, BlockMask(2)), 28, BlockMask(4))

\* _mm_shuffle_pi8: row p of the result is row label[p].
ShuffleBytes(x, label) ==
    {i \in 0 .. 63 : 8 * label[i \div 8] + (i % 8) \in x}

ReorderWord(x, label) == ShuffleBytes(TransposeWord(ShuffleBytes(x, label)), label)

\* A faulty form, for the mutants: the rows behind the nodes are kept.
CompareMaskedColumns(x, y) ==
    LET mask == {i \in 0 .. 63 : i % 8 < N}
    IN  WordOrder(x \cap mask, y \cap mask)

CompareMaskedWords(x, y) ==
    LET mask == {i \in 0 .. 63 : i % 8 < N /\ i < 8 * N}
    IN  WordOrder(x \cap mask, y \cap mask)

-----------------------------------------------------------------------------
(***************************************************************************)
(* 16 nodes: a register of 16 lanes.                                       *)
(***************************************************************************)
Lanes == 0 .. 15

Rows16(g) == [u \in Lanes |-> IF u \in Nodes THEN g[u] ELSE {}]

\* i & stride = 0, and i ^ stride.
LowerHalf(i, stride) == (i \div stride) % 2 = 0
Partner(i, stride) == IF LowerHalf(i, stride) THEN i + stride ELSE i - stride

TransposeStage(rows, stride) ==
    LET lower(i) == Xor(ShiftRight(rows[i], stride), rows[Partner(i, stride)])
                        \cap {b \in Lanes : LowerHalf(b, stride)}
    IN  [i \in Lanes |-> IF LowerHalf(i, stride)
                         THEN Xor(rows[i], ShiftLeft(lower(i), stride, 16))
                         ELSE Xor(rows[i], lower(Partner(i, stride)))]

TransposeRows(rows) ==
    TransposeStage(TransposeStage(TransposeStage(TransposeStage(rows, 8), 4), 2), 1)

SwizzleRows(rows, label) == [p \in Lanes |-> rows[label[p]]]

ReorderRows(rows, label) == SwizzleRows(TransposeRows(SwizzleRows(rows, label)), label)

\* Both comparisons of all lanes at once; the first lane they tell apart.
CompareLanes(a, b) ==
    LET row(rows, u) == IF u \in Nodes THEN rows[u] \cap Nodes ELSE {}
        le   == {u \in Lanes : WordOrder(row(a, u), row(b, u)) # Greater}
        ge   == {u \in Lanes : WordOrder(row(a, u), row(b, u)) # Less}
    IN  IF le = ge THEN Equal ELSE IF Min(Xor(le, ge)) \in le THEN Less ELSE Greater

-----------------------------------------------------------------------------
(***************************************************************************)
(* The forms on a graph and a discrete coloring, and what they stand for.  *)
(***************************************************************************)
Padded(label, padding) ==
    [p \in Positions \cup DOMAIN padding |-> IF p \in Positions THEN label[p] ELSE padding[p]]

LeafWord(g, k, padding) == ReorderWord(Word8(g), Padded(k.label, padding))
LeafRows(g, k, padding) == ReorderRows(Rows16(g), Padded(k.label, padding))

\* Within the nodes the special forms hold the matrix of the generic one, in
\* the storages with room for them.
ReorderedAlike(g, k) ==
    LET leaf == ReorderGraph(g, k)
        onNodes == {8 * e[1] + e[2] : e \in Nodes \X Nodes}
    IN  /\ N <= 8 => \A pad \in Paddings(8) : LeafWord(g, k, pad) \cap onNodes = Word8(leaf)
        /\ N <= 16 => \A pad \in Paddings(16) :
              \A u \in Nodes : LeafRows(g, k, pad)[u] \cap Nodes = leaf[u]

\* The special comparisons of two leaves of g are those of the clean matrices.
ComparedAlike(g, k0, k1) ==
    LET leaf0 == ReorderGraph(g, k0)
        leaf1 == ReorderGraph(g, k1)
    IN  /\ N <= 8 => \A pad \in Paddings(8) :
              CompareMaskedWords(LeafWord(g, k0, pad), LeafWord(g, k1, pad))
                 = CompareWord(leaf0, leaf1)
        /\ N <= 16 => \A pad \in Paddings(16) :
              CompareLanes(LeafRows(g, k0, pad), LeafRows(g, k1, pad))
                 = CompareRows(leaf0, leaf1)
=============================================================================
