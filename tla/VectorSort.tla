----------------------------- MODULE VectorSort -----------------------------
(***************************************************************************)
(* sort (simd/sort.hpp): a bitonic sort of several vector registers on top *)
(* of the networks for one.  A register is a function from lanes to words, *)
(* an array a sequence of registers.                                       *)
(***************************************************************************)
EXTENDS SortNetwork

\* merge_layer_batch: lane i meets lane i ^ stride.
MergeLayer(batch, stride, ascending) ==
    LET Low(i) == (i \div stride) % 2 = 0
        Partner(i) == IF Low(i) THEN i + stride ELSE i - stride
    IN  [i \in DOMAIN batch |->
            IF Low(i) = ascending THEN Smaller(batch[i], batch[Partner(i)])
            ELSE Larger(batch[i], batch[Partner(i)])] @@ batch

\* merge_single_batch, for up to 16 lanes.
MergeBatch(batch, ascending) ==
    FoldLeft(LAMBDA b, stride : IF stride < Cardinality(DOMAIN b)
                                THEN MergeLayer(b, stride, ascending) ELSE b,
             batch, <<8, 4, 2, 1>>)

FirstHalf(vecs) == SubSeq(vecs, 1, Len(vecs) \div 2)
SecondHalf(vecs) == SubSeq(vecs, Len(vecs) \div 2 + 1, Len(vecs))

\* xs::min and xs::max of two registers.
Lanewise(Pick(_, _), a, b) == [i \in DOMAIN a |-> Pick(a[i], b[i])] @@ a

RECURSIVE MergeVecs(_, _)
MergeVecs(vecs, ascending) ==
    IF Len(vecs) = 1 THEN <<MergeBatch(vecs[1], ascending)>>
    ELSE LET low  == FirstHalf(vecs)
             high == SecondHalf(vecs)
             min  == [i \in 1 .. Len(low) |-> Lanewise(Smaller, low[i], high[i])]
             max  == [i \in 1 .. Len(low) |-> Lanewise(Larger, low[i], high[i])]
         IN  IF ascending THEN MergeVecs(min, ascending) \o MergeVecs(max, ascending)
             ELSE MergeVecs(max, ascending) \o MergeVecs(min, ascending)

RECURSIVE SortVecs(_, _)
SortVecs(vecs, ascending) ==
    IF Len(vecs) = 1
    THEN <<SortBatch(Cardinality(DOMAIN vecs[1]), ascending, vecs[1])>>
    ELSE MergeVecs(SortVecs(FirstHalf(vecs), TRUE) \o SortVecs(SecondHalf(vecs), FALSE),
                   ascending)
=============================================================================
