------------------------------ MODULE BitSpan ------------------------------
(***************************************************************************)
(* The bits of a row as bitspan.hpp computes them: a word is a number, a   *)
(* span a function from 0 to words.  Operators on one word take its mask;  *)
(* the form for rows of several words finds word and mask itself, the form *)
(* for a single word (BitSpan<T, 1>) has only a mask to find.              *)
(***************************************************************************)
EXTENDS Integers, FiniteSetsExt, SequencesExt, Bitwise

CONSTANT Word           \* BITS_PER_WORD

Ones(w) == {i \in 0 .. Word-1 : (w \div 2^i) % 2 = 1}
Complement(w) == 2^Word - 1 - w

\* Of one word: whether the bit was set, and what is stored.
Has(w, mask) == w & mask # 0
With(w, mask) == w | mask
Without(w, mask) == w & Complement(mask)
\* A faulty form, for the mutants: the bit is never cleared.
AssignedAbove(w, mask, v) == w | (v * mask)
Assigned(w, mask, v) == (w & Complement(mask)) | (v * mask)

\* The free function iterate_set_bits: v & (v-1) removes the lowest bit.
RECURSIVE LowestFirst(_)
LowestFirst(v) == IF v = 0 THEN <<>> ELSE <<Min(Ones(v))>> \o LowestFirst(v & (v - 1))

-----------------------------------------------------------------------------
mask_of(i) == 2^i % 2^Word

offset_and_mask(i) == [offset |-> i \div Word, mask |-> 2^(i % Word) % 2^Word]

get_bit(words, i) == LET at == offset_and_mask(i) IN Has(words[at.offset], at.mask)

set_bit(words, i) ==
    LET at == offset_and_mask(i) IN [words EXCEPT ![at.offset] = With(@, at.mask)]

unset_bit(words, i) ==
    LET at == offset_and_mask(i) IN [words EXCEPT ![at.offset] = Without(@, at.mask)]

assign_bit(words, i, v) ==
    LET at == offset_and_mask(i) IN [words EXCEPT ![at.offset] = Assigned(@, at.mask, v)]

count_ones(words) == MapThenSumSet(LAMBDA k : Cardinality(Ones(words[k])), DOMAIN words)

all_unset(words) == \A k \in DOMAIN words : words[k] = 0

iterate_set_bits(words) ==
    FlattenSeq([k \in 1 .. Cardinality(DOMAIN words) |->
        LET bits == LowestFirst(words[k-1])
        IN  [j \in DOMAIN bits |-> (k-1) * Word + bits[j]]])
=============================================================================
