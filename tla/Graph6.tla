------------------------------- MODULE Graph6 -------------------------------
(***************************************************************************)
(* The graph6 parser (parser.hpp).  A character is the number it stands    *)
(* for, its code less 63; the valid ones are those of `CharBits' bits.     *)
(***************************************************************************)
EXTENDS Integers, SequencesExt

CONSTANT CharBits       \* 6 in the code; fewer let small graphs span characters

ASSUME CharBitsAssumption == CharBits \in Nat \ {0}

Values == 0 .. 2^CharBits - 1
Tilde == 2^CharBits - 1

Valid(text) == \A i \in DOMAIN text : text[i] \in Values

Invalid == [valid |-> FALSE]

\* The number of nodes, and how many characters told it.
parse_graph6_size(text) ==
    IF text = <<>> THEN Invalid
    ELSE IF text[1] # Tilde
    THEN IF Valid(<<text[1]>>) THEN [valid |-> TRUE, n |-> text[1], offset |-> 1] ELSE Invalid
    ELSE IF Len(text) < 4 \/ text[2] = Tilde \/ ~Valid(SubSeq(text, 2, 4)) THEN Invalid
    ELSE [valid |-> TRUE, offset |-> 4,
          n |-> FoldLeft(LAMBDA k, c : k * 2^CharBits + c, 0, SubSeq(text, 2, 4))]

\* The pairs in the order of their bits: <<0, 1>>, <<0, 2>>, <<1, 2>>, <<0, 3>>, ...
PairsInOrder(n) == FlattenSeq([k \in 1 .. n |-> [i \in 1 .. k-1 |-> <<i-1, k-1>>]])

\* A faulty form, for the mutants: a character is dropped with its last bit.
NextBitEarly(s, text) ==
    IF s.remaining <= 1
    THEN [s EXCEPT !.index = @ + 1, !.remaining = CharBits-1, !.value = text[s.index + 1]]
    ELSE [s EXCEPT !.remaining = @ - 1]

\* Characters are taken up when their first bit is needed, highest bit first.
NextBit(s, text) ==
    IF s.remaining = 0
    THEN [s EXCEPT !.index = @ + 1, !.remaining = CharBits-1, !.value = text[s.index + 1]]
    ELSE [s EXCEPT !.remaining = @ - 1]

parse_graph6_edges(text, n) ==
    FoldLeft(LAMBDA s, uv :
                 LET t == NextBit(s, text)
                 IN  IF (t.value \div 2^t.remaining) % 2 # 0
                     THEN [t EXCEPT !.yielded = Append(@, uv)] ELSE t,
             [index |-> 0, remaining |-> 0, value |-> 0, yielded |-> <<>>],
             PairsInOrder(n)).yielded

EdgeChars(n) == ((n * (n-1)) \div 2 + CharBits - 1) \div CharBits

\* The size, the edges and what follows them in the text.
parse_graph6(text) ==
    LET size == parse_graph6_size(text)
        body == SubSeq(text, size.offset + 1, Len(text))
        bits == SubSeq(body, 1, EdgeChars(size.n))
    IN  IF ~size.valid THEN Invalid
        ELSE IF Len(body) < EdgeChars(size.n) \/ ~Valid(bits) THEN Invalid
        ELSE [valid |-> TRUE, n |-> size.n, edges |-> parse_graph6_edges(bits, size.n),
              remainder |-> SubSeq(body, EdgeChars(size.n) + 1, Len(body))]
=============================================================================
