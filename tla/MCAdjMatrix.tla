---------------------------- MODULE MCAdjMatrix ----------------------------
EXTENDS AdjMatrixApi, Graph6

\* A graph written in graph6: bit v(v-1)/2 + u is the pair u < v, characters
\* are filled from the left, the last one with `padding'.
ShortHeader(n) == <<n>>
LongHeader(n) == <<Tilde, 0, n \div 2^CharBits, n % 2^CharBits>>

Body(n, edgeSet, padding) ==
    LET pairs == PairsInOrder(n)
        bit(k) == IF k > Len(pairs) THEN padding
                  ELSE AsNumber({pairs[k][1], pairs[k][2]} \in edgeSet)
        value(c) == FoldLeft(LAMBDA sum, i : 2 * sum + bit((c-1) * CharBits + i), 0,
                             [i \in 1 .. CharBits |-> i])
    IN  [c \in 1 .. (Len(pairs) + CharBits - 1) \div CharBits |-> value(c)]

Blank == -31    \* the codes of a space, a tab and a carriage return, less 63
Tab == -54
Return == -50

(***************************************************************************)
(* The parser reads back every graph: each edge once whatever the padding  *)
(* and the header, and hands on the rest of the line.  A text that is cut  *)
(* off or has an invalid character anywhere is refused, so the generator   *)
(* never reads past its end (parser.hpp:68-88, 91-119).                    *)
(***************************************************************************)
ReadsBack ==
    \A header \in {ShortHeader(N), LongHeader(N)}, padding \in {0, 1} :
        LET text == header \o Body(N, EdgeSet, padding)
            read == parse_graph6(text \o <<Blank, 0>>)
        IN  /\ read.valid /\ read.n = N /\ read.remainder = <<Blank, 0>>
            /\ Len(read.edges) = Cardinality(EdgeSet)
            /\ {{e[1], e[2]} : e \in ToSet(read.edges)} = EdgeSet
            /\ \A i \in DOMAIN text :
                  /\ ~parse_graph6(SubSeq(text, 1, i-1)).valid
                  /\ \A c \in {-1, 2^CharBits} : ~parse_graph6([text EXCEPT ![i] = c]).valid

-----------------------------------------------------------------------------
\* Rows of one word, the largest of two, as AdjMatrix8 to AdjMatrix128 have them,
\* and a heap whose rows may have more.
MCStorages == {[maxNodes |-> k, word |-> k, colorBits |-> 4] : k \in {1, 2, 4}}
                \cup {[maxNodes |-> 8, word |-> 4, colorBits |-> 4]}

Data == INSTANCE Dataset WITH FixedStorages <- MCStorages, HeapWord <- 2

Cycle(n) == {e \in {{u, (u + 1) % n} : u \in 0 .. n-1} : Cardinality(e) = 2}

\* One graph below, at and above the size of each storage.
SizedGraphs == [i \in 1 .. 7 |->
    LET n == <<0, 1, 2, 3, 5, 8, 9>>[i]
    IN  [n |-> n, edges |-> Cycle(n), name |-> <<>>]]

LineOf(g) == (IF g.n < 9 THEN ShortHeader(g.n) ELSE LongHeader(g.n))
                \o Body(g.n, g.edges, 0) \o <<Blank>> \o g.name \o <<Tab, Return>>

\* What follows the current graph in its line has blanks within and around.
Current == [n |-> N, edges |-> EdgeSet, name |-> <<5, Blank, 6>>]

\* Lines that hold no graph: empty, blank, cut off, indented.
BadLines == <<<<>>, <<Return>>, ShortHeader(N) \o Tail(Body(N, EdgeSet, 0)), <<Blank>> \o LineOf(Current)>>

(***************************************************************************)
(* Of a file with unusable lines between the others every graph is read,   *)
(* in order, with its name and in the smallest storage with room for it,   *)
(* and the bits of its matrix are its edges, up to the ends of the rows    *)
(* (parser.hpp:28-38, 121-164).                                            *)
(***************************************************************************)
DatasetReads ==
    LET graphs == <<Current>> \o SizedGraphs \o <<Current>>
        lines == FlattenSeq([i \in DOMAIN graphs |->
                                <<LineOf(graphs[i]), BadLines[(i % Len(BadLines)) + 1]>>])
        read == Data!read_graph_dataset(lines)
    IN  /\ Len(read) = Len(graphs)
        /\ \A i \in DOMAIN read :
              LET g == read[i]
                  columns == 0 .. Data!RowCapacity(g.storage, g.n) - 1
              IN  /\ g.n = graphs[i].n /\ g.name = graphs[i].name
                  /\ g.n <= g.storage.maxNodes
                  /\ \A s \in MCStorages : g.n <= s.maxNodes => g.storage.maxNodes <= s.maxNodes
                  /\ \A u, v \in columns :
                        Data!Matrix(g.storage, g.n)!get_bit(g.buffer, u, v)
                            <=> {u, v} \in graphs[i].edges

-----------------------------------------------------------------------------
Span(w) == INSTANCE BitSpan WITH Word <- w

\* The row as a set of columns, and mirrored, so that every word is reached.
Row(u) == {v \in 0 .. Capacity-1 : get_bit(buffer, u, v)}
Mirrored(bits) == {Capacity-1 - v : v \in bits}

Packed(bits, w) ==
    [k \in 0 .. Capacity \div w - 1 |->
        FoldSet(LAMBDA b, sum : sum + 2^(b % w), 0, {b \in bits : b \div w = k})]

(***************************************************************************)
(* The arithmetic on masks and words does to every row what the sets say,  *)
(* in words of each width a row may have, and a row of one word has the    *)
(* mask that BitSpan<T, 1> uses (bitspan.hpp:16-23, 50-123, 150-212).      *)
(* assign_bit and all_unset are included, which only tests call.        *)
(***************************************************************************)
SpanAgrees ==
    \A u \in Nodes, w \in {1, 2, 4, 8} : \A bits \in {Row(u), Mirrored(Row(u))} :
        LET words == Packed(bits, w)
        IN  /\ Span(w)!count_ones(words) = Cardinality(bits)
            /\ Span(w)!all_unset(words) <=> bits = {}
            /\ Span(w)!iterate_set_bits(words) = SetToSortSeq(bits, <)
            /\ \A b \in 0 .. Capacity-1 :
                  /\ Span(w)!get_bit(words, b) <=> b \in bits
                  /\ Span(w)!set_bit(words, b) = Packed(bits \cup {b}, w)
                  /\ Span(w)!unset_bit(words, b) = Packed(bits \ {b}, w)
                  /\ Span(w)!assign_bit(words, b, 0) = Packed(bits \ {b}, w)
                  /\ Span(w)!assign_bit(words, b, 1) = Packed(bits \cup {b}, w)
                  /\ w = Capacity =>
                        Span(w)!offset_and_mask(b) = [offset |-> 0, mask |-> Span(w)!mask_of(b)]
=============================================================================
