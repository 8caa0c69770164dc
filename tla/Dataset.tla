------------------------------ MODULE Dataset ------------------------------
(***************************************************************************)
(* Files of graphs, one to a line (parser.hpp): what read_dataset and      *)
(* read_graph_dataset yield for a sequence of lines.  Characters are       *)
(* numbers as in Graph6.                                                   *)
(***************************************************************************)
EXTENDS StoredMatrix, Graph6

\* " \t\n\r\f\v", each code less 63.
Whitespace == {-31, -54, -53, -50, -51, -52}

trim_whitespace(text) ==
    LET kept == {i \in DOMAIN text : text[i] \notin Whitespace}
    IN  IF kept = {} THEN <<>> ELSE SubSeq(text, Min(kept), Max(kept))

\* Lines that do not parse are passed over.
read_dataset(lines) ==
    FlattenSeq([i \in DOMAIN lines |->
        LET parsed == parse_graph6(lines[i])
        IN  IF parsed.valid
            THEN <<[n |-> parsed.n, edges |-> parsed.edges,
                    name |-> trim_whitespace(parsed.remainder)]>>
            ELSE <<>>])

\* A faulty form, for the mutants: a full storage is passed over.
StorageAbove(n) ==
    LET fitting == {s \in FixedStorages : n < s.maxNodes}
    IN  IF fitting = {} THEN HeapStorage
        ELSE CHOOSE s \in fitting : \A t \in fitting : s.maxNodes <= t.maxNodes

\* The chain of comparisons: the first storage with room for n nodes.
StorageFor(n) ==
    LET fitting == {s \in FixedStorages : n <= s.maxNodes}
    IN  IF fitting = {} THEN HeapStorage
        ELSE CHOOSE s \in fitting : \A t \in fitting : s.maxNodes <= t.maxNodes

\* make_adj_matrix; for the heap the same loop is written out.
Built(storage, n, edges) ==
    Matrix(storage, n)!AddEdges(Matrix(storage, n)!NewBuffer, edges).buffer

GraphOf(g) ==
    LET storage == StorageFor(g.n)
    IN  [name |-> g.name, n |-> g.n, storage |-> storage,
         buffer |-> Built(storage, g.n, g.edges)]

read_graph_dataset(lines) ==
    LET graphs == read_dataset(lines)
    IN  [i \in DOMAIN graphs |-> GraphOf(graphs[i])]
=============================================================================
