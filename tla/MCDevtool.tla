----------------------------- MODULE MCDevtool -----------------------------
EXTENDS DevtoolProperties, StoredMatrix

Coloring(k) == INSTANCE Coloring WITH N <- k

MCEmptyGraph(storage, k) == Matrix(storage, k)!NewBuffer
MCWithEdge(storage, k, buffer, u, v) == Matrix(storage, k)!AddEdge(buffer, u, v)
MCGetBit(storage, k, buffer, u, v) == Matrix(storage, k)!get_bit(buffer, u, v)
MCEmptyColoring(k) == Coloring(k)!NewColoring
MCWithColor(k, col, u, c) == Coloring(k)!SetColor(col, u, c)

(***************************************************************************)
(* The comment adj_matrix.hpp:218 on the heap storage: its buffer has room *)
(* for at least as many rows as there are nodes.                           *)
(***************************************************************************)
RowsInBuffer ==
    pc = "build" => \A u, v \in 0 .. n-1 :
        Matrix(option.nodes, n)!Offset(u, v) \in DOMAIN graph

\* An eighth of the nodes and words of AdjMatrix8 to AdjMatrix128.
Fixed(nodes, word) == [maxNodes |-> nodes, word |-> word, colorBits |-> 5]
MCNodeLimits ==
    [name \in {"8", "16", "32", "64", "128", "h", "H"} |->
        CASE name = "8" -> Fixed(1, 1) [] name = "16" -> Fixed(2, 2)
          [] name = "32" -> Fixed(4, 4) [] name = "64" -> Fixed(8, 8)
          [] name = "128" -> Fixed(16, 8) [] OTHER -> HeapStorage]
MCStorages == {Fixed(1, 1), Fixed(2, 2), Fixed(4, 4), Fixed(8, 8), Fixed(16, 8)}

\* Each storage, options repeated, attached and in both orders, an option as
\* the value of another, and values that are missing, unknown or left over.
MCCommandLines ==
    {<<>>,
     <<<<"-n">>, <<"32">>>>,
     <<<<"--nodes=", "8">>, <<"--nodes">>, <<"16">>>>,
     <<<<"-i">>, <<"-n">>, <<"--nodes=", "128">>>>,
     <<<<"--nodes=", "64">>, <<"--input=", "nowhere">>, <<"--input">>, <<"file">>>>,
     <<<<"-n">>, <<"H">>, <<"-i">>, <<"nowhere">>>>,
     <<<<"--input=", "">>>>,
     <<<<"-n">>, <<"64">>, <<"-n">>>>,
     <<<<"-n">>, <<"--nodes=", "8">>>>,
     <<<<"--nodes=", "7">>>>,
     <<<<"-i">>>>,
     <<<<"-n">>, <<"8">>, <<"16">>>>,
     <<<<"-n">>, <<"8">>, <<"-h">>>>,
     <<<<"file">>, <<"-n">>, <<"8">>>>}
MCReadable == {<<"-n">>, <<"file">>}

Line(type, args) == [type |-> type, args |-> args]
Header(keyword, args) == [type |-> "p", keyword |-> keyword, args |-> args]

\* Headers of no nodes, a storage partly used, full and too small; loops,
\* repeated edges, colors above the nodes; numbers missing, left over and out
\* of range.
MCLines ==
    {Header("edge", a) : a \in {<<0, 0>>, <<2, 1>>, <<2, 2>>, <<4, 2>>, <<5, 0>>,
                                <<-1, 0>>, <<2, -1>>, <<2>>, <<2, 1, 1>>}}
        \cup {Header("col", <<2, 1>>), Line("c", <<>>), Line("x", <<1, 2>>)}
        \cup {Line("e", a) : a \in {<<1, 2>>, <<2, 1>>, <<1, 1>>, <<4, 2>>,
                                    <<0, 1>>, <<1, 0>>, <<1>>, <<1, 2, 1>>}}
        \cup {Line("n", a) : a \in {<<1, 1>>, <<1, 2>>, <<2, 1>>, <<2, 9>>, <<2, 33>>, <<4, 2>>,
                                    <<0, 1>>, <<1, 0>>, <<1>>, <<1, 2, 1>>}}
=============================================================================
