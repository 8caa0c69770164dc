------------------------- MODULE DevtoolProperties -------------------------
(***************************************************************************)
(* What the tool must make of its arguments and of a file, each stated as  *)
(* a whole.                                                                *)
(***************************************************************************)
EXTENDS Devtool

CONSTANT GetBit(_, _, _, _, _)  \* of the matrix in a storage with n nodes

TakesNext(arg) == arg \in {<<"-n">>, <<"--nodes">>, <<"-i">>, <<"--input">>}

\* The arguments that are not the value of the one before.
Options == CHOOSE S \in SUBSET DOMAIN argv :
              \A i \in DOMAIN argv : i \in S <=> ~(i-1 \in S /\ TakesNext(argv[i-1]))

OptionsNamed(names) == {i \in Options : argv[i][1] \in names}
NodeOptions == OptionsNamed({"-n", "--nodes", "--nodes="})
InputOptions == OptionsNamed({"-i", "--input", "--input="})

ValueOf(i) == IF TakesNext(argv[i]) THEN argv[i+1] ELSE Tail(argv[i])

LegalCommandLine ==
    /\ Options = NodeOptions \cup InputOptions
    /\ \A i \in Options : TakesNext(argv[i]) => i < Len(argv)
    /\ \A i \in NodeOptions : \E name \in DOMAIN NodeLimits : ValueOf(i) = <<name>>

\* The last option of its kind counts.
GivenStorage == IF NodeOptions = {} THEN HeapStorage
                ELSE NodeLimits[ValueOf(Max(NodeOptions))[1]]
GivenInput == IF InputOptions = {} THEN Stdin ELSE ValueOf(Max(InputOptions))

Reads == LegalCommandLine /\ GivenInput \in Readable \cup {Stdin}

LinesOf(type) == {i \in DOMAIN file : file[i].type = type}

\* One header before everything else, its number of edges, every number in its
\* range, no node colored twice.
WellFormed ==
    \E h \in LinesOf("p") :
        LET nodes == 1 .. file[h].args[1]
            Pair(i) == Len(file[i].args) = 2
        IN  /\ LinesOf("p") = {h}
            /\ file[h].keyword = "edge" /\ Pair(h)
            /\ file[h].args[1] >= 0 /\ file[h].args[2] >= 0
            /\ \A i \in DOMAIN file \ LinesOf("c") : i >= h
            /\ DOMAIN file = UNION {LinesOf(t) : t \in {"c", "p", "e", "n"}}
            /\ Cardinality(LinesOf("e")) = file[h].args[2]
            /\ \A i \in LinesOf("e") :
                  Pair(i) /\ file[i].args[1] \in nodes /\ file[i].args[2] \in nodes
            /\ \A i \in LinesOf("n") :
                  Pair(i) /\ file[i].args[1] \in nodes /\ file[i].args[2] >= 1
            /\ \A i, j \in LinesOf("n") : i # j => file[i].args[1] # file[j].args[1]

GivenEdges == {{file[i].args[1] - 1, file[i].args[2] - 1} : i \in LinesOf("e")}

\* Too large for the storage, or with a loop.
Unfit == n > GivenStorage.maxNodes \/ \E e \in GivenEdges : Cardinality(e) = 1

\* No node, or a color above the limit: the library does not promise to work.
Excluded(limit) == n = 0 \/ \E i \in LinesOf("n") : file[i].args[2] > limit

Outcomes ==
    CASE Unfit -> {-1}
      [] ~Unfit /\ asserts -> IF Excluded(n) THEN {Crashed} ELSE {0}
      [] ~Unfit /\ ~asserts ->
            IF Excluded(2^GivenStorage.colorBits) THEN {0, Crashed} ELSE {0}

(***************************************************************************)
(* Nothing is read unless every argument is an option or the value of one  *)
(* and the input exists; the last option of a kind counts, and a value may *)
(* look like an option (devtool_args.hpp:54-109, devtool.cpp:16-36).  The  *)
(* tool refuses exactly the files that are not well-formed, although the   *)
(* parser decides line by line, with the header's counts and a bit per     *)
(* node as its only memory (dimacs_parser.hpp:28-102).  Of the others it   *)
(* returns -1 for those that do not fit the storage or have a loop, which  *)
(* shows only after some of their edges have been added                    *)
(* (devtool.cpp:47-63), and 0 for all the rest, but for what the parser    *)
(* lets through and the library excludes: no node, and colors from the     *)
(* number of nodes on.  With assertions it always dies of those            *)
(* (naive.hpp:67, coloring.hpp:42 and :119); without, it may die of them,  *)
(* but never of colors that the storage keeps (coloring.hpp:127).  All     *)
(* this for matrices whose rows lie in their buffer, see RowsInBuffer.     *)
(***************************************************************************)
ExitCodesRight ==
    /\ file # <<>> => Reads
    /\ pc \notin {"start", "open", "read"} /\ ~(Reads /\ WellFormed) => exitCode = 1
    /\ pc = "exit" /\ Reads /\ WellFormed => exitCode \in Outcomes

(***************************************************************************)
(* What canonize gets is the file's instance in the storage asked for: its *)
(* edges, repeated or in either direction, its colors whatever the order   *)
(* of the lines, labels in color order, and nothing behind the nodes, up   *)
(* to the ends of the rows (devtool.cpp:54-74).  This is for colors that   *)
(* fit the storage; others are narrowed (coloring.hpp:127).                *)
(***************************************************************************)
CanonizesFile ==
    exitCode = 0 =>
        LET bit(u, v) == GetBit(GivenStorage, n, graph, u, v)
            given(u) == {file[i].args[2] - 1 : i \in {j \in LinesOf("n") : file[j].args[1] = u + 1}}
            columns == 0 .. RowCapacity(GivenStorage, n) - 1
        IN  /\ \A u, v \in columns : bit(u, v) <=> {u, v} \in GivenEdges
            /\ {coloring.label[p] : p \in 0 .. n-1} = 0 .. n-1
            /\ (\A i \in LinesOf("n") : file[i].args[2] <= 2^GivenStorage.colorBits) =>
                  /\ \A u \in 0 .. n-1 : IF given(u) = {} THEN coloring.color[u] = 0
                                         ELSE given(u) = {coloring.color[u]}
                  /\ \A p \in 1 .. n-1 :
                        coloring.color[coloring.label[p-1]] <= coloring.color[coloring.label[p]]

(***************************************************************************)
(* The assertion coloring.hpp:119 of set_color: the color is less than the *)
(* number of nodes.                                                        *)
(***************************************************************************)
ColorsLegal == pc = "build" /\ NextNode \in 0 .. n-1 => colors[NextNode] < n
=============================================================================
