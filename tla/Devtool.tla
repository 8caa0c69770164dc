------------------------------ MODULE Devtool ------------------------------
(***************************************************************************)
(* The command line tool (cli/devtool.cpp): options select a storage and   *)
(* an input, a DIMACS file is read line by line (cli/dimacs_parser.hpp),   *)
(* then the instance is built in that storage and canonized.               *)
(*                                                                         *)
(* A line is a record of its type, "c" for comments and blank lines, and   *)
(* the numbers that follow the type, one too few or too many included; a   *)
(* header also has its keyword.                                            *)
(***************************************************************************)
EXTENDS DevtoolArgs

CONSTANTS CommandLines, \* the arguments the tool may be called with
          Readable,     \* the inputs that can be opened
          Lines,        \* the lines a file may consist of
          MaxLines,     \* bound: the lines of a file
          EmptyGraph(_, _), WithEdge(_, _, _, _, _), \* AdjMatrix, in a storage with n nodes
          EmptyColoring(_), WithColor(_, _, _, _)     \* Coloring, of n nodes

\* An argument is one part, or two if a value is attached.  A line has numbers.
ASSUME InputAssumption ==
    /\ \A args \in CommandLines :
          /\ args \in Seq(Seq(STRING))
          /\ \A i \in DOMAIN args :
                \/ Len(args[i]) = 1
                \/ Len(args[i]) = 2 /\ args[i][1] \in {"--nodes=", "--input="}
    /\ \A line \in Lines : line.args \in Seq(Int)
    /\ MaxLines \in Nat

VARIABLES asserts,                                      \* is the tool built without NDEBUG?
          argv, option,                                 \* of main
          file,         \* history: the lines read so far
          hasHeader, n, m, edges, colors, hasColor,     \* locals of parse_dimacs
          graph, coloring,                              \* of process_instance
          done,         \* iterations of its loops over edges and nodes
          pc,           \* "start", "open", "read", "process", "build" or "exit"
          exitCode      \* Running until main returns, Crashed if it never does

arguments == <<asserts, argv, option>>
parser == <<hasHeader, n, m, edges, colors, hasColor>>
containers == <<graph, coloring, done>>
vars == <<arguments, file, parser, containers, pc, exitCode>>

\* No value that main returns.
Running == 256
Crashed == 257

Init == /\ asserts \in BOOLEAN
        /\ argv \in CommandLines /\ option = NewOptions
        /\ file = <<>>
        /\ hasHeader = FALSE /\ n = 0 /\ m = 0
        /\ edges = <<>> /\ colors = <<>> /\ hasColor = <<>>
        /\ graph = <<>> /\ coloring = <<>> /\ done = 0
        /\ pc = "start" /\ exitCode = Running

Exit(code) == pc' = "exit" /\ exitCode' = code

-----------------------------------------------------------------------------
(***************************************************************************)
(* main and read_instance, up to the first line                            *)
(***************************************************************************)
ParseOptions == /\ pc = "start"
                /\ Legal(parse_options(argv))
                /\ option' = parse_options(argv)
                /\ pc' = "open"
                /\ UNCHANGED <<asserts, argv, file, parser, containers, exitCode>>

RejectOptions == /\ pc = "start"
                 /\ ~Legal(parse_options(argv))
                 /\ Exit(1)
                 /\ UNCHANGED <<arguments, file, parser, containers>>

CanOpen == option.input = Stdin \/ option.input \in Readable

OpenInput == /\ pc = "open" /\ CanOpen
             /\ pc' = "read"
             /\ UNCHANGED <<arguments, file, parser, containers, exitCode>>

RejectInput == /\ pc = "open" /\ ~CanOpen
               /\ Exit(1)
               /\ UNCHANGED <<arguments, file, parser, containers>>

-----------------------------------------------------------------------------
(***************************************************************************)
(* parse_dimacs                                                            *)
(***************************************************************************)
LegalHeader(line) ==
    /\ line.type = "p"
    /\ ~hasHeader
    /\ line.keyword = "edge"
    /\ Len(line.args) = 2
    /\ line.args[1] >= 0 /\ line.args[2] >= 0

LegalEdge(line) ==
    /\ line.type = "e"
    /\ hasHeader
    /\ Len(line.args) = 2
    /\ line.args[1] \in 1 .. n /\ line.args[2] \in 1 .. n
    /\ Len(edges) < m

\* A faulty form, for the mutants: a node may be colored again.
LegalColorAgain(line) ==
    /\ line.type = "n"
    /\ hasHeader
    /\ Len(line.args) = 2
    /\ line.args[1] \in 1 .. n /\ line.args[2] >= 1

LegalColor(line) ==
    /\ line.type = "n"
    /\ hasHeader
    /\ Len(line.args) = 2
    /\ line.args[1] \in 1 .. n /\ line.args[2] >= 1
    /\ ~hasColor[line.args[1] - 1]

GetLine(line) == /\ pc = "read" /\ Len(file) < MaxLines
                 /\ file' = Append(file, line)
                 /\ UNCHANGED <<arguments, containers>>

SkipLine(line) == /\ GetLine(line)
                  /\ line.type = "c"
                  /\ UNCHANGED <<parser, pc, exitCode>>

ReadHeader(line) ==
    /\ GetLine(line)
    /\ LegalHeader(line)
    /\ hasHeader' = TRUE
    /\ n' = line.args[1] /\ m' = line.args[2]
    /\ colors' = [u \in 0 .. n'-1 |-> 0]
    /\ hasColor' = [u \in 0 .. n'-1 |-> FALSE]
    /\ UNCHANGED <<edges, pc, exitCode>>

ReadEdge(line) ==
    /\ GetLine(line)
    /\ LegalEdge(line)
    /\ edges' = Append(edges, <<line.args[1] - 1, line.args[2] - 1>>)
    /\ UNCHANGED <<hasHeader, n, m, colors, hasColor, pc, exitCode>>

\* A faulty form, for the mutants: colors counted from 1.
ReadColorFromOne(line) ==
    /\ GetLine(line)
    /\ LegalColor(line)
    /\ colors' = [colors EXCEPT ![line.args[1] - 1] = line.args[2]]
    /\ hasColor' = [hasColor EXCEPT ![line.args[1] - 1] = TRUE]
    /\ UNCHANGED <<hasHeader, n, m, edges, pc, exitCode>>

ReadColor(line) ==
    /\ GetLine(line)
    /\ LegalColor(line)
    /\ colors' = [colors EXCEPT ![line.args[1] - 1] = line.args[2] - 1]
    /\ hasColor' = [hasColor EXCEPT ![line.args[1] - 1] = TRUE]
    /\ UNCHANGED <<hasHeader, n, m, edges, pc, exitCode>>

RejectLine(line) ==
    /\ GetLine(line)
    /\ line.type # "c"
    /\ ~LegalHeader(line) /\ ~LegalEdge(line) /\ ~LegalColor(line)
    /\ Exit(1)
    /\ UNCHANGED parser

\* The file ends after any line; it must have had its header and m edges.
Complete == hasHeader /\ Len(edges) = m

EndOfFile == /\ pc = "read"
             /\ Complete
             /\ pc' = "process"
             /\ UNCHANGED <<arguments, file, parser, containers, exitCode>>

RejectFile == /\ pc = "read"
              /\ ~Complete
              /\ Exit(1)
              /\ UNCHANGED <<arguments, file, parser, containers>>

-----------------------------------------------------------------------------
(***************************************************************************)
(* process_instance                                                        *)
(***************************************************************************)

TooLarge == /\ pc = "process"
            /\ n > option.nodes.maxNodes
            /\ Exit(-1)
            /\ UNCHANGED <<arguments, file, parser, containers>>

NewContainers == /\ pc = "process"
                 /\ n <= option.nodes.maxNodes
                 /\ graph' = EmptyGraph(option.nodes, n)
                 /\ coloring' = EmptyColoring(n)
                 /\ done' = 0
                 /\ pc' = "build"
                 /\ UNCHANGED <<arguments, file, parser, exitCode>>

IsLoop(e) == e[1] = e[2]

SelfLoop == /\ pc = "build"
            /\ done < Len(edges)
            /\ IsLoop(edges[done + 1])
            /\ Exit(-1)
            /\ UNCHANGED <<arguments, file, parser, containers>>

add_edge == LET e == edges[done + 1]
            IN  /\ pc = "build"
                /\ done < Len(edges)
                /\ ~IsLoop(e)
                /\ graph' = WithEdge(option.nodes, n, graph, e[1], e[2])
                /\ done' = done + 1
                /\ UNCHANGED <<arguments, file, parser, coloring, pc, exitCode>>

\* The node whose color is set next.
NextNode == done - Len(edges)

SetsColor == pc = "build" /\ NextNode \in 0 .. n-1

set_color == /\ SetsColor
             /\ asserts => colors[NextNode] < n
             /\ coloring' = [WithColor(n, coloring, NextNode, colors[NextNode])
                                EXCEPT !.color[NextNode] = Narrowed(option.nodes, @)]
             /\ done' = done + 1
             /\ UNCHANGED <<arguments, file, parser, graph, pc, exitCode>>

\* Its assertion on the color.
ColorAborts == /\ SetsColor
               /\ asserts /\ colors[NextNode] >= n
               /\ Exit(Crashed)
               /\ UNCHANGED <<arguments, file, parser, containers>>

\* The search itself is the subject of Solver, for labels in the order of the
\* colors and at least one node.
Built == pc = "build" /\ NextNode = n
Ordered == \A p \in 1 .. n-1 :
              coloring.color[coloring.label[p-1]] <= coloring.color[coloring.label[p]]

canonize == /\ Built
            /\ asserts => n > 0
            /\ Exit(0)
            /\ UNCHANGED <<arguments, file, parser, containers>>

\* Without nodes the refinement reads the first entry of an empty buffer.  That
\* may go unnoticed, but then the selector asserts that there is a first label.
NoFirstEntry == /\ Built
                /\ n = 0
                /\ Exit(Crashed)
                /\ UNCHANGED <<arguments, file, parser, containers>>

\* On labels out of order colorings may be pushed until there is no memory left.
\* (The search may also go on forever, which is no step here.)
OutOfMemory == /\ Built
               /\ ~Ordered
               /\ Exit(Crashed)
               /\ UNCHANGED <<arguments, file, parser, containers>>

ReadLine == \E line \in Lines :
                \/ SkipLine(line) \/ ReadHeader(line) \/ ReadEdge(line)
                \/ ReadColor(line) \/ RejectLine(line)

Next == \/ ParseOptions \/ RejectOptions \/ OpenInput \/ RejectInput
        \/ ReadLine \/ EndOfFile \/ RejectFile
        \/ TooLarge \/ NewContainers \/ SelfLoop \/ add_edge
        \/ set_color \/ ColorAborts
        \/ canonize \/ NoFirstEntry \/ OutOfMemory

Spec == Init /\ [][Next]_vars
=============================================================================
