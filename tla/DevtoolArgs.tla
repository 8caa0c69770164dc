---------------------------- MODULE DevtoolArgs ----------------------------
(***************************************************************************)
(* The command line of the tool (cli/devtool_args.hpp).  An argument is    *)
(* the sequence of its parts: <<"-n">>, or <<"--nodes=", "8">> if the      *)
(* value is attached.                                                      *)
(***************************************************************************)
EXTENDS Storages, SequencesExt

CONSTANT NodeLimits     \* the storage that each value of -n selects

ASSUME LimitsAssumption ==
    /\ \A name \in DOMAIN NodeLimits : NodeLimits[name] \in FixedStorages \cup {HeapStorage}
    /\ HeapStorage.maxNodes \in Nat

Stdin == <<"stdin">>

\* Options, and what the next argument is taken for: an option, or the value
\* of the one before it.
NewOptions == [nodes |-> HeapStorage, input |-> Stdin, expects |-> "option"]
Rejected(o) == [o EXCEPT !.expects = "nothing"]

parse_nodes(o, value) ==
    IF \E name \in DOMAIN NodeLimits : value = <<name>>
    THEN [o EXCEPT !.nodes = NodeLimits[value[1]], !.expects = "option"]
    ELSE Rejected(o)

SetInput(o, value) == [o EXCEPT !.input = value, !.expects = "option"]

\* Once rejected, nothing is read; help is printed in place of a run.
ParseArgument(o, arg) ==
    CASE o.expects = "nodes" -> parse_nodes(o, arg)
      [] o.expects = "input" -> SetInput(o, arg)
      [] o.expects = "option" /\ arg \in {<<"-n">>, <<"--nodes">>} -> [o EXCEPT !.expects = "nodes"]
      [] o.expects = "option" /\ arg \in {<<"-i">>, <<"--input">>} -> [o EXCEPT !.expects = "input"]
      [] o.expects = "option" /\ arg[1] = "--nodes=" -> parse_nodes(o, Tail(arg))
      [] o.expects = "option" /\ arg[1] = "--input=" -> SetInput(o, Tail(arg))
      [] OTHER -> Rejected(o)

\* Legal if no value is missing at the end.
parse_options(args) ==
    LET parsed[i \in 0 .. Len(args)] ==
            IF i = 0 THEN NewOptions ELSE ParseArgument(parsed[i-1], args[i])
    IN  parsed[Len(args)]
Legal(o) == o.expects = "option"
=============================================================================
