--------------------------- MODULE DevtoolProofs ---------------------------
(***************************************************************************)
(* For any command lines and files: the tool reads exactly legal options,  *)
(* accepts exactly well-formed files, its exit codes say so, and it        *)
(* canonizes what the file says.                                           *)
(***************************************************************************)
EXTENDS DevtoolProperties, InductionLemmas, SequenceTheorems, TLAPS

(***************************************************************************)
(* The command line.  Options are told from values in two ways: by what    *)
(* parse_options expects, and by the set Options.                          *)
(***************************************************************************)
ArgumentsTyped ==
    /\ argv \in Seq(Seq(STRING))
    /\ \A i \in DOMAIN argv :
          \/ Len(argv[i]) = 1
          \/ Len(argv[i]) = 2 /\ argv[i][1] \in {"--nodes=", "--input="}

LEMMA OptionsAlternate ==
    ASSUME ArgumentsTyped
    PROVE  /\ Options \subseteq DOMAIN argv
           /\ \A i \in DOMAIN argv : i \in Options <=> ~(i-1 \in Options /\ TakesNext(argv[i-1]))
<1> DEFINE k == Len(argv)
           V == {0, 1}
           step == [i \in 1 .. k |-> [b \in V |-> IF b = 1 /\ TakesNext(argv[i-1]) THEN 0 ELSE 1]]
           Alternates(S) == \A i \in DOMAIN argv : i \in S <=> ~(i-1 \in S /\ TakesNext(argv[i-1]))
<1>1. k \in Nat /\ DOMAIN argv = 1 .. k
  BY DEF ArgumentsTyped
<1>2. step \in [1 .. k -> [V -> V]]
  OBVIOUS
<1> HIDE DEF k
<1>3. PICK w : Iterates(k, V, 0, step, w)
  <2> HIDE DEF step
  <2>1. 0 \in V
    OBVIOUS
  <2> HIDE DEF V
  <2> QED BY <1>1, <1>2, <2>1, IterationExists
<1>4. /\ w \in [0 .. k -> V] /\ w[0] = 0
      /\ \A i \in 1 .. k : w[i] = IF w[i-1] = 1 /\ TakesNext(argv[i-1]) THEN 0 ELSE 1
  <2> USE <1>3 DEF Iterates
  <2>1. w \in [0 .. k -> V] /\ w[0] = 0 /\ \A i \in 1 .. k : w[i] = step[i][w[i-1]]
    OBVIOUS
  <2>2. ASSUME NEW i \in 1 .. k
        PROVE  w[i] = IF w[i-1] = 1 /\ TakesNext(argv[i-1]) THEN 0 ELSE 1
    <3>1. w[i-1] \in V
      BY <2>1, <1>1
    <3> QED BY <2>1, <3>1
  <2> QED BY <2>1, <2>2
<1> DEFINE S == {i \in DOMAIN argv : w[i] = 1}
<1>5. S \in SUBSET DOMAIN argv /\ Alternates(S)
  <2> SUFFICES ASSUME NEW i \in DOMAIN argv
               PROVE  i \in S <=> ~(i-1 \in S /\ TakesNext(argv[i-1]))
    OBVIOUS
  <2>1. i \in 1 .. k /\ i-1 \in 0 .. k /\ (i-1 \in DOMAIN argv \/ i-1 = 0)
    BY <1>1
  <2>2. i-1 \in S <=> w[i-1] = 1
    BY <1>4, <2>1
  <2>3. i \in S <=> w[i] = 1
    OBVIOUS
  <2> HIDE DEF S
  <2> QED BY <1>4, <2>1, <2>2, <2>3
<1> HIDE DEF S
<1>6. Options = CHOOSE U \in SUBSET DOMAIN argv : Alternates(U)
  BY DEF Options
<1> HIDE DEF Alternates
<1>7. Options \in SUBSET DOMAIN argv /\ Alternates(Options)
  BY <1>5, <1>6
<1> QED BY <1>7 DEF Alternates

\* The options that arguments can lead to.
ParsedOptions(args) ==
    [nodes : {HeapStorage} \cup {NodeLimits[name] : name \in DOMAIN NodeLimits},
     input : {Stdin} \cup {args[i] : i \in DOMAIN args} \cup {Tail(args[i]) : i \in DOMAIN args},
     expects : {"option", "nodes", "input", "nothing"}]

LEMMA ParsedStays ==
    ASSUME NEW args, NEW i \in DOMAIN args, NEW o \in ParsedOptions(args)
    PROVE  ParseArgument(o, args[i]) \in ParsedOptions(args)
<1>1. \A e \in {"option", "nodes", "input", "nothing"} : [o EXCEPT !.expects = e] \in ParsedOptions(args)
  BY DEF ParsedOptions
<1>2. \A value : parse_nodes(o, value) \in ParsedOptions(args)
  <2> SUFFICES ASSUME NEW value PROVE parse_nodes(o, value) \in ParsedOptions(args)
    OBVIOUS
  <2>1. CASE \E name \in DOMAIN NodeLimits : value = <<name>>
    <3>1. value[1] \in DOMAIN NodeLimits
      BY <2>1
    <3> QED BY <2>1, <3>1 DEF parse_nodes, ParsedOptions
  <2>2. CASE ~ \E name \in DOMAIN NodeLimits : value = <<name>>
    BY <1>1, <2>2 DEF parse_nodes, Rejected
  <2> QED BY <2>1, <2>2
<1>3. SetInput(o, args[i]) \in ParsedOptions(args) /\ SetInput(o, Tail(args[i])) \in ParsedOptions(args)
  BY DEF SetInput, ParsedOptions
<1> HIDE DEF ParsedOptions
<1> QED BY <1>1, <1>2, <1>3 DEF ParseArgument, Rejected

\* parse_options takes one argument after the other.
Parses(P, args) ==
    /\ P[0] = NewOptions
    /\ \A i \in 1 .. Len(args) : P[i] = ParseArgument(P[i-1], args[i])
    /\ \A i \in 0 .. Len(args) : P[i] \in ParsedOptions(args)
    /\ P[Len(args)] = parse_options(args)

LEMMA ParsingExists ==
    ASSUME NEW T, NEW args \in Seq(T)
    PROVE  \E P : Parses(P, args)
<1> DEFINE k == Len(args)
           V == ParsedOptions(args)
           step == [i \in 1 .. k |-> [o \in V |-> ParseArgument(o, args[i])]]
           parsed(f) == [i \in 0 .. k |-> IF i = 0 THEN NewOptions ELSE ParseArgument(f[i-1], args[i])]
<1>1. k \in Nat /\ DOMAIN args = 1 .. k
  OBVIOUS
<1> HIDE DEF k, V
<1>2. step \in [1 .. k -> [V -> V]]
  BY <1>1, ParsedStays DEF V
<1>3. NewOptions \in V
  BY DEF NewOptions, V, ParsedOptions
<1>4. PICK w : Iterates(k, V, NewOptions, step, w)
  <2> HIDE DEF step
  <2> QED BY <1>1, <1>2, <1>3, IterationExists
<1>5. w \in [0 .. k -> V] /\ w[0] = NewOptions /\ \A i \in 1 .. k : w[i] = step[i][w[i-1]]
  BY <1>4 DEF Iterates
<1>6. \A i \in 1 .. k : w[i] = ParseArgument(w[i-1], args[i])
  <2> SUFFICES ASSUME NEW i \in 1 .. k PROVE w[i] = ParseArgument(w[i-1], args[i])
    OBVIOUS
  <2>1. w[i-1] \in V
    BY <1>1, <1>5
  <2> QED BY <1>5, <2>1
<1>7. w = parsed(w)
  <2> DEFINE x == parsed(w)
  <2>1. x = [i \in 0 .. k |-> x[i]] /\ w = [i \in 0 .. k |-> w[i]]
    BY <1>5
  <2>2. ASSUME NEW i \in 0 .. k PROVE w[i] = x[i]
    <3>1. CASE i = 0
      BY <1>5, <3>1
    <3>2. CASE i # 0
      BY <1>1, <1>6, <3>2
    <3> QED BY <3>1, <3>2
  <2> HIDE DEF x
  <2>3. w = x
    BY <2>1, <2>2
  <2> QED BY <2>3 DEF x
<1> DEFINE f == CHOOSE g : g = parsed(g)
<1>8. f = parsed(f)
  <2> HIDE DEF parsed
  <2> QED BY <1>7
<1>9. f[0] = NewOptions /\ \A i \in 1 .. k : f[i] = ParseArgument(f[i-1], args[i])
  <2> HIDE DEF f
  <2>1. \A i \in 0 .. k : f[i] = parsed(f)[i]
    BY <1>8
  <2> QED BY <1>1, <2>1
<1>10. parse_options(args) = f[k]
  BY DEF parse_options, k
<1> HIDE DEF f
<1>11. \A i \in 0 .. k : f[i] \in V
  <2> DEFINE S == {i \in 0 .. k : f[i] \in V}
  <2>1. 0 \in S
    BY <1>1, <1>3, <1>9
  <2>2. ASSUME NEW i \in 1 .. k, i-1 \in S PROVE i \in S
    <3>1. f[i] = ParseArgument(f[i-1], args[i]) /\ f[i-1] \in V /\ i \in DOMAIN args
      BY <1>1, <1>9, <2>2
    <3>2. f[i] \in V
      BY <3>1, ParsedStays DEF V
    <3> QED BY <1>1, <3>2
  <2> HIDE DEF S
  <2>3. \A i \in 0 .. k : i \in S
    BY <1>1, <2>1, <2>2, UpTo
  <2> QED BY <2>3 DEF S
<1> QED BY <1>9, <1>10, <1>11 DEF Parses, k, V

\* The value of option j is among the first i arguments.
Valued(j, i) == j <= i /\ (TakesNext(argv[j]) => j < i)
Named(j) == \E name \in DOMAIN NodeLimits : ValueOf(j) = <<name>>

\* The storage of the last option in S that has its value.
LastStorage(S, i, storage) ==
    \/ (\A j \in S : ~Valued(j, i)) /\ storage = HeapStorage
    \/ \E j \in S : /\ Valued(j, i) /\ storage = NodeLimits[ValueOf(j)[1]]
                    /\ \A l \in S : Valued(l, i) => l <= j

LastInput(S, i, input) ==
    \/ (\A j \in S : ~Valued(j, i)) /\ input = Stdin
    \/ \E j \in S : /\ Valued(j, i) /\ input = ValueOf(j)
                    /\ \A l \in S : Valued(l, i) => l <= j

\* What has been made of the first i arguments if none has been rejected.
ParsedTo(o, i) ==
    /\ o.expects \in {"option", "nodes", "input"}
    /\ o.expects = "nodes" <=> i \in Options /\ argv[i] \in {<<"-n">>, <<"--nodes">>}
    /\ o.expects = "input" <=> i \in Options /\ argv[i] \in {<<"-i">>, <<"--input">>}
    /\ \A j \in Options : j <= i => j \in NodeOptions \cup InputOptions
    /\ \A j \in NodeOptions : Valued(j, i) => Named(j)
    /\ LastStorage(NodeOptions, i, o.nodes)
    /\ LastInput(InputOptions, i, o.input)

LEMMA NamedOptions ==
    ASSUME ArgumentsTyped, NEW i \in DOMAIN argv, i \in Options
    PROVE  /\ i \in NodeOptions <=> argv[i] \in {<<"-n">>, <<"--nodes">>} \/ argv[i][1] = "--nodes="
           /\ i \in InputOptions <=> argv[i] \in {<<"-i">>, <<"--input">>} \/ argv[i][1] = "--input="
           /\ TakesNext(argv[i]) => argv[i][1] \notin {"--nodes=", "--input="}
<1>1. argv[i] \in Seq(STRING) /\ (Len(argv[i]) = 1 \/ argv[i][1] \in {"--nodes=", "--input="})
  BY DEF ArgumentsTyped
<1>2. Len(argv[i]) = 1 => argv[i] = <<argv[i][1]>>
  BY <1>1
<1> QED BY <1>1, <1>2 DEF NodeOptions, InputOptions, OptionsNamed, TakesNext

\* From one argument to the next: which options are valued.
LEMMA ValuedNext ==
    ASSUME ArgumentsTyped, NEW o, NEW i \in 1 .. Len(argv), ParsedTo(o, i-1)
    PROVE  /\ i \in Options <=> o.expects = "option"
           /\ \A j \in Options : Valued(j, i) <=>
                 \/ Valued(j, i-1)
                 \/ j = i-1 /\ o.expects # "option"
                 \/ j = i /\ ~TakesNext(argv[i])
           /\ \A j \in Options : Valued(j, i-1) => j <= i-1
           /\ o.expects # "option" => i-1 \in Options /\ TakesNext(argv[i-1]) /\ ValueOf(i-1) = argv[i]
<1>1. DOMAIN argv = 1 .. Len(argv) /\ Len(argv) \in Nat
  BY DEF ArgumentsTyped
<1>2. /\ Options \subseteq DOMAIN argv
      /\ i \in Options <=> ~(i-1 \in Options /\ TakesNext(argv[i-1]))
  BY <1>1, OptionsAlternate
<1>3. o.expects # "option" <=> i-1 \in Options /\ TakesNext(argv[i-1])
  BY DEF ParsedTo, TakesNext
<1>4. TakesNext(argv[i-1]) => ValueOf(i-1) = argv[i]
  BY DEF ValueOf
<1>5. ASSUME NEW j \in Options
      PROVE  /\ Valued(j, i) <=>
                  \/ Valued(j, i-1)
                  \/ j = i-1 /\ o.expects # "option"
                  \/ j = i /\ ~TakesNext(argv[i])
             /\ Valued(j, i-1) => j <= i-1
  <2>1. j \in Int /\ i \in Int
    BY <1>1, <1>2
  <2>2. CASE j = i
    BY <2>1, <2>2 DEF Valued
  <2>3. CASE j = i-1
    BY <1>3, <2>1, <2>3 DEF Valued
  <2>4. CASE j # i /\ j # i-1
    BY <2>1, <2>4 DEF Valued
  <2> QED BY <2>2, <2>3, <2>4
<1> QED BY <1>2, <1>3, <1>4, <1>5

LEMMA ParseRejects ==
    ASSUME NEW o, o = [nodes |-> o.nodes, input |-> o.input, expects |-> o.expects]
    PROVE  Rejected(o).expects = "nothing"
BY DEF Rejected

\* The value of -n or --nodes.
LEMMA NodesParsed ==
    ASSUME ArgumentsTyped, NEW o \in ParsedOptions(argv), NEW i \in 1 .. Len(argv),
           ParsedTo(o, i-1), o.expects = "nodes"
    PROVE  \/ ParsedTo(ParseArgument(o, argv[i]), i)
           \/ ParseArgument(o, argv[i]).expects = "nothing" /\ ~LegalCommandLine
<1>1. ParseArgument(o, argv[i]) = parse_nodes(o, argv[i])
  BY DEF ParseArgument
<1>2. /\ i \notin Options /\ i-1 \in Options /\ TakesNext(argv[i-1]) /\ ValueOf(i-1) = argv[i]
      /\ \A j \in Options : Valued(j, i) <=> Valued(j, i-1) \/ j = i-1
      /\ \A j \in Options : Valued(j, i-1) => j <= i-1
  <2>1. \A j \in Options : j = i => FALSE
    BY ValuedNext
  <2> QED BY <2>1, ValuedNext
<1>3. i-1 \in NodeOptions /\ i-1 \notin InputOptions /\ i-1 \in DOMAIN argv
  <2>1. i-1 \in DOMAIN argv
    BY <1>2, OptionsAlternate
  <2>2. argv[i-1] \in {<<"-n">>, <<"--nodes">>}
    BY DEF ParsedTo
  <2>3. argv[i-1][1] # "--input=" /\ argv[i-1] \notin {<<"-i">>, <<"--input">>}
    <3>1. argv[i-1] \notin {<<"-i">>, <<"--input">>}
      <4>1. <<"-n">>[1] = "-n" /\ <<"--nodes">>[1] = "--nodes" /\ <<"-i">>[1] = "-i" /\ <<"--input">>[1] = "--input"
        OBVIOUS
      <4> QED BY <2>2, <4>1
    <3> QED BY <2>2, <3>1
  <2> QED BY <1>2, <2>1, <2>2, <2>3, NamedOptions
<1>4. NodeOptions \subseteq Options /\ InputOptions \subseteq Options /\ Options \subseteq Int
  BY OptionsAlternate DEF NodeOptions, InputOptions, OptionsNamed, ArgumentsTyped
<1>5. CASE Named(i-1)
  <2> DEFINE next == parse_nodes(o, argv[i])
  <2>1. next = [o EXCEPT !.nodes = NodeLimits[argv[i][1]], !.expects = "option"]
    BY <1>2, <1>5 DEF parse_nodes, Named
  <2>2. next.expects = "option" /\ next.nodes = NodeLimits[argv[i][1]] /\ next.input = o.input
    BY <2>1 DEF ParsedOptions
  <2> HIDE DEF next
  <2>3. \A j \in Options : j <= i => j \in NodeOptions \cup InputOptions
    <3>1. \A j \in Options : j <= i => j <= i-1
      BY <1>2, <1>4
    <3> QED BY <3>1 DEF ParsedTo
  <2>4. \A j \in NodeOptions : Valued(j, i) => Named(j)
    BY <1>2, <1>4, <1>5 DEF ParsedTo
  <2>5. LastStorage(NodeOptions, i, next.nodes)
    <3>1. \A l \in NodeOptions : Valued(l, i) => l <= i-1
      BY <1>2, <1>4
    <3> QED BY <1>2, <1>3, <1>4, <2>2, <3>1 DEF LastStorage
  <2>6. LastInput(InputOptions, i, next.input)
    <3>1. \A j \in InputOptions : Valued(j, i) <=> Valued(j, i-1)
      BY <1>2, <1>3, <1>4
    <3> QED BY <2>2, <3>1 DEF ParsedTo, LastInput
  <2>7. ParsedTo(next, i)
    BY <1>2, <2>2, <2>3, <2>4, <2>5, <2>6 DEF ParsedTo
  <2> QED BY <1>1, <2>7 DEF next
<1>6. CASE ~Named(i-1)
  <2>1. parse_nodes(o, argv[i]) = Rejected(o)
    BY <1>2, <1>6 DEF parse_nodes, Named
  <2>2. ~LegalCommandLine
    BY <1>3, <1>6 DEF LegalCommandLine, Named
  <2> QED BY <1>1, <2>1, <2>2, ParseRejects DEF ParsedOptions
<1> QED BY <1>5, <1>6

\* The value of -i or --input.
LEMMA InputParsed ==
    ASSUME ArgumentsTyped, NEW o \in ParsedOptions(argv), NEW i \in 1 .. Len(argv),
           ParsedTo(o, i-1), o.expects = "input"
    PROVE  ParsedTo(ParseArgument(o, argv[i]), i)
<1>2. /\ i \notin Options /\ i-1 \in Options /\ TakesNext(argv[i-1]) /\ ValueOf(i-1) = argv[i]
      /\ \A j \in Options : Valued(j, i) <=> Valued(j, i-1) \/ j = i-1
      /\ \A j \in Options : Valued(j, i-1) => j <= i-1
  <2>1. \A j \in Options : j = i => FALSE
    BY ValuedNext
  <2> QED BY <2>1, ValuedNext
<1>3. i-1 \in InputOptions /\ i-1 \notin NodeOptions /\ i-1 \in DOMAIN argv
  <2>1. i-1 \in DOMAIN argv
    BY <1>2, OptionsAlternate
  <2>2. argv[i-1] \in {<<"-i">>, <<"--input">>}
    BY DEF ParsedTo
  <2>3. argv[i-1][1] # "--nodes=" /\ argv[i-1] \notin {<<"-n">>, <<"--nodes">>}
    <3>1. argv[i-1] \notin {<<"-n">>, <<"--nodes">>}
      <4>1. <<"-n">>[1] = "-n" /\ <<"--nodes">>[1] = "--nodes" /\ <<"-i">>[1] = "-i" /\ <<"--input">>[1] = "--input"
        OBVIOUS
      <4> QED BY <2>2, <4>1
    <3> QED BY <2>2, <3>1
  <2> QED BY <1>2, <2>1, <2>2, <2>3, NamedOptions
<1>4. NodeOptions \subseteq Options /\ InputOptions \subseteq Options /\ Options \subseteq Int
  BY OptionsAlternate DEF NodeOptions, InputOptions, OptionsNamed, ArgumentsTyped
<1> DEFINE next == ParseArgument(o, argv[i])
<1>5. next = SetInput(o, argv[i])
  BY DEF ParseArgument
<1>6. next.expects = "option" /\ next.nodes = o.nodes /\ next.input = argv[i]
  BY <1>5 DEF ParsedOptions, SetInput
<1> HIDE DEF next
<1>7. \A j \in Options : j <= i => j \in NodeOptions \cup InputOptions
  <2>1. \A j \in Options : j <= i => j <= i-1
    BY <1>2, <1>4
  <2> QED BY <2>1 DEF ParsedTo
<1>8. \A j \in NodeOptions : Valued(j, i) <=> Valued(j, i-1)
  BY <1>2, <1>3, <1>4
<1>9. LastStorage(NodeOptions, i, next.nodes)
  BY <1>6, <1>8 DEF ParsedTo, LastStorage
<1>10. LastInput(InputOptions, i, next.input)
  <2>1. \A l \in InputOptions : Valued(l, i) => l <= i-1
    BY <1>2, <1>4
  <2> QED BY <1>2, <1>3, <1>4, <1>6, <2>1 DEF LastInput
<1>11. ParsedTo(next, i)
  BY <1>2, <1>6, <1>7, <1>8, <1>9, <1>10 DEF ParsedTo
<1> QED BY <1>11 DEF next

\* An option, with its value or without.
LEMMA OptionParsed ==
    ASSUME ArgumentsTyped, NEW o \in ParsedOptions(argv), NEW i \in 1 .. Len(argv),
           ParsedTo(o, i-1), o.expects = "option"
    PROVE  \/ ParsedTo(ParseArgument(o, argv[i]), i)
           \/ ParseArgument(o, argv[i]).expects = "nothing" /\ ~LegalCommandLine
<1> DEFINE arg == argv[i]
           next == ParseArgument(o, arg)
<1>1. /\ i \in Options
      /\ \A j \in Options : Valued(j, i) <=> Valued(j, i-1) \/ (j = i /\ ~TakesNext(arg))
      /\ \A j \in Options : Valued(j, i-1) => j <= i-1
  BY ValuedNext
<1>2. /\ i \in NodeOptions <=> arg \in {<<"-n">>, <<"--nodes">>} \/ arg[1] = "--nodes="
      /\ i \in InputOptions <=> arg \in {<<"-i">>, <<"--input">>} \/ arg[1] = "--input="
      /\ TakesNext(arg) => arg[1] \notin {"--nodes=", "--input="}
  <2>1. i \in DOMAIN argv
    BY DEF ArgumentsTyped
  <2> QED BY <1>1, <2>1, NamedOptions
<1>3. NodeOptions \subseteq Options /\ InputOptions \subseteq Options /\ Options \subseteq Int
  BY OptionsAlternate DEF NodeOptions, InputOptions, OptionsNamed, ArgumentsTyped
<1>4. \A e \in {<<"-n">>, <<"--nodes">>} : e \notin {<<"-i">>, <<"--input">>}
  <2>1. <<"-n">>[1] = "-n" /\ <<"--nodes">>[1] = "--nodes" /\ <<"-i">>[1] = "-i" /\ <<"--input">>[1] = "--input"
    OBVIOUS
  <2> QED BY <2>1
<1>5. /\ o.expects # "nodes" /\ o.expects # "input"
      /\ \A e : [o EXCEPT !.expects = e].expects = e
      /\ \A e : [o EXCEPT !.expects = e].nodes = o.nodes
      /\ \A e : [o EXCEPT !.expects = e].input = o.input
  BY DEF ParsedOptions
<1>6. ASSUME i \in NodeOptions \cup InputOptions
      PROVE  \A j \in Options : j <= i => j \in NodeOptions \cup InputOptions
  <2>1. \A j \in Options : j <= i => j <= i-1 \/ j = i
    BY <1>3
  <2> QED BY <1>6, <2>1 DEF ParsedTo
<1> HIDE DEF arg
<1>7. CASE TakesNext(arg)
  <2>1. \A j \in Options : Valued(j, i) <=> Valued(j, i-1)
    BY <1>1, <1>7
  <2>2. i \in NodeOptions \cup InputOptions
    BY <1>2, <1>7 DEF TakesNext
  <2>3. /\ next.nodes = o.nodes /\ next.input = o.input
        /\ next.expects = IF arg \in {<<"-n">>, <<"--nodes">>} THEN "nodes" ELSE "input"
    BY <1>5, <1>7 DEF ParseArgument, TakesNext
  <2> HIDE DEF next
  <2>4. LastStorage(NodeOptions, i, next.nodes) /\ LastInput(InputOptions, i, next.input)
    <3>1. /\ \A j \in NodeOptions : Valued(j, i) <=> Valued(j, i-1)
          /\ \A j \in InputOptions : Valued(j, i) <=> Valued(j, i-1)
      BY <1>3, <2>1
    <3> QED BY <2>3, <3>1 DEF ParsedTo, LastStorage, LastInput
  <2>5. /\ next.expects \in {"option", "nodes", "input"}
        /\ next.expects = "nodes" <=> i \in Options /\ argv[i] \in {<<"-n">>, <<"--nodes">>}
        /\ next.expects = "input" <=> i \in Options /\ argv[i] \in {<<"-i">>, <<"--input">>}
    <3>1. arg \in {<<"-n">>, <<"--nodes">>} \/ arg \in {<<"-i">>, <<"--input">>}
      BY <1>7 DEF TakesNext
    <3>2. CASE arg \in {<<"-n">>, <<"--nodes">>}
      <4>1. arg \notin {<<"-i">>, <<"--input">>} /\ next.expects = "nodes"
        BY <1>4, <2>3, <3>2
      <4> QED BY <1>1, <3>2, <4>1 DEF arg
    <3>3. CASE arg \in {<<"-i">>, <<"--input">>}
      <4>1. arg \notin {<<"-n">>, <<"--nodes">>} /\ next.expects = "input"
        BY <1>4, <2>3, <3>3
      <4> QED BY <1>1, <3>3, <4>1 DEF arg
    <3> QED BY <3>1, <3>2, <3>3
  <2>6. \A j \in NodeOptions : Valued(j, i) => Named(j)
    BY <1>3, <2>1 DEF ParsedTo
  <2>7. ParsedTo(next, i)
    BY <1>6, <2>2, <2>4, <2>5, <2>6 DEF ParsedTo
  <2> QED BY <2>7 DEF next, arg
<1>8. CASE ~TakesNext(arg) /\ arg[1] \in {"--nodes=", "--input="}
  <2>1. ValueOf(i) = Tail(arg)
    BY <1>8 DEF ValueOf, arg
  <2>2. /\ \A j \in Options : Valued(j, i) <=> Valued(j, i-1) \/ j = i
        /\ \A j \in Options : Valued(j, i) => j <= i
    <3>1. \A j \in Options : Valued(j, i) <=> Valued(j, i-1) \/ j = i
      BY <1>1, <1>8
    <3> QED BY <1>1, <1>3, <3>1
  <2>3. /\ arg \notin {<<"-n">>, <<"--nodes">>} /\ arg \notin {<<"-i">>, <<"--input">>}
        /\ i \in NodeOptions <=> arg[1] = "--nodes="
        /\ i \in InputOptions <=> arg[1] = "--input="
    BY <1>2, <1>8 DEF TakesNext
  <2>4. CASE arg[1] = "--nodes="
    <3>0. i \in NodeOptions /\ i \notin InputOptions
      BY <2>3, <2>4
    <3>1. next = parse_nodes(o, Tail(arg))
      BY <1>5, <2>3, <2>4 DEF ParseArgument
    <3>2. CASE Named(i)
      <4>1. next = [o EXCEPT !.nodes = NodeLimits[Tail(arg)[1]], !.expects = "option"]
        BY <2>1, <3>1, <3>2 DEF parse_nodes, Named
      <4>2. next.expects = "option" /\ next.nodes = NodeLimits[ValueOf(i)[1]] /\ next.input = o.input
        BY <2>1, <4>1 DEF ParsedOptions
      <4> HIDE DEF next
      <4>3. LastStorage(NodeOptions, i, next.nodes)
        BY <1>3, <2>2, <3>0, <4>2 DEF LastStorage
      <4>4. LastInput(InputOptions, i, next.input)
        <5>1. \A j \in InputOptions : Valued(j, i) <=> Valued(j, i-1)
          BY <1>3, <2>2, <3>0
        <5> QED BY <4>2, <5>1 DEF ParsedTo, LastInput
      <4>5. \A j \in NodeOptions : Valued(j, i) => Named(j)
        BY <1>3, <2>2, <3>2 DEF ParsedTo
      <4>6. ParsedTo(next, i)
        BY <1>6, <2>3, <3>0, <4>2, <4>3, <4>4, <4>5 DEF ParsedTo, arg
      <4> QED BY <4>6 DEF next, arg
    <3>3. CASE ~Named(i)
      <4>1. next = Rejected(o)
        BY <2>1, <3>1, <3>3 DEF parse_nodes, Named
      <4>2. ~LegalCommandLine
        BY <3>0, <3>3 DEF LegalCommandLine, Named
      <4> QED BY <4>1, <4>2, ParseRejects DEF ParsedOptions, arg
    <3> QED BY <3>2, <3>3
  <2>5. CASE arg[1] = "--input="
    <3>0. i \in InputOptions /\ i \notin NodeOptions
      BY <2>3, <2>5
    <3>1. next = SetInput(o, Tail(arg))
      BY <1>5, <2>3, <2>5 DEF ParseArgument
    <3>2. next.expects = "option" /\ next.nodes = o.nodes /\ next.input = ValueOf(i)
      BY <2>1, <3>1 DEF ParsedOptions, SetInput
    <3> HIDE DEF next
    <3>3. \A j \in NodeOptions : Valued(j, i) <=> Valued(j, i-1)
      BY <1>3, <2>2, <3>0
    <3>4. LastStorage(NodeOptions, i, next.nodes)
      BY <3>2, <3>3 DEF ParsedTo, LastStorage
    <3>5. LastInput(InputOptions, i, next.input)
      BY <1>3, <2>2, <3>0, <3>2 DEF LastInput
    <3>6. ParsedTo(next, i)
      BY <1>6, <2>3, <3>0, <3>2, <3>3, <3>4, <3>5 DEF ParsedTo, arg
    <3> QED BY <3>6 DEF next, arg
  <2> QED BY <1>8, <2>4, <2>5
<1>9. CASE ~TakesNext(arg) /\ arg[1] \notin {"--nodes=", "--input="}
  <2>1. next = Rejected(o)
    BY <1>5, <1>9 DEF ParseArgument, TakesNext
  <2>2. i \notin NodeOptions \cup InputOptions
    BY <1>2, <1>9 DEF TakesNext
  <2>3. ~LegalCommandLine
    BY <1>1, <2>2 DEF LegalCommandLine
  <2> QED BY <2>1, <2>3, ParseRejects DEF ParsedOptions, arg
<1> QED BY <1>7, <1>8, <1>9

\* An option is last of its kind.
LEMMA LastOption ==
    ASSUME NEW S, NEW j \in S, S \subseteq Int, \A l \in S : l <= j
    PROVE  Max(S) = j /\ S # {}
<1>1. \A x \in S : (\A y \in S : x >= y) <=> x = j
  OBVIOUS
<1> QED BY <1>1 DEF Max

(***************************************************************************)
(* parse_options accepts exactly the legal command lines, and takes from   *)
(* them the storage and the input of the last option of each kind.         *)
(***************************************************************************)
LEMMA OptionsParsed ==
    ASSUME ArgumentsTyped
    PROVE  /\ parse_options(argv) \in ParsedOptions(argv)
           /\ Legal(parse_options(argv)) <=> LegalCommandLine
           /\ LegalCommandLine => /\ parse_options(argv).nodes = GivenStorage
                                  /\ parse_options(argv).input = GivenInput
<1> DEFINE k == Len(argv)
<1>1. k \in Nat /\ DOMAIN argv = 1 .. k
  BY DEF ArgumentsTyped
<1>2. PICK P : Parses(P, argv)
  BY ParsingExists DEF ArgumentsTyped
<1> DEFINE S == {i \in 0 .. k : ParsedTo(P[i], i) \/ (P[i].expects = "nothing" /\ ~LegalCommandLine)}
<1>3. /\ Options \subseteq Int /\ 0 \notin Options
      /\ NodeOptions \subseteq Options /\ InputOptions \subseteq Options
      /\ \A j \in Options : j \in 1 .. k
  BY <1>1, OptionsAlternate DEF NodeOptions, InputOptions, OptionsNamed
<1> HIDE DEF k
<1>4. 0 \in S
  <2>1. P[0].expects = "option" /\ P[0].nodes = HeapStorage /\ P[0].input = Stdin
    BY <1>2 DEF Parses, NewOptions
  <2>2. \A j \in Options : ~Valued(j, 0) /\ ~(j <= 0)
    BY <1>1, <1>3 DEF Valued
  <2>3. ParsedTo(P[0], 0)
    BY <1>3, <2>1, <2>2 DEF ParsedTo, LastStorage, LastInput
  <2> QED BY <1>1, <2>3
<1>5. ASSUME NEW i \in 1 .. k, i-1 \in S PROVE i \in S
  <2>1. P[i] = ParseArgument(P[i-1], argv[i]) /\ P[i-1] \in ParsedOptions(argv)
    BY <1>1, <1>2 DEF Parses, k
  <2>2. CASE P[i-1].expects = "nothing" /\ ~LegalCommandLine
    <3>1. P[i] = Rejected(P[i-1])
      BY <2>1, <2>2 DEF ParseArgument
    <3>2. P[i].expects = "nothing"
      BY <2>1, <3>1, ParseRejects DEF ParsedOptions
    <3> QED BY <1>1, <2>2, <3>2
  <2>3. CASE ParsedTo(P[i-1], i-1)
    <3>1. P[i-1].expects \in {"option", "nodes", "input"} /\ i \in 1 .. Len(argv)
      BY <2>3 DEF ParsedTo, k
    <3>2. ParsedTo(P[i], i) \/ (P[i].expects = "nothing" /\ ~LegalCommandLine)
      BY <2>1, <2>3, <3>1, NodesParsed, InputParsed, OptionParsed
    <3> QED BY <1>1, <3>2
  <2> QED BY <1>5, <2>2, <2>3
<1>6. k \in S
  <2> HIDE DEF S
  <2> QED BY <1>1, <1>4, <1>5, UpTo
<1>7. parse_options(argv) = P[k] /\ parse_options(argv) \in ParsedOptions(argv)
  BY <1>1, <1>2 DEF Parses, k
<1>8. CASE P[k].expects = "nothing" /\ ~LegalCommandLine
  BY <1>7, <1>8 DEF Legal
<1>9. CASE ParsedTo(P[k], k) /\ P[k].expects # "option"
  <2>1. k \in Options /\ TakesNext(argv[k])
    BY <1>9 DEF ParsedTo, TakesNext
  <2>2. ~LegalCommandLine
    BY <1>1, <2>1 DEF LegalCommandLine, k
  <2> QED BY <1>7, <1>9, <2>2 DEF Legal
<1>10. CASE ParsedTo(P[k], k) /\ P[k].expects = "option"
  <2>1. \A j \in Options : j \in 1 .. k /\ (TakesNext(argv[j]) => j # k)
    BY <1>3, <1>10 DEF ParsedTo, TakesNext
  <2>2. \A j \in Options : Valued(j, k)
    BY <1>1, <2>1 DEF Valued
  <2>3. LegalCommandLine
    <3>1. \A j \in Options : j \in NodeOptions \cup InputOptions
      BY <1>10, <2>1 DEF ParsedTo
    <3>2. \A j \in Options : TakesNext(argv[j]) => j < Len(argv)
      BY <1>1, <2>1 DEF k
    <3>3. \A j \in NodeOptions : Named(j)
      BY <1>3, <1>10, <2>2 DEF ParsedTo
    <3> QED BY <1>3, <3>1, <3>2, <3>3 DEF LegalCommandLine, Named
  <2>4. P[k].nodes = GivenStorage
    <3>1. LastStorage(NodeOptions, k, P[k].nodes) /\ \A j \in NodeOptions : Valued(j, k)
      BY <1>3, <1>10, <2>2 DEF ParsedTo
    <3>2. CASE NodeOptions = {}
      BY <3>1, <3>2 DEF LastStorage, GivenStorage
    <3>3. CASE NodeOptions # {}
      <4>1. PICK j \in NodeOptions : /\ P[k].nodes = NodeLimits[ValueOf(j)[1]]
                                     /\ \A l \in NodeOptions : l <= j
        BY <3>1, <3>3 DEF LastStorage
      <4>2. Max(NodeOptions) = j
        BY <1>3, <4>1, LastOption
      <4> QED BY <3>3, <4>1, <4>2 DEF GivenStorage
    <3> QED BY <3>2, <3>3
  <2>5. P[k].input = GivenInput
    <3>1. LastInput(InputOptions, k, P[k].input) /\ \A j \in InputOptions : Valued(j, k)
      BY <1>3, <1>10, <2>2 DEF ParsedTo
    <3>2. CASE InputOptions = {}
      BY <3>1, <3>2 DEF LastInput, GivenInput
    <3>3. CASE InputOptions # {}
      <4>1. PICK j \in InputOptions : /\ P[k].input = ValueOf(j)
                                      /\ \A l \in InputOptions : l <= j
        BY <3>1, <3>3 DEF LastInput
      <4>2. Max(InputOptions) = j
        BY <1>3, <4>1, LastOption
      <4> QED BY <3>3, <4>1, <4>2 DEF GivenInput
    <3> QED BY <3>2, <3>3
  <2> QED BY <1>7, <1>10, <2>3, <2>4, <2>5 DEF Legal
<1>11. P[k].expects \in {"option", "nodes", "input"} \/ P[k].expects = "nothing"
  BY <1>6 DEF ParsedTo
<1> QED BY <1>6, <1>7, <1>8, <1>9, <1>10

-----------------------------------------------------------------------------
(***************************************************************************)
(* The parser.  What it remembers of the lines accepted so far.            *)
(***************************************************************************)
Types == {"c", "p", "e", "n"}
HasPair(i) == Len(file[i].args) = 2

HeaderHeld ==
    \E h \in LinesOf("p") :
        /\ LinesOf("p") = {h}
        /\ file[h].keyword = "edge" /\ HasPair(h)
        /\ file[h].args[1] = n /\ file[h].args[2] = m
        /\ \A i \in DOMAIN file \ LinesOf("c") : i >= h

EdgesHeld ==
    /\ edges \in Seq(Nat \X Nat)
    /\ IsFiniteSet(LinesOf("e")) /\ Cardinality(LinesOf("e")) = Len(edges)
    /\ GivenEdges = {{edges[j][1], edges[j][2]} : j \in 1 .. Len(edges)}
    /\ \A i \in LinesOf("e") : HasPair(i) /\ file[i].args[1] \in 1 .. n /\ file[i].args[2] \in 1 .. n

ColorsHeld ==
    /\ hasColor \in [0 .. n-1 -> BOOLEAN]
    /\ \A v \in 0 .. n-1 : hasColor[v] <=> \E i \in LinesOf("n") : file[i].args[1] - 1 = v
    /\ \A i \in LinesOf("n") : HasPair(i) /\ file[i].args[1] \in 1 .. n /\ file[i].args[2] >= 1
    /\ \A i, j \in LinesOf("n") : i # j => file[i].args[1] # file[j].args[1]

ParserInv ==
    /\ file \in Seq(Lines)
    /\ DOMAIN file = UNION {LinesOf(t) : t \in Types}
    /\ hasHeader \in BOOLEAN
    /\ EdgesHeld
    /\ hasHeader => n \in Nat /\ m \in Nat /\ Len(edges) <= m /\ HeaderHeld /\ ColorsHeld
    /\ ~hasHeader => edges = <<>> /\ DOMAIN file = LinesOf("c")

LEMMA ParserStarts ==
    ASSUME file = <<>>, edges = <<>>, hasHeader = FALSE
    PROVE  ParserInv
<1>1. file \in Seq(Lines) /\ DOMAIN file = {} /\ edges \in Seq(Nat \X Nat) /\ Len(edges) = 0
  OBVIOUS
<1>2. \A t : LinesOf(t) = {}
  BY <1>1 DEF LinesOf
<1>3. GivenEdges = {} /\ {{edges[j][1], edges[j][2]} : j \in 1 .. Len(edges)} = {}
  BY <1>1, <1>2 DEF GivenEdges
<1>4. IsFiniteSet({}) /\ Cardinality({}) = 0
  BY FS_EmptySet
<1>5. EdgesHeld
  BY <1>1, <1>2, <1>3, <1>4 DEF EdgesHeld
<1>6. UNION {LinesOf(t) : t \in Types} = {}
  BY <1>2
<1> QED BY <1>1, <1>2, <1>5, <1>6 DEF ParserInv

LEMMA FileGrows ==
    ASSUME file \in Seq(Lines), NEW line \in Lines, file' = Append(file, line)
    PROVE  /\ Len(file) \in Nat /\ DOMAIN file = 1 .. Len(file)
           /\ DOMAIN file' = 1 .. Len(file)+1
           /\ file' \in Seq(Lines)
           /\ file'[Len(file)+1] = line
           /\ \A i \in 1 .. Len(file) : file'[i] = file[i]
           /\ \A t : LinesOf(t) \subseteq 1 .. Len(file)
           /\ \A t : LinesOf(t)' = LinesOf(t) \cup (IF line.type = t THEN {Len(file)+1} ELSE {})
           /\ line.args \in Seq(Int)
<1>1. /\ Len(file) \in Nat /\ DOMAIN file = 1 .. Len(file)
      /\ DOMAIN file' = 1 .. Len(file)+1
      /\ file' \in Seq(Lines)
      /\ file'[Len(file)+1] = line
      /\ \A i \in 1 .. Len(file) : file'[i] = file[i]
  OBVIOUS
<1>2. \A t : LinesOf(t) \subseteq 1 .. Len(file)
  BY <1>1 DEF LinesOf
<1>3. ASSUME NEW t PROVE LinesOf(t)' = LinesOf(t) \cup (IF line.type = t THEN {Len(file)+1} ELSE {})
  <2>1. \A i : i \in LinesOf(t)' <=> i \in DOMAIN file' /\ file'[i].type = t
    BY DEF LinesOf
  <2>2. \A i : i \in LinesOf(t) <=> i \in DOMAIN file /\ file[i].type = t
    BY DEF LinesOf
  <2>3. DOMAIN file' = DOMAIN file \cup {Len(file)+1} /\ Len(file)+1 \notin DOMAIN file
    BY <1>1
  <2>4. \A i \in DOMAIN file : file'[i] = file[i]
    BY <1>1
  <2> QED BY <1>1, <2>1, <2>2, <2>3, <2>4
<1> QED BY <1>1, <1>2, <1>3, InputAssumption

\* The new line is of a known type.
LEMMA TypesCover ==
    ASSUME ParserInv, NEW line \in Lines, file' = Append(file, line)
    PROVE  (DOMAIN file = UNION {LinesOf(t) : t \in Types})' <=> line.type \in Types
<1>1. \A t : LinesOf(t)' = LinesOf(t) \cup (IF line.type = t THEN {Len(file)+1} ELSE {})
  BY FileGrows DEF ParserInv
<1>2. /\ DOMAIN file' = DOMAIN file \cup {Len(file)+1}
      /\ \A t : Len(file)+1 \notin LinesOf(t)
      /\ Len(file) \in Nat
  <2>1. /\ DOMAIN file' = 1 .. Len(file)+1 /\ DOMAIN file = 1 .. Len(file) /\ Len(file) \in Nat
        /\ \A t : LinesOf(t) \subseteq 1 .. Len(file)
    BY FileGrows DEF ParserInv
  <2> QED BY <2>1
<1>3. \A i : i \in DOMAIN file <=> \E t \in Types : i \in LinesOf(t)
  BY DEF ParserInv
<1>4. \A i : (\E t \in Types : i \in LinesOf(t)') <=>
                i \in DOMAIN file \/ (i = Len(file)+1 /\ line.type \in Types)
  BY <1>1, <1>3
<1>5. (DOMAIN file = UNION {LinesOf(t) : t \in Types})' <=>
         \A i : i \in DOMAIN file' <=> \E t \in Types : i \in LinesOf(t)'
  BY DEF Types
<1> QED BY <1>2, <1>4, <1>5

LEMMA AcceptedWellFormed ==
    ASSUME ParserInv, Complete
    PROVE  WellFormed
<1>1. PICK h \in LinesOf("p") :
         /\ LinesOf("p") = {h}
         /\ file[h].keyword = "edge" /\ HasPair(h)
         /\ file[h].args[1] = n /\ file[h].args[2] = m
         /\ \A i \in DOMAIN file \ LinesOf("c") : i >= h
  BY DEF ParserInv, Complete, HeaderHeld
<1>2. n \in Nat /\ m \in Nat /\ Len(edges) = m /\ EdgesHeld /\ ColorsHeld
      /\ DOMAIN file = UNION {LinesOf(t) : t \in Types}
  BY DEF ParserInv, Complete
<1> QED BY <1>1, <1>2 DEF WellFormed, EdgesHeld, ColorsHeld, HasPair, Types

LEMMA IncompleteIllFormed ==
    ASSUME ParserInv, ~Complete
    PROVE  ~WellFormed
<1>1. CASE ~hasHeader
  <2>1. LinesOf("p") = {}
    <3>0. \A i \in DOMAIN file : i \in LinesOf("c")
      BY <1>1 DEF ParserInv
    <3>1. \A i \in DOMAIN file : file[i].type = "c"
      BY <3>0 DEF LinesOf
    <3> QED BY <3>1 DEF LinesOf
  <2> QED BY <2>1 DEF WellFormed
<1>2. CASE hasHeader
  <2>1. Len(edges) # m /\ HeaderHeld /\ EdgesHeld
    BY <1>2 DEF Complete, ParserInv
  <2> QED BY <2>1 DEF WellFormed, HeaderHeld, EdgesHeld
<1> QED BY <1>1, <1>2

-----------------------------------------------------------------------------
\* Lines of one type are untouched by a line of another.
LEMMA EdgesKept ==
    ASSUME ParserInv, NEW line \in Lines, file' = Append(file, line), line.type # "e",
           edges' = edges, hasHeader => n' = n
    PROVE  EdgesHeld'
<1>1. /\ LinesOf("e")' = LinesOf("e") /\ LinesOf("e") \subseteq 1 .. Len(file)
      /\ \A i \in 1 .. Len(file) : file'[i] = file[i]
  BY FileGrows DEF ParserInv
<1>2. \A i \in LinesOf("e") : file'[i] = file[i]
  BY <1>1
<1>3. GivenEdges' = GivenEdges
  BY <1>1, <1>2 DEF GivenEdges
<1>4. LinesOf("e") # {} => n' = n
  <2> SUFFICES ASSUME ~hasHeader PROVE LinesOf("e") = {}
    OBVIOUS
  <2>1. \A i \in DOMAIN file : i \in LinesOf("c")
    BY DEF ParserInv
  <2> QED BY <2>1 DEF LinesOf
<1>5. EdgesHeld
  BY DEF ParserInv
<1>6. \A i \in LinesOf("e") :
         (HasPair(i) /\ file[i].args[1] \in 1 .. n /\ file[i].args[2] \in 1 .. n)'
  BY <1>2, <1>4, <1>5 DEF EdgesHeld, HasPair
<1> QED BY <1>1, <1>3, <1>5, <1>6 DEF EdgesHeld

LEMMA ColorsKept ==
    ASSUME ParserInv, hasHeader, NEW line \in Lines, file' = Append(file, line), line.type # "n",
           hasColor' = hasColor, n' = n
    PROVE  ColorsHeld'
<1>1. /\ LinesOf("n")' = LinesOf("n") /\ LinesOf("n") \subseteq 1 .. Len(file)
      /\ \A i \in 1 .. Len(file) : file'[i] = file[i]
  BY FileGrows DEF ParserInv
<1>2. \A i \in LinesOf("n") : file'[i] = file[i]
  BY <1>1
<1>3. ColorsHeld
  BY DEF ParserInv
<1> QED BY <1>1, <1>2, <1>3 DEF ColorsHeld, HasPair

LEMMA HeaderKept ==
    ASSUME ParserInv, hasHeader, NEW line \in Lines, file' = Append(file, line), line.type # "p",
           n' = n, m' = m
    PROVE  HeaderHeld'
<1>1. /\ LinesOf("p")' = LinesOf("p")
      /\ LinesOf("c") \subseteq LinesOf("c")'
      /\ \A t : LinesOf(t) \subseteq 1 .. Len(file)
      /\ \A i \in 1 .. Len(file) : file'[i] = file[i]
      /\ DOMAIN file' = 1 .. Len(file)+1 /\ DOMAIN file = 1 .. Len(file) /\ Len(file) \in Nat
  <2>1. file \in Seq(Lines)
    BY DEF ParserInv
  <2>2. \A t : LinesOf(t)' = LinesOf(t) \cup (IF line.type = t THEN {Len(file)+1} ELSE {})
    BY <2>1, FileGrows
  <2>3. LinesOf("p")' = LinesOf("p") /\ LinesOf("c") \subseteq LinesOf("c")'
    BY <2>2
  <2> QED BY <2>1, <2>3, FileGrows
<1>2. PICK h \in LinesOf("p") :
         /\ LinesOf("p") = {h}
         /\ file[h].keyword = "edge" /\ HasPair(h)
         /\ file[h].args[1] = n /\ file[h].args[2] = m
         /\ \A i \in DOMAIN file \ LinesOf("c") : i >= h
  BY DEF ParserInv, HeaderHeld
<1>3. h \in 1 .. Len(file) /\ file'[h] = file[h]
  BY <1>1, <1>2
<1>4. HasPair(h)'
  BY <1>2, <1>3 DEF HasPair
<1>5. \A i \in DOMAIN file' \ LinesOf("c")' : i >= h
  <2>1. \A i \in DOMAIN file' : i \in DOMAIN file \/ i = Len(file)+1
    BY <1>1
  <2> QED BY <1>1, <1>2, <1>3, <2>1
<1> QED BY <1>1, <1>2, <1>3, <1>4, <1>5 DEF HeaderHeld

LEMMA SkipLineKeeps ==
    ASSUME ParserInv, NEW line \in Lines, SkipLine(line)
    PROVE  ParserInv'
<1>1. /\ file' = Append(file, line) /\ line.type = "c"
      /\ hasHeader' = hasHeader /\ n' = n /\ m' = m
      /\ edges' = edges /\ hasColor' = hasColor
  BY DEF SkipLine, GetLine, parser
<1>2. /\ file' \in Seq(Lines) /\ DOMAIN file' = 1 .. Len(file)+1 /\ DOMAIN file = 1 .. Len(file)
      /\ LinesOf("c")' = LinesOf("c") \cup {Len(file)+1} /\ Len(file) \in Nat
  BY <1>1, FileGrows DEF ParserInv
<1>3. (DOMAIN file = UNION {LinesOf(t) : t \in Types})'
  BY <1>1, TypesCover DEF Types
<1>4. EdgesHeld' /\ (hasHeader => HeaderHeld' /\ ColorsHeld')
  BY <1>1, EdgesKept, ColorsKept, HeaderKept
<1>5. ~hasHeader => DOMAIN file' = LinesOf("c")'
  <2>1. DOMAIN file' = DOMAIN file \cup {Len(file)+1}
    BY <1>2
  <2> QED BY <1>2, <2>1 DEF ParserInv
<1> QED BY <1>1, <1>2, <1>3, <1>4, <1>5 DEF ParserInv

LEMMA ReadHeaderKeeps ==
    ASSUME ParserInv, NEW line \in Lines, ReadHeader(line)
    PROVE  ParserInv'
<1>0. PICK k : k = Len(file) + 1
  OBVIOUS
<1>1. /\ file' = Append(file, line) /\ line.type = "p" /\ line.keyword = "edge"
      /\ hasHeader = FALSE /\ hasHeader' = TRUE
      /\ n' = line.args[1] /\ m' = line.args[2] /\ n' >= 0 /\ m' >= 0
      /\ Len(line.args) = 2
      /\ edges' = edges /\ hasColor' = [u \in 0 .. n'-1 |-> FALSE]
  <2>1. hasHeader \in BOOLEAN
    BY DEF ParserInv
  <2> QED BY <2>1 DEF ReadHeader, LegalHeader, GetLine, parser
<1>2. /\ file' \in Seq(Lines) /\ DOMAIN file' = 1 .. k /\ DOMAIN file = 1 .. k-1
      /\ file'[k] = line /\ k \in Nat \ {0} /\ line.args \in Seq(Int)
      /\ \A t : LinesOf(t) \subseteq 1 .. k-1
      /\ \A t : LinesOf(t)' = LinesOf(t) \cup (IF line.type = t THEN {k} ELSE {})
  <2>1. Len(file) = k-1 /\ k \in Nat \ {0}
    BY <1>0, <1>1, FileGrows DEF ParserInv
  <2> QED BY <1>0, <1>1, <2>1, FileGrows DEF ParserInv
<1>3. (DOMAIN file = UNION {LinesOf(t) : t \in Types})'
  BY <1>1, TypesCover DEF Types
<1>4. EdgesHeld'
  BY <1>1, EdgesKept
<1>5. DOMAIN file = LinesOf("c") /\ edges = <<>>
  BY <1>1 DEF ParserInv
<1>6. LinesOf("p") = {} /\ LinesOf("n") = {}
  <2>1. \A i \in DOMAIN file : i \in LinesOf("c")
    BY <1>5
  <2> QED BY <2>1 DEF LinesOf
<1>7. n' \in Nat /\ m' \in Nat /\ Len(edges') <= m'
  BY <1>1, <1>2, <1>5
<1>8. LinesOf("p")' = {k} /\ LinesOf("n")' = {} /\ LinesOf("c")' = LinesOf("c")
  BY <1>1, <1>2, <1>6
<1>9. HeaderHeld'
  <2>1. \A i \in DOMAIN file' \ LinesOf("c")' : i = k
    BY <1>2, <1>5, <1>8
  <2>2. file'[k] = line /\ k \in Nat
    BY <1>2
  <2>3. HasPair(k)'
    BY <1>1, <2>2 DEF HasPair
  <2>4. \A i \in DOMAIN file' \ LinesOf("c")' : i >= k
    BY <2>1, <2>2
  <2>5. file'[k].keyword = "edge" /\ file'[k].args[1] = n' /\ file'[k].args[2] = m'
    BY <1>1, <2>2
  <2> QED BY <1>8, <2>3, <2>4, <2>5 DEF HeaderHeld
<1>10. ColorsHeld'
  BY <1>1, <1>7, <1>8 DEF ColorsHeld
<1> QED BY <1>1, <1>2, <1>3, <1>4, <1>7, <1>9, <1>10 DEF ParserInv

LEMMA ReadEdgeKeeps ==
    ASSUME ParserInv, NEW line \in Lines, ReadEdge(line)
    PROVE  ParserInv'
<1>0. PICK k : k = Len(file) + 1
  OBVIOUS
<1> DEFINE e == <<line.args[1] - 1, line.args[2] - 1>>
<1>1. /\ file' = Append(file, line) /\ line.type = "e"
      /\ hasHeader /\ hasHeader' = hasHeader /\ n' = n /\ m' = m
      /\ Len(line.args) = 2 /\ line.args[1] \in 1 .. n /\ line.args[2] \in 1 .. n
      /\ Len(edges) < m /\ edges' = Append(edges, e) /\ hasColor' = hasColor
  BY DEF ReadEdge, LegalEdge, GetLine, parser
<1>2. /\ file' \in Seq(Lines)
      /\ file'[k] = line /\ k \in Nat \ {0}
      /\ \A i \in 1 .. k-1 : file'[i] = file[i]
      /\ \A t : LinesOf(t) \subseteq 1 .. k-1
      /\ LinesOf("e")' = LinesOf("e") \cup {k}
  <2>1. Len(file) = k-1 /\ k \in Nat \ {0} /\ file \in Seq(Lines)
    BY <1>0, <1>1, FileGrows DEF ParserInv
  <2>2. \A t : LinesOf(t)' = LinesOf(t) \cup (IF line.type = t THEN {Len(file)+1} ELSE {})
    BY <1>1, <2>1, FileGrows
  <2>3. LinesOf("e")' = LinesOf("e") \cup {k}
    BY <1>0, <1>1, <2>2
  <2> QED BY <1>0, <1>1, <2>1, <2>3, FileGrows
<1>3. (DOMAIN file = UNION {LinesOf(t) : t \in Types})'
  BY <1>1, TypesCover DEF Types
<1>4. HeaderHeld' /\ ColorsHeld' /\ n \in Nat /\ m \in Nat
  BY <1>1, HeaderKept, ColorsKept DEF ParserInv
<1>5. EdgesHeld
  BY DEF ParserInv
<1>6. e \in Nat \X Nat /\ e[1] = line.args[1] - 1 /\ e[2] = line.args[2] - 1
  <2>1. \A a \in 1 .. n : a-1 \in Nat
    BY <1>4
  <2>2. line.args[1] \in 1 .. n /\ line.args[2] \in 1 .. n
    BY <1>1
  <2>3. line.args[1] - 1 \in Nat /\ line.args[2] - 1 \in Nat
    BY <2>1, <2>2
  <2> QED BY <2>3
<1> HIDE DEF e
<1>7. /\ edges' \in Seq(Nat \X Nat) /\ Len(edges') = Len(edges) + 1 /\ Len(edges) \in Nat
      /\ edges'[Len(edges)+1] = e
      /\ \A j \in 1 .. Len(edges) : edges'[j] = edges[j]
  BY <1>1, <1>5, <1>6 DEF EdgesHeld
<1>8. k \notin LinesOf("e") /\ \A i \in LinesOf("e") : file'[i] = file[i]
  BY <1>2
<1>9. IsFiniteSet(LinesOf("e")') /\ Cardinality(LinesOf("e")') = Len(edges')
  <2>1. IsFiniteSet(LinesOf("e")) /\ Cardinality(LinesOf("e")) = Len(edges)
    BY <1>5 DEF EdgesHeld
  <2>2. /\ IsFiniteSet(LinesOf("e") \cup {k})
        /\ Cardinality(LinesOf("e") \cup {k}) =
              IF k \in LinesOf("e") THEN Cardinality(LinesOf("e")) ELSE Cardinality(LinesOf("e")) + 1
    BY <2>1, FS_AddElement
  <2> QED BY <1>2, <1>7, <1>8, <2>1, <2>2
<1>10. GivenEdges' = {{edges[j][1], edges[j][2]} : j \in 1 .. Len(edges)}'
  <2>1. GivenEdges' = GivenEdges \cup {{e[1], e[2]}}
    <3>1. file'[k].args[1] - 1 = e[1] /\ file'[k].args[2] - 1 = e[2]
      BY <1>2, <1>6
    <3> QED BY <1>2, <1>8, <3>1 DEF GivenEdges
  <2>2. {{edges[j][1], edges[j][2]} : j \in 1 .. Len(edges)}'
           = {{edges[j][1], edges[j][2]} : j \in 1 .. Len(edges)} \cup {{e[1], e[2]}}
    <3>1. 1 .. Len(edges') = (1 .. Len(edges)) \cup {Len(edges)+1}
      BY <1>7
    <3>2. \A j \in 1 .. Len(edges) : {edges'[j][1], edges'[j][2]} = {edges[j][1], edges[j][2]}
      BY <1>7
    <3>3. {edges'[Len(edges)+1][1], edges'[Len(edges)+1][2]} = {e[1], e[2]}
      BY <1>7
    <3>4. ASSUME NEW x
          PROVE  (\E j \in 1 .. Len(edges') : x = {edges'[j][1], edges'[j][2]})
                    <=> x = {e[1], e[2]} \/ \E j \in 1 .. Len(edges) : x = {edges[j][1], edges[j][2]}
      BY <3>1, <3>2, <3>3
    <3> QED BY <3>4
  <2> QED BY <1>5, <2>1, <2>2 DEF EdgesHeld
<1>11. \A i \in LinesOf("e")' :
          (HasPair(i) /\ file[i].args[1] \in 1 .. n /\ file[i].args[2] \in 1 .. n)'
  <2> SUFFICES ASSUME NEW i \in LinesOf("e")'
               PROVE  (HasPair(i) /\ file[i].args[1] \in 1 .. n /\ file[i].args[2] \in 1 .. n)'
    OBVIOUS
  <2>1. CASE i = k
    <3>1. file'[i] = line
      BY <1>2, <2>1
    <3> QED BY <1>1, <3>1 DEF HasPair
  <2>2. CASE i # k
    <3>1. i \in LinesOf("e") /\ file'[i] = file[i]
      BY <1>2, <1>8, <2>2
    <3> QED BY <1>1, <1>5, <3>1 DEF EdgesHeld, HasPair
  <2> QED BY <2>1, <2>2
<1>12. EdgesHeld'
  BY <1>7, <1>9, <1>10, <1>11 DEF EdgesHeld
<1>13. Len(edges') <= m'
  BY <1>1, <1>4, <1>7
<1> QED BY <1>1, <1>2, <1>3, <1>4, <1>12, <1>13 DEF ParserInv

LEMMA ReadColorKeeps ==
    ASSUME ParserInv, NEW line \in Lines, ReadColor(line)
    PROVE  ParserInv'
<1>0. PICK k : k = Len(file) + 1
  OBVIOUS
<1>1. /\ file' = Append(file, line) /\ line.type = "n"
      /\ hasHeader /\ hasHeader' = hasHeader /\ n' = n /\ m' = m /\ edges' = edges
      /\ Len(line.args) = 2 /\ line.args[1] \in 1 .. n /\ line.args[2] >= 1
      /\ ~hasColor[line.args[1] - 1]
      /\ hasColor' = [hasColor EXCEPT ![line.args[1] - 1] = TRUE]
  BY DEF ReadColor, LegalColor, GetLine, parser
<1>2. /\ file' \in Seq(Lines)
      /\ file'[k] = line /\ k \in Nat \ {0}
      /\ \A i \in 1 .. k-1 : file'[i] = file[i]
      /\ \A t : LinesOf(t) \subseteq 1 .. k-1
      /\ LinesOf("n")' = LinesOf("n") \cup {k}
  <2>1. Len(file) = k-1 /\ k \in Nat \ {0} /\ file \in Seq(Lines)
    BY <1>0, <1>1, FileGrows DEF ParserInv
  <2>2. \A t : LinesOf(t)' = LinesOf(t) \cup (IF line.type = t THEN {Len(file)+1} ELSE {})
    BY <1>1, <2>1, FileGrows
  <2>3. LinesOf("n")' = LinesOf("n") \cup {k}
    BY <1>0, <1>1, <2>2
  <2> QED BY <1>0, <1>1, <2>1, <2>3, FileGrows
<1>3. (DOMAIN file = UNION {LinesOf(t) : t \in Types})'
  BY <1>1, TypesCover DEF Types
<1>4. HeaderHeld' /\ EdgesHeld' /\ n \in Nat /\ m \in Nat /\ Len(edges) <= m
  BY <1>1, HeaderKept, EdgesKept DEF ParserInv
<1>5. ColorsHeld
  BY <1>1 DEF ParserInv
<1>6. /\ k \notin LinesOf("n") /\ \A i \in LinesOf("n") : file'[i] = file[i]
      /\ \A i \in LinesOf("n")' : i = k \/ i \in LinesOf("n")
  BY <1>2
<1> DEFINE u == line.args[1] - 1
<1>7. u \in 0 .. n-1
  BY <1>1, <1>4
<1>8. ASSUME NEW i \in LinesOf("n") PROVE file[i].args[1] # line.args[1]
  <2>1. ~hasColor[u] /\ \A v \in 0 .. n-1 : hasColor[v] <=> \E j \in LinesOf("n") : file[j].args[1] - 1 = v
    BY <1>1, <1>5 DEF ColorsHeld
  <2>2. file[i].args[1] - 1 # u
    BY <1>7, <2>1
  <2> QED BY <2>2
<1>9. hasColor' \in [0 .. n-1 -> BOOLEAN]
  BY <1>1, <1>5 DEF ColorsHeld
<1>10. ASSUME NEW v \in 0 .. n-1
       PROVE  hasColor'[v] <=> \E i \in LinesOf("n")' : file'[i].args[1] - 1 = v
  <2>1. hasColor'[v] <=> v = u \/ hasColor[v]
    <3>1. hasColor \in [0 .. n-1 -> BOOLEAN]
      BY <1>5 DEF ColorsHeld
    <3>2. CASE v = u
      BY <1>1, <3>1, <3>2
    <3>3. CASE v # u
      BY <1>1, <3>1, <3>3
    <3> QED BY <3>2, <3>3
  <2>2. hasColor[v] <=> \E i \in LinesOf("n") : file[i].args[1] - 1 = v
    BY <1>5 DEF ColorsHeld
  <2>3. file'[k].args[1] - 1 = u
    BY <1>2
  <2>4. (\E i \in LinesOf("n")' : file'[i].args[1] - 1 = v)
           <=> v = u \/ \E i \in LinesOf("n") : file[i].args[1] - 1 = v
    BY <1>2, <1>6, <2>3
  <2> QED BY <2>1, <2>2, <2>4
<1>11. \A i \in LinesOf("n")' :
          (HasPair(i) /\ file[i].args[1] \in 1 .. n /\ file[i].args[2] >= 1)'
  <2> SUFFICES ASSUME NEW i \in LinesOf("n")'
               PROVE  (HasPair(i) /\ file[i].args[1] \in 1 .. n /\ file[i].args[2] >= 1)'
    OBVIOUS
  <2>1. CASE i = k
    <3>1. file'[i] = line
      BY <1>2, <2>1
    <3> QED BY <1>1, <3>1 DEF HasPair
  <2>2. CASE i # k
    <3>1. i \in LinesOf("n") /\ file'[i] = file[i]
      BY <1>6, <2>2
    <3> QED BY <1>1, <1>5, <3>1 DEF ColorsHeld, HasPair
  <2> QED BY <2>1, <2>2
<1>12. \A i, j \in LinesOf("n")' : i # j => file'[i].args[1] # file'[j].args[1]
  <2>1. file'[k].args[1] = line.args[1]
    BY <1>2
  <2>2. \A i, j \in LinesOf("n") : i # j => file[i].args[1] # file[j].args[1]
    BY <1>5 DEF ColorsHeld
  <2> QED BY <1>6, <1>8, <2>1, <2>2
<1>13. ColorsHeld'
  BY <1>1, <1>9, <1>10, <1>11, <1>12 DEF ColorsHeld
<1> QED BY <1>1, <1>2, <1>3, <1>4, <1>13 DEF ParserInv

\* A line that is refused makes the file ill-formed.
LEMMA RefusedIllFormed ==
    ASSUME ParserInv, NEW line \in Lines, RejectLine(line)
    PROVE  ~WellFormed'
<1>0. PICK k : k = Len(file) + 1
  OBVIOUS
<1>1. /\ file' = Append(file, line) /\ line.type # "c"
      /\ ~LegalHeader(line) /\ ~LegalEdge(line) /\ ~LegalColor(line)
  BY DEF RejectLine, GetLine
<1>2. /\ file'[k] = line /\ k \in Nat \ {0} /\ line.args \in Seq(Int)
      /\ \A i \in 1 .. k-1 : file'[i] = file[i]
      /\ \A t : LinesOf(t) \subseteq 1 .. k-1
      /\ DOMAIN file = 1 .. k-1
      /\ \A t : LinesOf(t)' = LinesOf(t) \cup (IF line.type = t THEN {k} ELSE {})
  <2>1. Len(file) = k-1 /\ k \in Nat \ {0} /\ file \in Seq(Lines)
    BY <1>0, <1>1, FileGrows DEF ParserInv
  <2>2. \A t : LinesOf(t)' = LinesOf(t) \cup (IF line.type = t THEN {Len(file)+1} ELSE {})
    BY <1>1, <2>1, FileGrows
  <2> QED BY <1>0, <1>1, <2>1, <2>2, FileGrows
<1> SUFFICES ASSUME WellFormed' PROVE FALSE
  OBVIOUS
<1>3. PICK h \in LinesOf("p")' :
        /\ LinesOf("p")' = {h}
        /\ file'[h].keyword = "edge" /\ Len(file'[h].args) = 2
        /\ file'[h].args[1] >= 0 /\ file'[h].args[2] >= 0
        /\ (DOMAIN file = UNION {LinesOf(t) : t \in Types})'
        /\ Cardinality(LinesOf("e")') = file'[h].args[2]
        /\ \A i \in LinesOf("e")' :
              /\ Len(file'[i].args) = 2
              /\ file'[i].args[1] \in 1 .. file'[h].args[1]
              /\ file'[i].args[2] \in 1 .. file'[h].args[1]
        /\ \A i \in LinesOf("n")' :
              /\ Len(file'[i].args) = 2
              /\ file'[i].args[1] \in 1 .. file'[h].args[1]
              /\ file'[i].args[2] >= 1
        /\ \A i, j \in LinesOf("n")' : i # j => file'[i].args[1] # file'[j].args[1]
  BY DEF WellFormed, Types
<1>4. line.type \in {"p", "e", "n"}
  BY <1>1, <1>3, TypesCover DEF Types
<1>5. ~hasHeader => LinesOf("p") = {}
  <2> SUFFICES ASSUME ~hasHeader PROVE LinesOf("p") = {}
    OBVIOUS
  <2>1. \A i \in DOMAIN file : i \in LinesOf("c")
    BY DEF ParserInv
  <2> QED BY <2>1 DEF LinesOf
<1>6. hasHeader => /\ LinesOf("p") = {h} /\ file[h].args[1] = n /\ file[h].args[2] = m
                   /\ file'[h] = file[h] /\ n \in Nat /\ m \in Nat
  <2> SUFFICES ASSUME hasHeader
               PROVE  /\ LinesOf("p") = {h} /\ file[h].args[1] = n /\ file[h].args[2] = m
                      /\ file'[h] = file[h] /\ n \in Nat /\ m \in Nat
    OBVIOUS
  <2>1. PICK g \in LinesOf("p") : LinesOf("p") = {g} /\ file[g].args[1] = n /\ file[g].args[2] = m
    BY DEF ParserInv, HeaderHeld
  <2>2. g \in LinesOf("p")' /\ file'[g] = file[g]
    BY <1>2
  <2>3. g = h
    BY <1>3, <2>2
  <2> QED BY <2>1, <2>2, <2>3 DEF ParserInv
<1>7. CASE line.type = "p"
  <2>1. k \in LinesOf("p")'
    BY <1>2, <1>7
  <2>2. h = k /\ file'[h] = line
    BY <1>2, <1>3, <2>1
  <2>3. hasHeader
    BY <1>1, <1>3, <1>7, <2>2 DEF LegalHeader
  <2>4. h \in 1 .. k-1
    BY <1>2, <1>6, <2>3
  <2> QED BY <1>2, <2>2, <2>4
<1>8. CASE line.type # "p"
  <2>1. hasHeader
    BY <1>2, <1>3, <1>5, <1>8
  <2>2. ParserInv /\ HeaderHeld /\ EdgesHeld /\ ColorsHeld
    BY <2>1 DEF ParserInv
  <2>3. file'[h].args[1] = n /\ file'[h].args[2] = m
    BY <1>6, <2>1
  <2>4. CASE line.type = "e"
    <3>1. k \in LinesOf("e")' /\ LinesOf("e")' = LinesOf("e") \cup {k} /\ k \notin LinesOf("e")
      BY <1>2, <2>4
    <3>2. Len(line.args) = 2 /\ line.args[1] \in 1 .. n /\ line.args[2] \in 1 .. n
      BY <1>2, <1>3, <2>3, <3>1
    <3>3. ~(Len(edges) < m)
      BY <1>1, <2>1, <2>4, <3>2 DEF LegalEdge
    <3>4. Cardinality(LinesOf("e")') = Len(edges) + 1 /\ Len(edges) \in Nat
      <4>1. IsFiniteSet(LinesOf("e")) /\ Cardinality(LinesOf("e")) = Len(edges) /\ Len(edges) \in Nat
        BY <2>2 DEF EdgesHeld
      <4>2. Cardinality(LinesOf("e") \cup {k}) =
               IF k \in LinesOf("e") THEN Cardinality(LinesOf("e")) ELSE Cardinality(LinesOf("e")) + 1
        BY <4>1, FS_AddElement
      <4> QED BY <3>1, <4>1, <4>2
    <3> QED BY <1>3, <1>6, <2>1, <2>3, <3>3, <3>4
  <2>5. CASE line.type = "n"
    <3>1. k \in LinesOf("n")' /\ LinesOf("n")' = LinesOf("n") \cup {k} /\ k \notin LinesOf("n")
      BY <1>2, <2>5
    <3>2. Len(line.args) = 2 /\ line.args[1] \in 1 .. n /\ line.args[2] >= 1
      BY <1>2, <1>3, <2>3, <3>1
    <3>3. hasColor[line.args[1] - 1]
      BY <1>1, <2>1, <2>5, <3>2 DEF LegalColor
    <3>4. line.args[1] - 1 \in 0 .. n-1
      BY <1>6, <2>1, <3>2
    <3>5. PICK i \in LinesOf("n") : file[i].args[1] - 1 = line.args[1] - 1
      BY <2>2, <3>3, <3>4 DEF ColorsHeld
    <3>6. file[i].args[1] \in Int
      BY <2>2 DEF ColorsHeld
    <3>7. file'[i] = file[i] /\ i \in LinesOf("n")' /\ i # k
      BY <1>2, <3>1
    <3>8. file'[i].args[1] = file'[k].args[1]
      BY <1>2, <3>2, <3>5, <3>6, <3>7
    <3> QED BY <1>3, <3>1, <3>7, <3>8
  <2> QED BY <1>4, <1>8, <2>4, <2>5
<1> QED BY <1>7, <1>8

-----------------------------------------------------------------------------
(***************************************************************************)
(* The tool as a whole.                                                    *)
(***************************************************************************)
\* Every edge that was added joins two nodes.
AddedEdges ==
    /\ n <= option.nodes.maxNodes
    /\ done \in Nat
    /\ \A j \in 1 .. Len(edges) : j <= done => ~IsLoop(edges[j])

\* Up to what happens to instances that the library excludes.
ExitIsRight ==
    IF Reads /\ WellFormed
    THEN IF Unfit THEN exitCode = -1 ELSE exitCode \in {0, Crashed}
    ELSE exitCode = 1

\* The inductive invariant.
ToolInv ==
    /\ ArgumentsTyped
    /\ pc \in {"start", "open", "read", "process", "build", "exit"}
    /\ pc \in {"start", "open"} => file = <<>> /\ edges = <<>> /\ hasHeader = FALSE
    /\ pc \in {"open", "read", "process", "build"} =>
          LegalCommandLine /\ option = parse_options(argv)
    /\ pc \in {"read", "process", "build"} => Reads
    /\ pc # "exit" => ParserInv /\ exitCode = Running
    /\ pc \in {"process", "build"} => Complete
    /\ pc = "build" => AddedEdges
    /\ pc = "exit" => ExitIsRight
    /\ file # <<>> => Reads

LEMMA ToolStarts == Init => ToolInv
<1> SUFFICES ASSUME Init PROVE ToolInv
  OBVIOUS
<1>1. ArgumentsTyped
  BY InputAssumption DEF Init, ArgumentsTyped
<1>2. ParserInv
  BY ParserStarts DEF Init
<1> QED BY <1>1, <1>2 DEF Init, ToolInv

LEMMA SameArguments ==
    ASSUME argv' = argv
    PROVE  /\ ArgumentsTyped' <=> ArgumentsTyped
           /\ LegalCommandLine' <=> LegalCommandLine
           /\ Reads' <=> Reads
           /\ GivenStorage' = GivenStorage
<1>1. Options' = Options
  BY DEF Options, TakesNext
<1>2. NodeOptions' = NodeOptions /\ InputOptions' = InputOptions
  BY <1>1 DEF NodeOptions, InputOptions, OptionsNamed
<1>3. \A i : ValueOf(i)' = ValueOf(i)
  BY DEF ValueOf, TakesNext
<1>4. LegalCommandLine' <=> LegalCommandLine
  BY <1>1, <1>2, <1>3 DEF LegalCommandLine, TakesNext
<1>5. GivenStorage' = GivenStorage
  BY <1>2, <1>3 DEF GivenStorage
<1>6. GivenInput' = GivenInput
  BY <1>2, <1>3 DEF GivenInput
<1> QED BY <1>4, <1>5, <1>6 DEF Reads, ArgumentsTyped

LEMMA SameFile ==
    ASSUME file' = file
    PROVE  /\ WellFormed' <=> WellFormed
           /\ GivenEdges' = GivenEdges
           /\ (UNION {LinesOf(t) : t \in Types})' = UNION {LinesOf(t) : t \in Types}
<1>1. \A t : LinesOf(t)' = LinesOf(t)
  BY DEF LinesOf
<1>2. (UNION {LinesOf(t) : t \in Types})' = UNION {LinesOf(t) : t \in Types}
  <2>1. \A i : i \in (UNION {LinesOf(t) : t \in Types})' <=> \E t \in Types : i \in LinesOf(t)'
    BY DEF Types
  <2>2. \A i : i \in (UNION {LinesOf(t) : t \in Types})' <=> i \in UNION {LinesOf(t) : t \in Types}
    BY <1>1, <2>1
  <2> QED BY <2>2
<1>3. GivenEdges' = GivenEdges
  <2>1. \A i \in LinesOf("e") : file'[i] = file[i]
    OBVIOUS
  <2> QED BY <1>1, <2>1 DEF GivenEdges
<1>4. WellFormed' <=> WellFormed
  BY <1>1, <1>2 DEF WellFormed, Types
<1> QED BY <1>2, <1>3, <1>4

LEMMA SameParser ==
    ASSUME file' = file, parser' = parser
    PROVE  (ParserInv' <=> ParserInv) /\ (Complete' <=> Complete) /\ n' = n /\ edges' = edges
                /\ hasHeader' = hasHeader
<1>1. \A t : LinesOf(t)' = LinesOf(t)
  BY DEF LinesOf
<1>2. GivenEdges' = GivenEdges
  BY SameFile
<1>3. \A i : HasPair(i)' <=> HasPair(i)
  BY DEF HasPair
<1>4. (EdgesHeld' <=> EdgesHeld) /\ (ColorsHeld' <=> ColorsHeld) /\ (HeaderHeld' <=> HeaderHeld)
  BY <1>1, <1>2, <1>3 DEF EdgesHeld, ColorsHeld, HeaderHeld, parser
<1>5. /\ hasHeader' = hasHeader /\ n' = n /\ m' = m /\ edges' = edges
      /\ (UNION {LinesOf(t) : t \in Types})' = UNION {LinesOf(t) : t \in Types}
  BY SameFile DEF parser
<1>6. ParserInv' <=> ParserInv
  BY <1>1, <1>4, <1>5 DEF ParserInv
<1> QED BY <1>5, <1>6 DEF Complete

\* A loop among the edges is one of the file.
LEMMA LoopsGiven ==
    ASSUME EdgesHeld
    PROVE  (\E e \in GivenEdges : Cardinality(e) = 1) <=> \E j \in 1 .. Len(edges) : IsLoop(edges[j])
<1>1. ASSUME NEW a, NEW b PROVE Cardinality({a, b}) = 1 <=> a = b
  <2>1. CASE a = b
    <3>1. {a, b} = {a}
      BY <2>1
    <3> QED BY <2>1, <3>1, FS_Singleton
  <2>2. CASE a # b
    <3>1. IsFiniteSet({a}) /\ Cardinality({a}) = 1 /\ b \notin {a} /\ {a, b} = {a} \cup {b}
      BY <2>2, FS_Singleton
    <3>2. Cardinality({a} \cup {b}) = IF b \in {a} THEN Cardinality({a}) ELSE Cardinality({a}) + 1
      BY <3>1, FS_AddElement
    <3>3. Cardinality({a, b}) = 2
      BY <3>1, <3>2
    <3> QED BY <2>2, <3>3
  <2> QED BY <2>1, <2>2
<1>2. \A e : e \in GivenEdges <=> \E j \in 1 .. Len(edges) : e = {edges[j][1], edges[j][2]}
  BY DEF EdgesHeld
<1>3. \A j : Cardinality({edges[j][1], edges[j][2]}) = 1 <=> IsLoop(edges[j])
  BY <1>1 DEF IsLoop
<1> QED BY <1>2, <1>3

\* Steps before the first line.
LEMMA MainKeeps ==
    ASSUME ToolInv, ParseOptions \/ RejectOptions \/ OpenInput \/ RejectInput
    PROVE  ToolInv'
<1>1. argv' = argv /\ file' = file /\ parser' = parser
  BY DEF ParseOptions, RejectOptions, OpenInput, RejectInput, arguments
<1>2. /\ ArgumentsTyped' /\ (LegalCommandLine' <=> LegalCommandLine) /\ (Reads' <=> Reads)
      /\ ParserInv' <=> ParserInv
      /\ edges' = edges /\ hasHeader' = hasHeader
  BY <1>1, SameArguments, SameParser DEF ToolInv
<1>3. /\ Legal(parse_options(argv)) <=> LegalCommandLine
      /\ LegalCommandLine => parse_options(argv).input = GivenInput
  BY OptionsParsed DEF ToolInv
<1>4. CASE ParseOptions
  <2>1. /\ pc = "start" /\ pc' = "open" /\ Legal(parse_options(argv)) /\ exitCode' = exitCode
        /\ option' = parse_options(argv)
    BY <1>4 DEF ParseOptions
  <2>2. option' = parse_options(argv')
    BY <1>1, <2>1
  <2> QED BY <1>1, <1>2, <1>3, <2>1, <2>2 DEF ToolInv
<1>5. CASE RejectOptions
  <2>1. pc = "start" /\ pc' = "exit" /\ exitCode' = 1 /\ ~Reads
    BY <1>3, <1>5 DEF RejectOptions, Exit, Reads
  <2>2. ExitIsRight'
    BY <1>2, <2>1 DEF ExitIsRight
  <2> QED BY <1>1, <1>2, <2>1, <2>2 DEF ToolInv
<1>6. CASE OpenInput
  <2>1. pc = "open" /\ pc' = "read" /\ CanOpen /\ option' = option /\ exitCode' = exitCode
    BY <1>6 DEF OpenInput, arguments
  <2>2. LegalCommandLine /\ option = parse_options(argv)
    BY <2>1 DEF ToolInv
  <2>3. Reads
    BY <1>3, <2>1, <2>2 DEF Reads, CanOpen
  <2>4. option' = parse_options(argv')
    BY <1>1, <2>1, <2>2
  <2> QED BY <1>1, <1>2, <2>1, <2>2, <2>3, <2>4 DEF ToolInv
<1>7. CASE RejectInput
  <2>1. pc = "open" /\ pc' = "exit" /\ exitCode' = 1 /\ ~CanOpen
    BY <1>7 DEF RejectInput, Exit
  <2>2. LegalCommandLine /\ option = parse_options(argv)
    BY <2>1 DEF ToolInv
  <2>3. ~Reads
    BY <1>3, <2>1, <2>2 DEF Reads, CanOpen
  <2>4. ExitIsRight'
    BY <1>2, <2>1, <2>3 DEF ExitIsRight
  <2> QED BY <1>1, <1>2, <2>1, <2>4 DEF ToolInv
<1> QED BY <1>4, <1>5, <1>6, <1>7

\* Lines and the end of the file.
LEMMA ReadingKeeps ==
    ASSUME ToolInv, ReadLine \/ EndOfFile \/ RejectFile
    PROVE  ToolInv'
<1>1. argv' = argv /\ option' = option /\ pc = "read"
  BY DEF ReadLine, EndOfFile, RejectFile, SkipLine, ReadHeader, ReadEdge, ReadColor, RejectLine,
         GetLine, arguments
<1>2. /\ ParserInv /\ Reads /\ exitCode = Running
      /\ LegalCommandLine /\ option = parse_options(argv)
  BY <1>1 DEF ToolInv
<1>3. /\ ArgumentsTyped' /\ LegalCommandLine' /\ Reads'
      /\ option' = parse_options(argv')
  BY <1>1, <1>2, SameArguments DEF ToolInv
<1>4. ASSUME NEW line \in Lines,
             SkipLine(line) \/ ReadHeader(line) \/ ReadEdge(line) \/ ReadColor(line)
      PROVE  ToolInv'
  <2>1. pc' = "read" /\ exitCode' = exitCode
    BY <1>1, <1>4 DEF SkipLine, ReadHeader, ReadEdge, ReadColor
  <2>2. ParserInv'
    BY <1>2, <1>4, SkipLineKeeps, ReadHeaderKeeps, ReadEdgeKeeps, ReadColorKeeps
  <2> QED BY <1>2, <1>3, <2>1, <2>2 DEF ToolInv
<1>5. ASSUME NEW line \in Lines, RejectLine(line)
      PROVE  ToolInv'
  <2>1. pc' = "exit" /\ exitCode' = 1
    BY <1>5 DEF RejectLine, Exit
  <2>2. ~WellFormed'
    BY <1>2, <1>5, RefusedIllFormed
  <2>3. ExitIsRight'
    BY <2>1, <2>2 DEF ExitIsRight
  <2> QED BY <1>3, <2>1, <2>3 DEF ToolInv
<1>6. CASE EndOfFile
  <2>1. /\ pc' = "process" /\ Complete /\ file' = file /\ parser' = parser /\ exitCode' = exitCode
    BY <1>6 DEF EndOfFile
  <2>2. ParserInv' /\ Complete'
    BY <1>2, <2>1, SameParser
  <2> QED BY <1>2, <1>3, <2>1, <2>2 DEF ToolInv
<1>7. CASE RejectFile
  <2>1. pc' = "exit" /\ exitCode' = 1 /\ ~Complete /\ file' = file
    BY <1>7 DEF RejectFile, Exit
  <2>2. ~WellFormed'
    BY <1>2, <2>1, IncompleteIllFormed, SameFile
  <2>3. ExitIsRight'
    BY <2>1, <2>2 DEF ExitIsRight
  <2> QED BY <1>3, <2>1, <2>3 DEF ToolInv
<1> QED BY <1>4, <1>5, <1>6, <1>7 DEF ReadLine

\* process_instance.
LEMMA ProcessingKeeps ==
    ASSUME ToolInv,
           \/ TooLarge \/ NewContainers \/ SelfLoop \/ add_edge \/ set_color
           \/ ColorAborts \/ canonize \/ NoFirstEntry \/ OutOfMemory
    PROVE  ToolInv'
<1>1. /\ argv' = argv /\ option' = option /\ file' = file /\ parser' = parser
      /\ pc \in {"process", "build"}
  BY DEF TooLarge, NewContainers, SelfLoop, add_edge, set_color, ColorAborts, canonize,
         NoFirstEntry, OutOfMemory, SetsColor, Built, arguments
<1>2. /\ ParserInv /\ Complete /\ Reads /\ exitCode = Running
      /\ LegalCommandLine /\ option = parse_options(argv) /\ ArgumentsTyped
  BY <1>1 DEF ToolInv
<1>3. /\ ArgumentsTyped' /\ LegalCommandLine' /\ Reads' /\ GivenStorage' = GivenStorage
      /\ option' = parse_options(argv')
      /\ ParserInv' /\ Complete' /\ n' = n /\ edges' = edges
      /\ GivenEdges' = GivenEdges /\ WellFormed'
  BY <1>1, <1>2, SameArguments, SameParser, SameFile, AcceptedWellFormed
<1>4. /\ option.nodes = GivenStorage /\ option.nodes.maxNodes \in Nat
      /\ n \in Nat /\ Len(edges) \in Nat
  <2>1. option \in ParsedOptions(argv) /\ option.nodes = GivenStorage
    BY <1>2, OptionsParsed
  <2>2. option.nodes \in FixedStorages \cup {HeapStorage}
    BY <2>1, LimitsAssumption DEF ParsedOptions
  <2>3. option.nodes.maxNodes \in Nat
    BY <2>2, LimitsAssumption, StoragesAssumption
  <2>4. n \in Nat /\ Len(edges) \in Nat
    BY <1>2 DEF ParserInv, Complete, EdgesHeld
  <2> QED BY <2>1, <2>3, <2>4
<1>5. (\E e \in GivenEdges : Cardinality(e) = 1) <=> \E j \in 1 .. Len(edges) : IsLoop(edges[j])
  BY <1>2, LoopsGiven DEF ParserInv
<1>6. Unfit' <=> n > option.nodes.maxNodes \/ \E j \in 1 .. Len(edges) : IsLoop(edges[j])
  BY <1>3, <1>4, <1>5 DEF Unfit
<1>7. ASSUME pc' = "exit", IF Unfit' THEN exitCode' = -1 ELSE exitCode' \in {0, Crashed}
      PROVE  ToolInv'
  <2>1. ExitIsRight'
    BY <1>3, <1>7 DEF ExitIsRight
  <2> QED BY <1>1, <1>3, <1>7, <2>1 DEF ToolInv
<1>8. ASSUME pc' = "build", exitCode' = exitCode, AddedEdges'
      PROVE  ToolInv'
  BY <1>2, <1>3, <1>8 DEF ToolInv
<1>9. CASE TooLarge
  BY <1>6, <1>7, <1>9 DEF TooLarge, Exit
<1>10. CASE NewContainers
  <2>1. pc' = "build" /\ exitCode' = exitCode /\ done' = 0 /\ n <= option.nodes.maxNodes
    BY <1>10 DEF NewContainers
  <2>2. AddedEdges'
    BY <1>1, <1>3, <2>1 DEF AddedEdges
  <2> QED BY <1>8, <2>1, <2>2
<1>11. CASE SelfLoop
  <2>1. pc' = "exit" /\ exitCode' = -1 /\ pc = "build" /\ done < Len(edges) /\ IsLoop(edges[done+1])
    BY <1>11 DEF SelfLoop, Exit
  <2>2. done \in Nat
    BY <2>1 DEF ToolInv, AddedEdges
  <2>3. done+1 \in 1 .. Len(edges)
    BY <1>4, <2>1, <2>2
  <2>4. Unfit'
    BY <1>6, <2>1, <2>3
  <2> QED BY <1>7, <2>1, <2>4
<1>12. CASE add_edge
  <2>1. /\ pc = "build" /\ pc' = "build" /\ exitCode' = exitCode /\ done' = done + 1
        /\ ~IsLoop(edges[done+1])
    BY <1>12 DEF add_edge
  <2>2. AddedEdges
    BY <2>1 DEF ToolInv
  <2>3. \A j \in 1 .. Len(edges) : j <= done+1 => j <= done \/ j = done+1
    BY <2>2 DEF AddedEdges
  <2>4. AddedEdges'
    BY <1>1, <1>3, <2>1, <2>2, <2>3 DEF AddedEdges, IsLoop
  <2> QED BY <1>8, <2>1, <2>4
<1>13. ASSUME pc = "build", NextNode >= 0
       PROVE  AddedEdges /\ (\A j \in 1 .. Len(edges) : j <= done) /\ ~Unfit'
  <2>1. AddedEdges
    BY <1>13 DEF ToolInv
  <2>2. \A j \in 1 .. Len(edges) : j <= done
    BY <1>4, <1>13, <2>1 DEF AddedEdges, NextNode
  <2>3. \A j \in 1 .. Len(edges) : ~IsLoop(edges[j])
    BY <2>1, <2>2 DEF AddedEdges
  <2>4. ~(n > option.nodes.maxNodes)
    BY <1>4, <2>1 DEF AddedEdges
  <2> QED BY <1>6, <2>1, <2>2, <2>3, <2>4
<1>14. CASE set_color
  <2>1. /\ pc = "build" /\ pc' = "build" /\ exitCode' = exitCode /\ done' = done + 1
        /\ NextNode >= 0
    BY <1>14 DEF set_color, SetsColor
  <2>2. AddedEdges /\ \A j \in 1 .. Len(edges) : j <= done
    BY <1>13, <2>1
  <2>3. AddedEdges'
    BY <1>1, <1>3, <2>1, <2>2 DEF AddedEdges, IsLoop
  <2> QED BY <1>8, <2>1, <2>3
<1>15. CASE ColorAborts \/ canonize \/ NoFirstEntry \/ OutOfMemory
  <2>1. pc = "build" /\ pc' = "exit" /\ exitCode' \in {0, Crashed}
    BY <1>15 DEF ColorAborts, canonize, NoFirstEntry, OutOfMemory, SetsColor, Built, Exit
  <2>2. NextNode >= 0
    BY <1>4, <1>15 DEF ColorAborts, canonize, NoFirstEntry, OutOfMemory, SetsColor, Built
  <2>3. ~Unfit'
    BY <1>13, <2>1, <2>2
  <2> QED BY <1>7, <2>1, <2>3
<1> QED BY <1>9, <1>10, <1>11, <1>12, <1>14, <1>15

LEMMA ToolInvariance == Spec => []ToolInv
<1>1. ToolInv /\ [Next]_vars => ToolInv'
  <2> SUFFICES ASSUME ToolInv, [Next]_vars PROVE ToolInv'
    OBVIOUS
  <2>1. CASE Next
    BY <2>1, MainKeeps, ReadingKeeps, ProcessingKeeps DEF Next
  <2>2. CASE UNCHANGED vars
    <3>1. /\ argv' = argv /\ option' = option /\ file' = file /\ parser' = parser
          /\ done' = done /\ pc' = pc /\ exitCode' = exitCode
      BY <2>2 DEF vars, arguments, parser, containers
    <3>2. /\ ArgumentsTyped' /\ (LegalCommandLine' <=> LegalCommandLine) /\ (Reads' <=> Reads)
          /\ GivenStorage' = GivenStorage
          /\ ParserInv' <=> ParserInv
          /\ Complete' <=> Complete
          /\ n' = n /\ edges' = edges /\ hasHeader' = hasHeader
          /\ WellFormed' <=> WellFormed
          /\ GivenEdges' = GivenEdges
      BY <3>1, SameArguments, SameParser, SameFile DEF ToolInv
    <3>3. (Unfit' <=> Unfit) /\ (ExitIsRight' <=> ExitIsRight) /\ (AddedEdges' <=> AddedEdges)
      <4>1. Unfit' <=> Unfit
        BY <3>2 DEF Unfit
      <4> QED BY <3>1, <3>2, <4>1 DEF ExitIsRight, AddedEdges, IsLoop
    <3>4. option' = parse_options(argv') <=> option = parse_options(argv)
      BY <3>1
    <3> QED BY <3>1, <3>2, <3>3, <3>4 DEF ToolInv
  <2> QED BY <2>1, <2>2
<1> QED BY <1>1, ToolStarts, PTL DEF Spec

-----------------------------------------------------------------------------
(***************************************************************************)
(* What is canonized.  Hypotheses on the containers say what the matrix    *)
(* and the coloring do, see MatrixKeepsGraph and ColoringKeepsColors.      *)
(***************************************************************************)
AllStorages == FixedStorages \cup {HeapStorage}

Columns(storage, k) == 0 .. RowCapacity(storage, k) - 1

\* The number of bits of a matrix can be computed in a node_t.
BitsCounted(storage, k) ==
    RowCapacity(storage, k) * RowCapacity(storage, k) < 2^NodeBits

\* The buffers in B are matrices that keep what is added to them.
KeepsGraph(storage, k, B) ==
    /\ EmptyGraph(storage, k) \in B
    /\ \A x, y \in Columns(storage, k) : ~GetBit(storage, k, EmptyGraph(storage, k), x, y)
    /\ \A b \in B : \A u, v \in 0 .. k-1 : u # v =>
          /\ WithEdge(storage, k, b, u, v) \in B
          /\ \A x, y \in Columns(storage, k) :
                GetBit(storage, k, WithEdge(storage, k, b, u, v), x, y)
                   <=> GetBit(storage, k, b, x, y) \/ {x, y} = {u, v}

GraphsKept ==
    \A storage \in AllStorages : \A k \in Nat :
        k <= storage.maxNodes /\ BitsCounted(storage, k) => \E B : KeepsGraph(storage, k, B)

\* Colorings of k nodes with any numbers as colors.
Labellings(k) ==
    {q \in [color : [0 .. k-1 -> Nat], label : [0 .. k-1 -> 0 .. k-1]] :
        /\ \A i, j \in 0 .. k-1 : q.label[i] = q.label[j] => i = j
        /\ \A u \in 0 .. k-1 : \E i \in 0 .. k-1 : q.label[i] = u}

InColorOrder(k, q) == \A i \in 1 .. k-1 : q.color[q.label[i-1]] <= q.color[q.label[i]]

KeepsColors(k) ==
    /\ EmptyColoring(k) \in Labellings(k)
    /\ EmptyColoring(k).color = [u \in 0 .. k-1 |-> 0]
    /\ \A q \in Labellings(k) : \A u \in 0 .. k-1 : \A c \in Nat :
          /\ WithColor(k, q, u, c) \in Labellings(k)
          /\ WithColor(k, q, u, c).color = [q.color EXCEPT ![u] = c]
          /\ InColorOrder(k, q) => InColorOrder(k, WithColor(k, q, u, c))

ColoringsKept == \A k \in Nat \ {0} : KeepsColors(k)

\* The files say of no storage's matrix that it has more bits than a node_t counts.
FilesCounted ==
    \A line \in Lines : line.type = "p" /\ Len(line.args) = 2 =>
        \A storage \in AllStorages : line.args[1] \in 0 .. storage.maxNodes =>
            BitsCounted(storage, line.args[1])

\* (The provers have no exponentiation.)
ColorsCounted == \A storage \in AllStorages : 2^storage.colorBits \in Nat \ {0}

-----------------------------------------------------------------------------
\* The colors the parser has read.
ValuesHeld ==
    /\ colors \in [0 .. n-1 -> Nat]
    /\ \A i \in LinesOf("n") : colors[file[i].args[1] - 1] = file[i].args[2] - 1
    /\ \A v \in 0 .. n-1 : ~hasColor[v] => colors[v] = 0

\* The matrix g of k nodes holds the first d of the edges es.
HoldsEdges(storage, k, B, g, es, d) ==
    /\ KeepsGraph(storage, k, B)
    /\ g \in B
    /\ \A x, y \in Columns(storage, k) :
          GetBit(storage, k, g, x, y)
             <=> \E j \in 1 .. Len(es) : j <= d /\ {x, y} = {es[j][1], es[j][2]}

GraphHeld == \E B : HoldsEdges(option.nodes, n, B, graph, edges, done)

\* The coloring q of k nodes has the colors cs of the nodes below d.
HoldsColors(storage, k, q, cs, d) ==
    /\ q \in Labellings(k)
    /\ \A u \in 0 .. k-1 : q.color[u] = IF u < d THEN Narrowed(storage, cs[u]) ELSE 0
    /\ (\A u \in 0 .. k-1 : cs[u] < 2^storage.colorBits) => InColorOrder(k, q)

ColoringHeld == n > 0 => HoldsColors(option.nodes, n, coloring, colors, NextNode)

\* The inductive invariant, with ToolInv.
ContentInv ==
    /\ hasHeader /\ pc # "exit" => ValuesHeld
    /\ pc = "build" => GraphHeld /\ ColoringHeld
    /\ CanonizesFile

LEMMA ValuesStart ==
    ASSUME ParserInv, NEW line \in Lines, ReadHeader(line)
    PROVE  ValuesHeld'
<1>1. /\ file' = Append(file, line) /\ line.type = "p" /\ ~hasHeader
      /\ n' = line.args[1]
      /\ colors' = [u \in 0 .. n'-1 |-> 0]
  BY DEF ReadHeader, LegalHeader, GetLine
<1>2. LinesOf("n") = {}
  <2>1. \A i \in DOMAIN file : i \in LinesOf("c")
    BY <1>1 DEF ParserInv
  <2> QED BY <2>1 DEF LinesOf
<1>3. LinesOf("n")' = {}
  <2>1. \A t : LinesOf(t)' = LinesOf(t) \cup (IF line.type = t THEN {Len(file)+1} ELSE {})
    BY <1>1, FileGrows DEF ParserInv
  <2> QED BY <1>1, <1>2, <2>1
<1> QED BY <1>1, <1>3 DEF ValuesHeld

LEMMA ValuesKept ==
    ASSUME ParserInv, ValuesHeld, NEW line \in Lines, hasHeader, SkipLine(line) \/ ReadEdge(line)
    PROVE  ValuesHeld'
<1>1. /\ file' = Append(file, line) /\ line.type # "n"
      /\ n' = n /\ colors' = colors /\ hasColor' = hasColor
  BY DEF SkipLine, ReadEdge, LegalEdge, GetLine, parser
<1>2. /\ LinesOf("n")' = LinesOf("n") /\ LinesOf("n") \subseteq 1 .. Len(file)
      /\ \A i \in 1 .. Len(file) : file'[i] = file[i]
  BY <1>1, FileGrows DEF ParserInv
<1>3. \A i \in LinesOf("n") : file'[i] = file[i]
  BY <1>2
<1> QED BY <1>1, <1>2, <1>3 DEF ValuesHeld

LEMMA ValueRead ==
    ASSUME ParserInv, ValuesHeld, NEW line \in Lines, ReadColor(line)
    PROVE  ValuesHeld'
<1>0. PICK k : k = Len(file) + 1
  OBVIOUS
<1>1. PICK u : u = line.args[1] - 1
  OBVIOUS
<1>2. /\ file' = Append(file, line) /\ line.type = "n" /\ hasHeader
      /\ n' = n
      /\ line.args[1] \in 1 .. n /\ line.args[2] >= 1 /\ Len(line.args) = 2
      /\ ~hasColor[u]
      /\ colors' = [colors EXCEPT ![u] = line.args[2] - 1]
      /\ hasColor' = [hasColor EXCEPT ![u] = TRUE]
  BY <1>1 DEF ReadColor, LegalColor, GetLine
<1>3. /\ file'[k] = line
      /\ LinesOf("n")' = LinesOf("n") \cup {k}
      /\ k \notin LinesOf("n")
      /\ \A i \in LinesOf("n") : file'[i] = file[i]
      /\ line.args \in Seq(Int)
  <2>1. Len(file) = k-1 /\ k \in Nat \ {0} /\ file \in Seq(Lines)
    BY <1>0, <1>2, FileGrows DEF ParserInv
  <2>2. /\ \A t : LinesOf(t)' = LinesOf(t) \cup (IF line.type = t THEN {Len(file)+1} ELSE {})
        /\ LinesOf("n") \subseteq 1 .. Len(file)
        /\ \A i \in 1 .. Len(file) : file'[i] = file[i]
        /\ file'[Len(file)+1] = line
        /\ line.args \in Seq(Int)
    BY <1>2, <2>1, FileGrows
  <2>3. LinesOf("n")' = LinesOf("n") \cup {k}
    BY <1>0, <1>2, <2>2
  <2>4. k \notin LinesOf("n") /\ \A i \in LinesOf("n") : i \in 1 .. Len(file)
    BY <2>1, <2>2
  <2> QED BY <1>0, <2>2, <2>3, <2>4
<1>4. n \in Nat /\ ColorsHeld
  BY <1>2 DEF ParserInv
<1>5. u \in 0 .. n-1 /\ line.args[2] - 1 \in Nat
  <2>1. line.args[2] \in Int
    BY <1>2, <1>3
  <2>2. \A a \in 1 .. n : a-1 \in 0 .. n-1
    BY <1>4
  <2>3. \A a \in Int : a >= 1 => a-1 \in Nat
    OBVIOUS
  <2> QED BY <1>1, <1>2, <2>1, <2>2, <2>3
<1>6. colors' \in [0 .. n-1 -> Nat]
  BY <1>2, <1>5 DEF ValuesHeld
<1>7. ASSUME NEW i \in LinesOf("n")'
      PROVE  colors'[file'[i].args[1] - 1] = file'[i].args[2] - 1
  <2>1. CASE i = k
    BY <1>1, <1>2, <1>3, <1>5, <2>1 DEF ValuesHeld
  <2>2. CASE i # k
    <3>1. i \in LinesOf("n") /\ file'[i] = file[i]
      BY <1>3, <2>2
    <3>2. file[i].args[1] - 1 \in 0 .. n-1 /\ hasColor[file[i].args[1] - 1]
      <4>1. file[i].args[1] \in 1 .. n
        BY <1>4, <3>1 DEF ColorsHeld
      <4>2. file[i].args[1] - 1 \in 0 .. n-1
        BY <1>4, <4>1
      <4> QED BY <1>4, <3>1, <4>2 DEF ColorsHeld
    <3>3. file[i].args[1] - 1 # u
      BY <1>2, <3>2
    <3>4. colors[file[i].args[1] - 1] = file[i].args[2] - 1
      BY <3>1 DEF ValuesHeld
    <3> QED BY <1>2, <3>1, <3>2, <3>3, <3>4 DEF ValuesHeld
  <2> QED BY <2>1, <2>2
<1>8. ASSUME NEW v \in 0 .. n-1, ~hasColor'[v]
      PROVE  colors'[v] = 0
  <2>1. v # u /\ ~hasColor[v]
    BY <1>2, <1>4, <1>5, <1>8 DEF ColorsHeld
  <2> QED BY <1>2, <2>1 DEF ValuesHeld
<1> QED BY <1>2, <1>6, <1>7, <1>8 DEF ValuesHeld

-----------------------------------------------------------------------------
\* What process_instance starts from.
LEMMA InstanceRead ==
    ASSUME ToolInv, pc \in {"process", "build"}
    PROVE  /\ n \in Nat /\ Len(edges) \in Nat
           /\ ParserInv /\ Complete /\ HeaderHeld /\ EdgesHeld /\ ColorsHeld
           /\ option.nodes = GivenStorage /\ option.nodes \in AllStorages
           /\ option.nodes.maxNodes \in Nat
           /\ \A j \in 1 .. Len(edges) : edges[j][1] \in 0 .. n-1 /\ edges[j][2] \in 0 .. n-1
<1>1. /\ ParserInv /\ Complete /\ LegalCommandLine /\ option = parse_options(argv)
      /\ ArgumentsTyped
  BY DEF ToolInv
<1>2. /\ n \in Nat /\ HeaderHeld /\ EdgesHeld /\ ColorsHeld
  BY <1>1 DEF ParserInv, Complete
<1>3. Len(edges) \in Nat
  BY <1>2 DEF EdgesHeld
<1>4. option \in ParsedOptions(argv) /\ option.nodes = GivenStorage
  BY <1>1, OptionsParsed
<1>5. option.nodes \in AllStorages
  BY <1>4, LimitsAssumption DEF ParsedOptions, AllStorages
<1>6. option.nodes.maxNodes \in Nat
  BY <1>5, LimitsAssumption, StoragesAssumption DEF AllStorages
<1>7. ASSUME NEW j \in 1 .. Len(edges)
      PROVE  edges[j][1] \in 0 .. n-1 /\ edges[j][2] \in 0 .. n-1
  <2>1. {edges[j][1], edges[j][2]} \in GivenEdges
    BY <1>2 DEF EdgesHeld
  <2>2. PICK i \in LinesOf("e") :
           {edges[j][1], edges[j][2]} = {file[i].args[1] - 1, file[i].args[2] - 1}
    BY <2>1 DEF GivenEdges
  <2>3. file[i].args[1] \in 1 .. n /\ file[i].args[2] \in 1 .. n
    BY <1>2 DEF EdgesHeld
  <2>4. \A a \in 1 .. n : a-1 \in 0 .. n-1
    BY <1>2
  <2>5. \A x, y, a, b : {x, y} = {a, b} => (x = a \/ x = b) /\ (y = a \/ y = b)
    OBVIOUS
  <2>6. file[i].args[1] - 1 \in 0 .. n-1 /\ file[i].args[2] - 1 \in 0 .. n-1
    BY <2>3, <2>4
  <2> HIDE <2>4
  <2> QED BY <2>2, <2>5, <2>6
<1> QED BY <1>1, <1>2, <1>3, <1>4, <1>5, <1>6, <1>7

\* One step of each container.
LEMMA NoEdgeYet ==
    ASSUME NEW storage, NEW k, NEW B, KeepsGraph(storage, k, B), NEW es, Len(es) \in Nat
    PROVE  HoldsEdges(storage, k, B, EmptyGraph(storage, k), es, 0)
<1>1. \A j \in 1 .. Len(es) : ~(j <= 0)
  OBVIOUS
<1> QED BY <1>1 DEF HoldsEdges, KeepsGraph

LEMMA OneMoreEdge ==
    ASSUME NEW storage, NEW k, NEW B, NEW g, NEW es, NEW d \in Nat,
           HoldsEdges(storage, k, B, g, es, d),
           Len(es) \in Nat, d < Len(es),
           NEW u \in 0 .. k-1, NEW v \in 0 .. k-1, u # v,
           {u, v} = {es[d+1][1], es[d+1][2]}
    PROVE  HoldsEdges(storage, k, B, WithEdge(storage, k, g, u, v), es, d+1)
<1> DEFINE w == WithEdge(storage, k, g, u, v)
           Adds(b, p, r) ==
               /\ WithEdge(storage, k, b, p, r) \in B
               /\ \A x, y \in Columns(storage, k) :
                     GetBit(storage, k, WithEdge(storage, k, b, p, r), x, y)
                        <=> GetBit(storage, k, b, x, y) \/ {x, y} = {p, r}
<1>1. KeepsGraph(storage, k, B) /\ g \in B
  BY DEF HoldsEdges
<1>2. \A b \in B : \A p, r \in 0 .. k-1 : p # r => Adds(b, p, r)
  BY <1>1, Zenon DEF KeepsGraph
<1>3. Adds(g, u, v)
  <2> HIDE DEF Adds
  <2> QED BY <1>1, <1>2
<1>4. d+1 \in 1 .. Len(es) /\ \A j \in 1 .. Len(es) : j <= d+1 <=> j <= d \/ j = d+1
  OBVIOUS
<1>5. ASSUME NEW x \in Columns(storage, k), NEW y \in Columns(storage, k)
      PROVE  GetBit(storage, k, w, x, y)
                <=> \E j \in 1 .. Len(es) : j <= d+1 /\ {x, y} = {es[j][1], es[j][2]}
  <2>1. GetBit(storage, k, g, x, y)
           <=> \E j \in 1 .. Len(es) : j <= d /\ {x, y} = {es[j][1], es[j][2]}
    BY DEF HoldsEdges
  <2>2. GetBit(storage, k, w, x, y) <=> GetBit(storage, k, g, x, y) \/ {x, y} = {u, v}
    BY <1>3
  <2>3. (\E j \in 1 .. Len(es) : j <= d+1 /\ {x, y} = {es[j][1], es[j][2]})
           <=> \/ \E j \in 1 .. Len(es) : j <= d /\ {x, y} = {es[j][1], es[j][2]}
               \/ {x, y} = {u, v}
    BY <1>4
  <2> QED BY <2>1, <2>2, <2>3
<1> QED BY <1>1, <1>3, <1>5 DEF HoldsEdges

LEMMA NoColorYet ==
    ASSUME NEW storage, NEW k \in Nat, KeepsColors(k), NEW cs, NEW d \in Int, d <= 0
    PROVE  HoldsColors(storage, k, EmptyColoring(k), cs, d)
<1> DEFINE q == EmptyColoring(k)
<1>1. q \in Labellings(k) /\ q.color = [u \in 0 .. k-1 |-> 0]
  BY DEF KeepsColors
<1> HIDE DEF q
<1>2. \A i \in 0 .. k-1 : q.label[i] \in 0 .. k-1
  BY <1>1 DEF Labellings
<1>3. \A i \in 1 .. k-1 : i-1 \in 0 .. k-1 /\ i \in 0 .. k-1
  OBVIOUS
<1>4. \A i \in 0 .. k-1 : q.color[q.label[i]] = 0
  BY <1>1, <1>2
<1>5. InColorOrder(k, q)
  BY <1>3, <1>4 DEF InColorOrder
<1>6. \A u \in 0 .. k-1 : ~(u < d) /\ q.color[u] = 0
  BY <1>1
<1> QED BY <1>1, <1>5, <1>6 DEF HoldsColors, q

LEMMA NarrowedColor ==
    ASSUME ColorsCounted, NEW storage \in AllStorages, NEW c \in Nat
    PROVE  /\ Narrowed(storage, c) \in Nat
           /\ c < 2^storage.colorBits => Narrowed(storage, c) = c
<1> DEFINE w == 2^storage.colorBits
<1>1. w \in Nat \ {0}
  BY DEF ColorsCounted
<1> HIDE DEF w
<1>2. c % w \in 0 .. w-1 /\ (c < w => c % w = c)
  BY <1>1
<1>3. c % w \in Nat
  BY <1>1, <1>2
<1>4. Narrowed(storage, c) = c % w
  BY DEF Narrowed, w
<1> QED BY <1>2, <1>3, <1>4 DEF w

LEMMA OneMoreColor ==
    ASSUME ColorsCounted, NEW storage \in AllStorages, NEW k \in Nat, KeepsColors(k),
           NEW q, NEW cs \in [0 .. k-1 -> Nat], NEW u \in 0 .. k-1,
           HoldsColors(storage, k, q, cs, u),
           NEW new, new = [WithColor(k, q, u, cs[u]) EXCEPT !.color[u] = Narrowed(storage, @)]
    PROVE  HoldsColors(storage, k, new, cs, u+1)
<1>1. PICK w : w = WithColor(k, q, u, cs[u])
  OBVIOUS
<1>2. PICK c : c = cs[u]
  OBVIOUS
<1>3. PICK d : d = Narrowed(storage, c)
  OBVIOUS
<1>4. c \in Nat /\ d \in Nat /\ (c < 2^storage.colorBits => d = c)
  BY <1>2, <1>3, NarrowedColor
<1>5. q \in Labellings(k)
  BY DEF HoldsColors
<1>6. /\ w \in Labellings(k)
      /\ w.color = [q.color EXCEPT ![u] = c]
      /\ InColorOrder(k, q) => InColorOrder(k, w)
  BY <1>1, <1>2, <1>4, <1>5 DEF KeepsColors
<1>7. /\ q.color \in [0 .. k-1 -> Nat]
      /\ w = [color |-> w.color, label |-> w.label]
      /\ w.color \in [0 .. k-1 -> Nat] /\ w.label \in [0 .. k-1 -> 0 .. k-1]
      /\ \A i, j \in 0 .. k-1 : w.label[i] = w.label[j] => i = j
      /\ \A v \in 0 .. k-1 : \E i \in 0 .. k-1 : w.label[i] = v
  BY <1>5, <1>6 DEF Labellings
<1>8. w.color[u] = c
  BY <1>6, <1>7
<1>9. new = [color |-> [w.color EXCEPT ![u] = d], label |-> w.label]
  BY <1>1, <1>3, <1>7, <1>8
<1>10. [w.color EXCEPT ![u] = d] = [q.color EXCEPT ![u] = d]
  BY <1>6, <1>7
<1>11. /\ new.label = w.label
       /\ new.color = [q.color EXCEPT ![u] = d]
  BY <1>9, <1>10
<1>12. new \in Labellings(k)
  <2>1. [w.color EXCEPT ![u] = d] \in [0 .. k-1 -> Nat]
    BY <1>4, <1>7
  <2>2. \A f \in [0 .. k-1 -> Nat], l \in [0 .. k-1 -> 0 .. k-1] :
           [color |-> f, label |-> l] \in [color : [0 .. k-1 -> Nat], label : [0 .. k-1 -> 0 .. k-1]]
    OBVIOUS
  <2>3. new \in [color : [0 .. k-1 -> Nat], label : [0 .. k-1 -> 0 .. k-1]]
    BY <1>7, <1>9, <2>1, <2>2
  <2> QED BY <1>7, <1>11, <2>3 DEF Labellings
<1>13. \A v \in 0 .. k-1 : new.color[v] = IF v = u THEN d ELSE q.color[v]
  <2>1. PICK f : f = q.color
    OBVIOUS
  <2>2. f \in [0 .. k-1 -> Nat] /\ new.color = [f EXCEPT ![u] = d]
    BY <1>7, <1>11, <2>1
  <2>3. \A v \in 0 .. k-1 : [f EXCEPT ![u] = d][v] = IF v = u THEN d ELSE f[v]
    BY <2>2
  <2> QED BY <2>1, <2>2, <2>3
<1>14. ASSUME NEW v \in 0 .. k-1
       PROVE  new.color[v] = IF v < u+1 THEN Narrowed(storage, cs[v]) ELSE 0
  <2>1. CASE v = u
    <3>1. new.color[v] = d
      BY <1>13, <2>1
    <3>2. v < u+1
      BY <2>1
    <3> QED BY <1>2, <1>3, <2>1, <3>1, <3>2
  <2>2. CASE v # u
    <3>1. new.color[v] = q.color[v]
      BY <1>13, <2>2
    <3>2. v < u+1 <=> v < u
      BY <2>2
    <3> QED BY <3>1, <3>2 DEF HoldsColors
  <2> QED BY <2>1, <2>2
<1>15. ASSUME \A v \in 0 .. k-1 : cs[v] < 2^storage.colorBits
       PROVE  InColorOrder(k, new)
  <2>1. d = c
    BY <1>2, <1>4, <1>15
  <2>2. new.color = w.color /\ new.label = w.label
    BY <1>6, <1>11, <2>1
  <2>3. InColorOrder(k, w)
    BY <1>6, <1>15 DEF HoldsColors
  <2> QED BY <2>2, <2>3 DEF InColorOrder
<1> QED BY <1>12, <1>14, <1>15 DEF HoldsColors

LEMMA ContainersNew ==
    ASSUME GraphsKept, ColoringsKept, FilesCounted, ToolInv, ContentInv, NewContainers
    PROVE  GraphHeld' /\ ColoringHeld'
<1>1. /\ pc = "process" /\ n <= option.nodes.maxNodes
      /\ graph' = EmptyGraph(option.nodes, n) /\ coloring' = EmptyColoring(n) /\ done' = 0
      /\ option' = option /\ n' = n /\ edges' = edges /\ colors' = colors
  BY DEF NewContainers, arguments, parser
<1>2. /\ n \in Nat /\ Len(edges) \in Nat /\ ParserInv /\ HeaderHeld
      /\ option.nodes \in AllStorages /\ option.nodes.maxNodes \in Nat
  BY <1>1, InstanceRead
<1>3. BitsCounted(option.nodes, n)
  <2>1. PICK h \in LinesOf("p") : HasPair(h) /\ file[h].args[1] = n
    BY <1>2 DEF HeaderHeld
  <2>2. file[h] \in Lines /\ file[h].type = "p" /\ Len(file[h].args) = 2
    <3>1. file \in Seq(Lines)
      BY <1>2 DEF ParserInv
    <3>2. h \in DOMAIN file /\ file[h].type = "p"
      BY <2>1 DEF LinesOf
    <3>3. file[h] \in Lines
      BY <3>1, <3>2
    <3> QED BY <2>1, <3>2, <3>3 DEF HasPair
  <2>3. n \in 0 .. option.nodes.maxNodes
    BY <1>1, <1>2
  <2> QED BY <1>2, <2>1, <2>2, <2>3 DEF FilesCounted
<1>4. GraphHeld'
  <2>1. PICK B : KeepsGraph(option.nodes, n, B)
    BY <1>1, <1>2, <1>3 DEF GraphsKept
  <2>2. HoldsEdges(option.nodes, n, B, graph', edges, 0)
    BY <1>1, <1>2, <2>1, NoEdgeYet
  <2> QED BY <1>1, <2>2 DEF GraphHeld
<1>5. ColoringHeld'
  <2> SUFFICES ASSUME n > 0 PROVE ColoringHeld'
    BY <1>1 DEF ColoringHeld
  <2>1. KeepsColors(n)
    BY <1>2 DEF ColoringsKept
  <2>2. NextNode' \in Int /\ NextNode' <= 0
    BY <1>1, <1>2 DEF NextNode
  <2>3. HoldsColors(option.nodes, n, coloring', colors, NextNode')
    BY <1>1, <1>2, <2>1, <2>2, NoColorYet
  <2> QED BY <1>1, <2>3 DEF ColoringHeld
<1> QED BY <1>4, <1>5

LEMMA EdgeAdded ==
    ASSUME ToolInv, ContentInv, add_edge
    PROVE  GraphHeld' /\ ColoringHeld'
<1>0. PICK e : e = edges[done + 1]
  OBVIOUS
<1>1. /\ pc = "build" /\ done < Len(edges) /\ ~IsLoop(e)
      /\ graph' = WithEdge(option.nodes, n, graph, e[1], e[2])
      /\ done' = done + 1
      /\ option' = option /\ n' = n /\ edges' = edges /\ colors' = colors /\ coloring' = coloring
  BY <1>0 DEF add_edge, arguments, parser
<1>2. /\ n \in Nat /\ Len(edges) \in Nat
      /\ \A j \in 1 .. Len(edges) : edges[j][1] \in 0 .. n-1 /\ edges[j][2] \in 0 .. n-1
  BY <1>1, InstanceRead
<1>3. done \in Nat
  BY <1>1 DEF ToolInv, AddedEdges
<1>4. done + 1 \in 1 .. Len(edges)
  BY <1>1, <1>2, <1>3
<1>5. e[1] \in 0 .. n-1 /\ e[2] \in 0 .. n-1 /\ e[1] # e[2]
  BY <1>0, <1>1, <1>2, <1>4 DEF IsLoop
<1>6. GraphHeld'
  <2>1. PICK B : HoldsEdges(option.nodes, n, B, graph, edges, done)
    BY <1>1 DEF ContentInv, GraphHeld
  <2>2. HoldsEdges(option.nodes, n, B, graph', edges, done + 1)
    BY <1>0, <1>1, <1>2, <1>3, <1>5, <2>1, OneMoreEdge
  <2> QED BY <1>1, <2>2 DEF GraphHeld
<1>7. ColoringHeld'
  <2>1. \A u \in 0 .. n-1 : ~(u < NextNode) /\ ~(u < NextNode')
    BY <1>1, <1>2, <1>3 DEF NextNode
  <2>2. ColoringHeld
    BY <1>1 DEF ContentInv
  <2> QED BY <1>1, <2>1, <2>2 DEF ColoringHeld, HoldsColors
<1> QED BY <1>6, <1>7

LEMMA ColorAdded ==
    ASSUME ColoringsKept, ColorsCounted, ToolInv, ContentInv, set_color
    PROVE  GraphHeld' /\ ColoringHeld'
<1>0. PICK u : u = NextNode
  OBVIOUS
<1>1. /\ pc = "build" /\ u \in 0 .. n-1
      /\ coloring' = [WithColor(n, coloring, u, colors[u])
                         EXCEPT !.color[u] = Narrowed(option.nodes, @)]
      /\ done' = done + 1
      /\ option' = option /\ n' = n /\ edges' = edges /\ colors' = colors /\ graph' = graph
  BY <1>0 DEF set_color, SetsColor, arguments, parser
<1>2. /\ n \in Nat /\ Len(edges) \in Nat /\ option.nodes \in AllStorages /\ ParserInv /\ Complete
  BY <1>1, InstanceRead
<1>3. done \in Nat
  BY <1>1 DEF ToolInv, AddedEdges
<1>4. GraphHeld'
  <2>1. PICK B : HoldsEdges(option.nodes, n, B, graph, edges, done)
    BY <1>1 DEF ContentInv, GraphHeld
  <2>2. \A j \in 1 .. Len(edges) : j <= done /\ j <= done + 1
    BY <1>0, <1>1, <1>2, <1>3 DEF NextNode
  <2>3. HoldsEdges(option.nodes, n, B, graph, edges, done + 1)
    BY <2>1, <2>2 DEF HoldsEdges
  <2> QED BY <1>1, <2>3 DEF GraphHeld
<1>5. NextNode' = u + 1 /\ u \in Nat /\ n > 0
  BY <1>0, <1>1, <1>2, <1>3 DEF NextNode
<1>6. HoldsColors(option.nodes, n, coloring, colors, u)
  BY <1>0, <1>1, <1>5 DEF ContentInv, ColoringHeld
<1>7. colors \in [0 .. n-1 -> Nat]
  BY <1>1, <1>2 DEF ContentInv, Complete, ValuesHeld
<1>8. KeepsColors(n)
  BY <1>2, <1>5 DEF ColoringsKept
<1>9. HoldsColors(option.nodes, n, coloring', colors, u+1)
  BY <1>1, <1>2, <1>6, <1>7, <1>8, OneMoreColor
<1>10. ColoringHeld'
  BY <1>1, <1>5, <1>9 DEF ColoringHeld
<1> QED BY <1>4, <1>10

LEMMA SameValues ==
    ASSUME file' = file, parser' = parser
    PROVE  ValuesHeld' <=> ValuesHeld
<1>1. LinesOf("n")' = LinesOf("n")
  BY DEF LinesOf
<1> QED BY <1>1 DEF ValuesHeld, parser

\* What happens before the instance is built, and where the tool ends early.
LEMMA BeforeBuild ==
    ASSUME ToolInv, ContentInv,
           \/ ParseOptions \/ RejectOptions \/ OpenInput \/ RejectInput
           \/ ReadLine \/ EndOfFile \/ RejectFile \/ TooLarge \/ SelfLoop
           \/ ColorAborts \/ NoFirstEntry \/ OutOfMemory
    PROVE  ContentInv'
<1>1. exitCode = Running /\ pc # "exit" /\ ParserInv
  BY DEF ToolInv, ParseOptions, RejectOptions, OpenInput, RejectInput, ReadLine, EndOfFile, RejectFile,
         TooLarge, SelfLoop, SkipLine, ReadHeader, ReadEdge, ReadColor, RejectLine, GetLine,
         ColorAborts, NoFirstEntry, OutOfMemory, SetsColor, Built
<1>2. pc' # "build" /\ exitCode' # 0
  BY <1>1 DEF Running, Exit, ParseOptions, RejectOptions, OpenInput, RejectInput, ReadLine, EndOfFile,
         RejectFile, TooLarge, SelfLoop, SkipLine, ReadHeader, ReadEdge, ReadColor, RejectLine, GetLine,
         ColorAborts, NoFirstEntry, OutOfMemory, Crashed
<1>3. CanonizesFile'
  BY <1>2 DEF CanonizesFile
<1>4. ASSUME hasHeader', pc' # "exit" PROVE ValuesHeld'
  <2>1. CASE ReadLine
    <3>1. PICK line \in Lines :
             SkipLine(line) \/ ReadHeader(line) \/ ReadEdge(line) \/ ReadColor(line) \/ RejectLine(line)
      BY <2>1 DEF ReadLine
    <3>2. CASE ReadHeader(line)
      BY <1>1, <3>2, ValuesStart
    <3>3. CASE SkipLine(line) \/ ReadEdge(line) \/ ReadColor(line)
      <4>1. hasHeader
        BY <1>4, <3>3 DEF SkipLine, ReadEdge, LegalEdge, ReadColor, LegalColor, parser
      <4>2. ValuesHeld
        BY <1>1, <4>1 DEF ContentInv
      <4> QED BY <1>1, <3>3, <4>1, <4>2, ValuesKept, ValueRead
    <3>4. CASE RejectLine(line)
      BY <1>4, <3>4 DEF RejectLine, Exit
    <3> QED BY <3>1, <3>2, <3>3, <3>4
  <2>2. CASE ~ReadLine
    <3>1. parser' = parser /\ file' = file
      BY <2>2 DEF ParseOptions, RejectOptions, OpenInput, RejectInput, EndOfFile, RejectFile,
             TooLarge, SelfLoop, ColorAborts, NoFirstEntry, OutOfMemory
    <3>2. ValuesHeld
      BY <1>1, <1>4, <3>1 DEF ContentInv, parser
    <3> QED BY <3>1, <3>2, SameValues
  <2> QED BY <2>1, <2>2
<1> QED BY <1>2, <1>3, <1>4 DEF ContentInv

\* What canonize gets.
Colored(u) == {file[i].args[2] - 1 : i \in {j \in LinesOf("n") : file[j].args[1] = u + 1}}

TheEdges == \A u, v \in Columns(GivenStorage, n) :
                GetBit(GivenStorage, n, graph, u, v) <=> {u, v} \in GivenEdges

TheLabels == {coloring.label[p] : p \in 0 .. n-1} = 0 .. n-1

TheColors ==
    (\A i \in LinesOf("n") : file[i].args[2] <= 2^GivenStorage.colorBits) =>
        /\ \A u \in 0 .. n-1 : IF Colored(u) = {} THEN coloring.color[u] = 0
                               ELSE Colored(u) = {coloring.color[u]}
        /\ \A p \in 1 .. n-1 :
              coloring.color[coloring.label[p-1]] <= coloring.color[coloring.label[p]]

LEMMA ContentsSplit ==
    /\ CanonizesFile <=> (exitCode = 0 => TheEdges /\ TheLabels /\ TheColors)
    /\ CanonizesFile' <=> (exitCode' = 0 => TheEdges' /\ TheLabels' /\ TheColors')
BY DEF CanonizesFile, TheEdges, TheLabels, TheColors, Colored, Columns

LEMMA SameContents ==
    ASSUME argv' = argv, file' = file, n' = n, graph' = graph, coloring' = coloring
    PROVE  /\ TheEdges' <=> TheEdges
           /\ TheLabels' <=> TheLabels
           /\ TheColors' <=> TheColors
<1>1. GivenStorage' = GivenStorage /\ GivenEdges' = GivenEdges
  BY SameArguments, SameFile
<1>2. LinesOf("n")' = LinesOf("n")
  BY DEF LinesOf
<1>3. \A u : Colored(u)' = Colored(u)
  BY <1>2 DEF Colored
<1>4. TheEdges' <=> TheEdges
  BY <1>1 DEF TheEdges
<1>5. TheLabels' <=> TheLabels
  BY DEF TheLabels
<1>6. TheColors' <=> TheColors
  BY <1>1, <1>2, <1>3 DEF TheColors
<1> QED BY <1>4, <1>5, <1>6

LEMMA ColorsGiven ==
    ASSUME ColorsHeld, ValuesHeld, n \in Nat, NEW u \in 0 .. n-1
    PROVE  Colored(u) = IF hasColor[u] THEN {colors[u]} ELSE {}
<1>1. hasColor[u] <=> \E i \in LinesOf("n") : file[i].args[1] - 1 = u
  BY DEF ColorsHeld
<1>2. \A i \in LinesOf("n") : file[i].args[1] - 1 = u <=> file[i].args[1] = u + 1
  <2>1. \A a \in 1 .. n : a - 1 = u <=> a = u + 1
    OBVIOUS
  <2>2. \A i \in LinesOf("n") : file[i].args[1] \in 1 .. n
    BY DEF ColorsHeld
  <2> QED BY <2>1, <2>2
<1>3. \A i \in LinesOf("n") : file[i].args[1] = u + 1 => file[i].args[2] - 1 = colors[u]
  <2> SUFFICES ASSUME NEW i \in LinesOf("n"), file[i].args[1] = u + 1
               PROVE  file[i].args[2] - 1 = colors[u]
    OBVIOUS
  <2>1. file[i].args[1] - 1 = u
    BY <1>2
  <2>2. colors[file[i].args[1] - 1] = file[i].args[2] - 1
    BY DEF ValuesHeld
  <2> QED BY <2>1, <2>2
<1>4. ASSUME NEW c
      PROVE  c \in Colored(u) <=> hasColor[u] /\ c = colors[u]
  <2>1. c \in Colored(u) <=> \E i \in LinesOf("n") : file[i].args[1] = u + 1 /\ c = file[i].args[2] - 1
    BY DEF Colored
  <2> QED BY <1>1, <1>2, <1>3, <2>1
<1>5. CASE hasColor[u]
  BY <1>4, <1>5
<1>6. CASE ~hasColor[u]
  BY <1>4, <1>6
<1> QED BY <1>5, <1>6

LEMMA InstanceBuilt ==
    ASSUME ColorsCounted, ToolInv, ContentInv, Built
    PROVE  TheEdges /\ TheLabels /\ TheColors
<1>1. pc = "build" /\ NextNode = n
  BY DEF Built
<1>2. /\ n \in Nat /\ Len(edges) \in Nat
      /\ ParserInv /\ Complete /\ EdgesHeld /\ ColorsHeld
      /\ option.nodes = GivenStorage /\ option.nodes \in AllStorages
  BY <1>1, InstanceRead
<1>3. done \in Nat
  BY <1>1 DEF ToolInv, AddedEdges
<1>4. ValuesHeld
  BY <1>1, <1>2 DEF ContentInv, Complete
<1>5. TheEdges
  <2>1. PICK B : HoldsEdges(GivenStorage, n, B, graph, edges, done)
    BY <1>1, <1>2 DEF ContentInv, GraphHeld
  <2>2. \A j \in 1 .. Len(edges) : j <= done
    BY <1>1, <1>2, <1>3 DEF NextNode
  <2>3. \A e : e \in GivenEdges <=> \E j \in 1 .. Len(edges) : e = {edges[j][1], edges[j][2]}
    BY <1>2 DEF EdgesHeld
  <2>4. ASSUME NEW u \in Columns(GivenStorage, n), NEW v \in Columns(GivenStorage, n)
        PROVE  GetBit(GivenStorage, n, graph, u, v) <=> {u, v} \in GivenEdges
    <3>1. GetBit(GivenStorage, n, graph, u, v)
             <=> \E j \in 1 .. Len(edges) : j <= done /\ {u, v} = {edges[j][1], edges[j][2]}
      BY <2>1 DEF HoldsEdges
    <3>2. {u, v} \in GivenEdges <=> \E j \in 1 .. Len(edges) : {u, v} = {edges[j][1], edges[j][2]}
      BY <2>3
    <3> QED BY <2>2, <3>1, <3>2
  <2> QED BY <2>4 DEF TheEdges
<1>6. CASE n = 0
  <2>1. 0 .. n-1 = {} /\ 1 .. n-1 = {}
    BY <1>6
  <2>2. TheLabels
    BY <2>1 DEF TheLabels
  <2>3. TheColors
    BY <2>1 DEF TheColors
  <2> QED BY <1>5, <2>2, <2>3
<1>7. CASE n > 0
  <2>1. HoldsColors(GivenStorage, n, coloring, colors, n)
    BY <1>1, <1>2, <1>7 DEF ContentInv, ColoringHeld
  <2>2. /\ coloring.label \in [0 .. n-1 -> 0 .. n-1]
        /\ \A u \in 0 .. n-1 : \E i \in 0 .. n-1 : coloring.label[i] = u
    BY <2>1 DEF HoldsColors, Labellings
  <2>3. TheLabels
    BY <2>2 DEF TheLabels
  <2>4. ASSUME \A i \in LinesOf("n") : file[i].args[2] <= 2^GivenStorage.colorBits
        PROVE  \A u \in 0 .. n-1 : colors[u] < 2^GivenStorage.colorBits
    <3> TAKE u \in 0 .. n-1
    <3>1. PICK w : w = 2^GivenStorage.colorBits
      OBVIOUS
    <3>2. w \in Nat \ {0}
      BY <1>2, <3>1 DEF ColorsCounted
    <3>3. colors[u] \in Nat
      BY <1>4 DEF ValuesHeld
    <3>4. CASE hasColor[u]
      <4>1. PICK i \in LinesOf("n") : file[i].args[1] - 1 = u
        BY <1>2, <3>4 DEF ColorsHeld
      <4>2. colors[u] = file[i].args[2] - 1 /\ file[i].args[2] <= w
        BY <1>4, <2>4, <3>1, <4>1 DEF ValuesHeld
      <4>3. file[i].args[2] \in Int
        <5>1. file[i].args \in Seq(Int) /\ Len(file[i].args) = 2
          <6>1. file \in Seq(Lines) /\ i \in DOMAIN file
            <7>1. i \in DOMAIN file
              BY DEF LinesOf
            <7> QED BY <1>2, <7>1 DEF ParserInv
          <6>2. file[i] \in Lines
            BY <6>1
          <6> QED BY <1>2, <6>2, InputAssumption DEF ColorsHeld, HasPair
        <5> QED BY <5>1
      <4> QED BY <3>1, <3>2, <4>2, <4>3
    <3>5. CASE ~hasColor[u]
      BY <1>4, <3>1, <3>2, <3>5 DEF ValuesHeld
    <3> QED BY <3>4, <3>5
  <2>5. TheColors
    <3> SUFFICES ASSUME \A i \in LinesOf("n") : file[i].args[2] <= 2^GivenStorage.colorBits
                 PROVE  /\ \A u \in 0 .. n-1 : IF Colored(u) = {} THEN coloring.color[u] = 0
                                               ELSE Colored(u) = {coloring.color[u]}
                        /\ \A p \in 1 .. n-1 : coloring.color[coloring.label[p-1]]
                                                 <= coloring.color[coloring.label[p]]
      BY DEF TheColors
    <3>1. \A u \in 0 .. n-1 : colors[u] < 2^GivenStorage.colorBits
      BY <2>4
    <3>2. InColorOrder(n, coloring)
      BY <2>1, <3>1 DEF HoldsColors
    <3>3. ASSUME NEW u \in 0 .. n-1 PROVE coloring.color[u] = colors[u]
      <4>1. coloring.color[u] = Narrowed(GivenStorage, colors[u])
        <5>1. u < n
          BY <1>2
        <5> QED BY <2>1, <5>1 DEF HoldsColors
      <4>2. colors[u] \in Nat
        BY <1>4 DEF ValuesHeld
      <4> QED BY <1>2, <3>1, <4>1, <4>2, NarrowedColor
    <3>4. ASSUME NEW u \in 0 .. n-1
          PROVE  IF Colored(u) = {} THEN coloring.color[u] = 0
                 ELSE Colored(u) = {coloring.color[u]}
      <4>1. Colored(u) = IF hasColor[u] THEN {colors[u]} ELSE {}
        BY <1>2, <1>4, ColorsGiven
      <4>2. ~hasColor[u] => colors[u] = 0
        BY <1>4 DEF ValuesHeld
      <4> QED BY <3>3, <4>1, <4>2
    <3> QED BY <3>2, <3>4 DEF InColorOrder
  <2> QED BY <1>5, <2>3, <2>5
<1> QED BY <1>2, <1>6, <1>7

LEMMA ContentInvariance ==
    ASSUME GraphsKept, ColoringsKept, FilesCounted, ColorsCounted
    PROVE  Spec => [](ToolInv /\ ContentInv)
<1>1. Init => ContentInv
  <2> SUFFICES ASSUME Init PROVE ContentInv
    OBVIOUS
  <2>1. hasHeader = FALSE /\ pc = "start" /\ exitCode = Running
    BY DEF Init
  <2> QED BY <2>1 DEF ContentInv, CanonizesFile, Running
<1>2. ToolInv /\ ContentInv /\ [Next]_vars => ContentInv'
  <2> SUFFICES ASSUME ToolInv, ContentInv, [Next]_vars PROVE ContentInv'
    OBVIOUS
  <2>1. CASE \/ ParseOptions \/ RejectOptions \/ OpenInput \/ RejectInput
             \/ ReadLine \/ EndOfFile \/ RejectFile \/ TooLarge \/ SelfLoop
             \/ ColorAborts \/ NoFirstEntry \/ OutOfMemory
    BY <2>1, BeforeBuild
  <2>2. CASE NewContainers \/ add_edge \/ set_color
    <3>1. GraphHeld' /\ ColoringHeld'
      BY <2>2, ContainersNew, EdgeAdded, ColorAdded
    <3>2. /\ file' = file /\ parser' = parser
          /\ exitCode' = exitCode /\ exitCode = Running /\ pc # "exit"
      BY <2>2 DEF NewContainers, add_edge, set_color, SetsColor, ToolInv
    <3>3. ValuesHeld' <=> ValuesHeld
      BY <3>2, SameValues
    <3> QED BY <3>1, <3>2, <3>3 DEF ContentInv, CanonizesFile, Running, parser
  <2>3. CASE canonize
    <3>1. TheEdges /\ TheLabels /\ TheColors
      BY <2>3, InstanceBuilt DEF canonize
    <3>2. /\ argv' = argv /\ file' = file /\ n' = n /\ graph' = graph /\ coloring' = coloring
          /\ pc' = "exit"
      BY <2>3 DEF canonize, Exit, arguments, parser, containers
    <3>3. (TheEdges /\ TheLabels /\ TheColors)'
      BY <3>1, <3>2, SameContents
    <3>4. CanonizesFile'
      BY <3>3, ContentsSplit
    <3> QED BY <3>2, <3>4 DEF ContentInv
  <2>4. CASE UNCHANGED vars
    <3>1. /\ argv' = argv /\ option' = option /\ file' = file /\ parser' = parser
          /\ n' = n /\ edges' = edges /\ colors' = colors /\ hasHeader' = hasHeader
          /\ graph' = graph /\ coloring' = coloring /\ done' = done
          /\ pc' = pc /\ exitCode' = exitCode
      BY <2>4 DEF vars, arguments, parser, containers
    <3>2. ValuesHeld' <=> ValuesHeld
      BY <3>1, SameValues
    <3>3. (GraphHeld' <=> GraphHeld) /\ (ColoringHeld' <=> ColoringHeld)
      BY <3>1 DEF GraphHeld, ColoringHeld, NextNode
    <3>4. (TheEdges' <=> TheEdges) /\ (TheLabels' <=> TheLabels) /\ (TheColors' <=> TheColors)
      BY <3>1, SameContents
    <3>5. CanonizesFile' <=> CanonizesFile
      BY <3>1, <3>4, ContentsSplit
    <3> QED BY <3>1, <3>2, <3>3, <3>5 DEF ContentInv
  <2> QED BY <2>1, <2>2, <2>3, <2>4 DEF Next
<1> QED BY <1>1, <1>2, ToolInvariance, PTL DEF Spec

(***************************************************************************)
(* THEOREM.  For all files and storages whose matrices have no more bits   *)
(* than a node_t counts: canonize gets the file's edges, repeated or in    *)
(* either direction, with labels that enumerate the nodes, and if no color *)
(* is too large for the storage, the file's colors with labels in their    *)
(* order (dimacs_parser.hpp:49-102, devtool.cpp:54-74).                    *)
(***************************************************************************)
THEOREM InstanceIsCanonized ==
    ASSUME GraphsKept, ColoringsKept, FilesCounted, ColorsCounted
    PROVE  Spec => []CanonizesFile
<1>1. ContentInv => CanonizesFile
  BY DEF ContentInv
<1> QED BY <1>1, ContentInvariance, PTL

-----------------------------------------------------------------------------
(***************************************************************************)
(* The instances that the library excludes.                                *)
(***************************************************************************)
ColorLimit == IF asserts THEN n ELSE 2^GivenStorage.colorBits

\* The inductive invariant, with ToolInv and ContentInv.
OutcomeInv ==
    /\ pc = "build" /\ asserts => \A u \in 0 .. n-1 : u < NextNode => colors[u] < n
    /\ exitCode = Crashed => Excluded(ColorLimit)
    /\ exitCode = 0 /\ asserts => ~Excluded(n)

LEMMA ColorLine ==
    ASSUME ParserInv, ColorsHeld, ValuesHeld, n \in Nat, NEW i \in LinesOf("n")
    PROVE  /\ file[i].args[2] \in Int
           /\ file[i].args[1] - 1 \in 0 .. n-1
           /\ colors[file[i].args[1] - 1] = file[i].args[2] - 1
<1>1. i \in DOMAIN file
  BY DEF LinesOf
<1>2. file \in Seq(Lines)
  BY DEF ParserInv
<1>3. file[i] \in Lines
  BY <1>1, <1>2
<1>4. file[i].args \in Seq(Int)
  BY <1>3, InputAssumption
<1>5. file[i].args[1] \in 1 .. n /\ Len(file[i].args) = 2
  BY DEF ColorsHeld, HasPair
<1>6. file[i].args[2] \in Int
  BY <1>4, <1>5
<1>7. \A k \in 1 .. n : k - 1 \in 0 .. n-1
  OBVIOUS
<1> QED BY <1>5, <1>6, <1>7 DEF ValuesHeld

\* A color of at least limit was read from a line.
LEMMA ExcludedColor ==
    ASSUME ParserInv, ColorsHeld, ValuesHeld, NEW limit \in Nat \ {0}, n \in Nat, n > 0
    PROVE  Excluded(limit) <=> \E u \in 0 .. n-1 : colors[u] >= limit
<1>1. ASSUME NEW i \in LinesOf("n")
      PROVE  /\ file[i].args[2] \in Int /\ file[i].args[1] - 1 \in 0 .. n-1
             /\ colors[file[i].args[1] - 1] = file[i].args[2] - 1
  BY ColorLine
<1>2. ASSUME NEW i \in LinesOf("n"), file[i].args[2] > limit
      PROVE  \E u \in 0 .. n-1 : colors[u] >= limit
  BY <1>1, <1>2
<1>3. ASSUME NEW u \in 0 .. n-1, colors[u] >= limit
      PROVE  \E i \in LinesOf("n") : file[i].args[2] > limit
  <2>1. hasColor[u]
    BY <1>3 DEF ValuesHeld
  <2>2. PICK i \in LinesOf("n") : file[i].args[1] - 1 = u
    BY <2>1 DEF ColorsHeld
  <2>3. colors[u] = file[i].args[2] - 1 /\ file[i].args[2] \in Int
    BY <1>1, <2>2
  <2> QED BY <1>3, <2>3
<1> QED BY <1>2, <1>3 DEF Excluded

\* Every storage keeps the colors below the number of its nodes.
LEMMA StorageKeepsColors ==
    ASSUME ColorsCounted, NEW storage \in AllStorages
    PROVE  2^storage.colorBits \in Nat \ {0} /\ storage.maxNodes < 2^storage.colorBits
<1>1. 2^storage.colorBits \in Nat \ {0} /\ storage.maxNodes \in Nat
  BY LimitsAssumption, StoragesAssumption DEF ColorsCounted, AllStorages
<1>2. 2^storage.colorBits - 1 >= storage.maxNodes
  <2>1. CASE storage \in FixedStorages
    BY <2>1, StoragesAssumption
  <2>2. CASE storage = HeapStorage
    <3>1. storage.maxNodes = 2^NodeBits - 1 /\ storage.colorBits = NodeBits
      BY <2>2 DEF HeapStorage
    <3> QED BY <1>1, <3>1
  <2> QED BY <2>1, <2>2 DEF AllStorages
<1> QED BY <1>1, <1>2

LEMMA SameOutcome ==
    ASSUME asserts' = asserts, argv' = argv, file' = file, n' = n
    PROVE  /\ Excluded(ColorLimit)' <=> Excluded(ColorLimit)
           /\ Excluded(n)' <=> Excluded(n)
<1>1. LinesOf("n")' = LinesOf("n")
  BY DEF LinesOf
<1>2. GivenStorage' = GivenStorage
  BY SameArguments
<1> QED BY <1>1, <1>2 DEF Excluded, ColorLimit

\* How the steps on a complete instance end.
LEMMA OutcomeRight ==
    ASSUME ColorsCounted, ToolInv, ContentInv, OutcomeInv,
           ColorAborts \/ canonize \/ NoFirstEntry \/ OutOfMemory
    PROVE  OutcomeInv'
<1>1. /\ pc = "build" /\ pc' = "exit"
      /\ asserts' = asserts /\ argv' = argv /\ file' = file /\ n' = n
  BY DEF ColorAborts, canonize, NoFirstEntry, OutOfMemory, SetsColor, Built, Exit, arguments, parser
<1>2. /\ n \in Nat /\ ParserInv /\ Complete /\ ColorsHeld
      /\ option.nodes = GivenStorage /\ option.nodes \in AllStorages
  BY <1>1, InstanceRead
<1>3. ValuesHeld
  BY <1>1, <1>2 DEF ContentInv, Complete
<1>4. PICK w : w = 2^GivenStorage.colorBits
  OBVIOUS
<1>5. w \in Nat \ {0} /\ n < w
  <2>1. n <= option.nodes.maxNodes /\ option.nodes.maxNodes \in Nat
    BY <1>1, InstanceRead DEF ToolInv, AddedEdges
  <2> QED BY <1>2, <1>4, <2>1, StorageKeepsColors
<1>6. ColorLimit \in {n, w} /\ (asserts => ColorLimit = n)
  BY <1>4 DEF ColorLimit
<1>7. ASSUME exitCode' = Crashed, Excluded(ColorLimit) PROVE OutcomeInv'
  <2>1. Excluded(ColorLimit)'
    BY <1>1, <1>7, SameOutcome
  <2> QED BY <1>1, <1>7, <2>1 DEF OutcomeInv, Crashed
<1>8. CASE ColorAborts
  <2>1. NextNode \in 0 .. n-1 /\ asserts /\ colors[NextNode] >= n /\ exitCode' = Crashed
    BY <1>8 DEF ColorAborts, SetsColor, Exit
  <2>2. n > 0
    BY <1>2, <2>1
  <2>3. Excluded(n)
    BY <1>2, <1>3, <2>1, <2>2, ExcludedColor
  <2> QED BY <1>6, <1>7, <2>1, <2>3
<1>9. CASE canonize
  <2>1. exitCode' = 0 /\ NextNode = n /\ (asserts => n > 0)
    BY <1>9 DEF canonize, Built, Exit
  <2>2. ASSUME asserts PROVE ~Excluded(n)
    <3>1. \A u \in 0 .. n-1 : colors[u] < n /\ colors[u] \in Nat
      BY <1>1, <1>2, <1>3, <2>1, <2>2 DEF OutcomeInv, ValuesHeld
    <3>2. ~\E u \in 0 .. n-1 : colors[u] >= n
      BY <1>2, <3>1
    <3> QED BY <1>2, <1>3, <2>1, <2>2, <3>2, ExcludedColor
  <2> QED BY <1>1, <2>1, <2>2, SameOutcome DEF OutcomeInv, Crashed
<1>10. CASE NoFirstEntry
  BY <1>7, <1>10 DEF NoFirstEntry, Exit, Excluded
<1>11. CASE OutOfMemory
  <2>1. Built /\ ~Ordered /\ exitCode' = Crashed
    BY <1>11 DEF OutOfMemory, Exit
  <2>2. TheColors
    BY <2>1, InstanceBuilt
  <2>3. PICK i \in LinesOf("n") : ~(file[i].args[2] <= w)
    BY <1>4, <2>1, <2>2 DEF TheColors, Ordered
  <2>4. file[i].args[2] \in Int
    BY <1>2, <1>3, ColorLine
  <2>5. file[i].args[2] > ColorLimit
    BY <1>2, <1>5, <1>6, <2>3, <2>4
  <2> QED BY <1>7, <2>1, <2>5 DEF Excluded
<1> QED BY <1>8, <1>9, <1>10, <1>11

LEMMA OutcomeInvariance ==
    ASSUME GraphsKept, ColoringsKept, FilesCounted, ColorsCounted
    PROVE  Spec => [](ToolInv /\ ContentInv /\ OutcomeInv)
<1>1. Init => OutcomeInv
  BY DEF Init, OutcomeInv, Running, Crashed
<1>2. ToolInv /\ ContentInv /\ OutcomeInv /\ [Next]_vars => OutcomeInv'
  <2> SUFFICES ASSUME ToolInv, ContentInv, OutcomeInv, [Next]_vars PROVE OutcomeInv'
    OBVIOUS
  <2>1. CASE \/ ParseOptions \/ RejectOptions \/ OpenInput \/ RejectInput
             \/ ReadLine \/ EndOfFile \/ RejectFile \/ TooLarge \/ SelfLoop
    <3>1. exitCode = Running
      BY <2>1 DEF ToolInv, ParseOptions, RejectOptions, OpenInput, RejectInput, ReadLine, EndOfFile,
         RejectFile, TooLarge, SelfLoop, SkipLine, ReadHeader, ReadEdge, ReadColor, RejectLine, GetLine
    <3>2. pc' # "build" /\ exitCode' \in {Running, 1, -1}
      BY <2>1, <3>1 DEF Exit, ParseOptions, RejectOptions, OpenInput, RejectInput, ReadLine, EndOfFile,
         RejectFile, TooLarge, SelfLoop, SkipLine, ReadHeader, ReadEdge, ReadColor, RejectLine, GetLine
    <3> QED BY <3>2 DEF OutcomeInv, Running, Crashed
  <2>2. CASE NewContainers \/ add_edge \/ set_color
    <3>1. /\ exitCode' = exitCode /\ exitCode = Running
          /\ pc \in {"process", "build"} /\ option' = option
          /\ asserts' = asserts /\ n' = n /\ edges' = edges /\ colors' = colors
      BY <2>2 DEF NewContainers, add_edge, set_color, SetsColor, ToolInv, arguments, parser
    <3>2. n \in Nat /\ Len(edges) \in Nat
      BY <3>1, InstanceRead
    <3>3. ASSUME asserts, NEW u \in 0 .. n-1, u < NextNode' PROVE colors[u] < n
      <4>1. CASE NewContainers
        BY <3>1, <3>2, <3>3, <4>1 DEF NewContainers, NextNode
      <4>2. CASE add_edge
        <5>1. done < Len(edges) /\ done' = done + 1 /\ done \in Nat
          BY <4>2 DEF add_edge, ToolInv, AddedEdges
        <5> QED BY <3>1, <3>2, <3>3, <5>1 DEF NextNode
      <4>3. CASE set_color
        <5>1. /\ pc = "build" /\ colors[NextNode] < n /\ done' = done + 1 /\ done \in Nat
          BY <3>3, <4>3 DEF set_color, SetsColor, ToolInv, AddedEdges
        <5>2. u < NextNode \/ u = NextNode
          BY <3>1, <3>2, <3>3, <5>1 DEF NextNode
        <5> QED BY <3>3, <5>1, <5>2 DEF OutcomeInv
      <4> QED BY <2>2, <4>1, <4>2, <4>3
    <3> QED BY <3>1, <3>3 DEF OutcomeInv, Running, Crashed
  <2>3. CASE ColorAborts \/ canonize \/ NoFirstEntry \/ OutOfMemory
    BY <2>3, OutcomeRight
  <2>4. CASE UNCHANGED vars
    <3>1. /\ asserts' = asserts /\ argv' = argv /\ file' = file /\ n' = n
          /\ edges' = edges /\ colors' = colors /\ done' = done
          /\ pc' = pc /\ exitCode' = exitCode
      BY <2>4 DEF vars, arguments, parser, containers
    <3>2. /\ Excluded(ColorLimit)' <=> Excluded(ColorLimit)
          /\ Excluded(n)' <=> Excluded(n)
      BY <3>1, SameOutcome
    <3> QED BY <3>1, <3>2 DEF OutcomeInv, NextNode
  <2> QED BY <2>1, <2>2, <2>3, <2>4 DEF Next
<1> QED BY <1>1, <1>2, ContentInvariance, PTL DEF Spec

(***************************************************************************)
(* THEOREM.  For all command lines and files whose matrices have no more   *)
(* bits than a node_t counts, with assertions and without: nothing is read *)
(* unless the options are legal and the input exists, and a file is        *)
(* refused exactly if it is not well-formed.  Of the others the tool       *)
(* returns -1 exactly for those that do not fit the storage or have a      *)
(* loop.  Of the rest, with assertions, it returns 0 for those with a node *)
(* and colors below the number of nodes, and dies of all others; without,  *)
(* it may die only of those without a node or with a color that the        *)
(* storage does not keep (devtool_args.hpp:54-109,                         *)
(* dimacs_parser.hpp:28-102, devtool.cpp:38-113, naive.hpp:67,             *)
(* coloring.hpp:42, :119, :127).                                           *)
(***************************************************************************)
THEOREM ExitCodesAreRight ==
    ASSUME GraphsKept, ColoringsKept, FilesCounted, ColorsCounted
    PROVE  Spec => []ExitCodesRight
<1>1. ToolInv /\ OutcomeInv => ExitCodesRight
  <2> SUFFICES ASSUME ToolInv, OutcomeInv PROVE ExitCodesRight
    OBVIOUS
  <2>1. pc \in {"process", "build"} => Reads /\ WellFormed
    BY AcceptedWellFormed DEF ToolInv
  <2>2. ASSUME pc = "exit", Reads, WellFormed PROVE exitCode \in Outcomes
    <3>1. IF Unfit THEN exitCode = -1 ELSE exitCode \in {0, Crashed}
      BY <2>2 DEF ToolInv, ExitIsRight
    <3> QED BY <3>1 DEF OutcomeInv, ColorLimit, Outcomes, Crashed
  <2> QED BY <2>1, <2>2 DEF ToolInv, ExitIsRight, ExitCodesRight
<1> QED BY <1>1, OutcomeInvariance, PTL
=============================================================================
