# smallcanon in TLA+

smallcanon computes canonical labellings of small undirected graphs: two
isomorphic (colored) graphs get the same labelled graph. It is a header-only C++
library; everything runs in one thread and nothing is persisted, so what is hard
about it is not interleaving but the order of many small steps on shared buffers:
a backtracking search over frames that are copied, jumped over and resumed, a
union-find with unusual rules that prunes that search, in-place moves in a sorted
buffer, and bit arithmetic on several storage layouts.

## Inventory

| Part (source) | State | Operations | Correct if |
|---|---|---|---|
| `Coloring` (`coloring.hpp`), `select_first` (`selector.hpp`) | a color per node; the nodes in color order (`labels`) | `set_color` slides a label, `individualize` swaps one to the end of its class, `is_consistent`, selection of the first class with two nodes | labels always enumerate the nodes, in color order; an individualized node is alone in its class and the other classes are untouched |
| `AdjMatrix`, storages, `BitSpan` (`adj_matrix.hpp`, `bitspan.hpp`) | one buffer of words, a row of bits per node | `add_edge(s)`, `remove_edge(s)`, `permuted`, `edges`, `neighbors_of`, degree | the buffer is a simple graph for every word size and row capacity; return values; nothing outside the nodes' bits |
| `refine::Naive` (`refine/naive.hpp`, `utility.hpp`) | buffers for hashes and fingerprints; works on a coloring | `refine`, `refine_starting_at` | the coarsest equitable refinement, classes in the order they had, independent of node names |
| reorder and comparison (`reorder.hpp`, `compare_leaves.hpp`) | none | `reorder_graph`, `transpose`, `compare_leaves`, with special forms for 8 and 16 nodes | the matrix in label order; a total order of matrices |
| `Orbits` (`orbits.hpp`) | parent pointers and class sizes | `get_representative` (compresses), `union_orbits`, `record_isomorphic_colorings`, `orbit_size`, `clear` | no pointer cycle, exact sizes at roots, only equivalent nodes merged |
| `Solver`, `Leaf`, `SearchStack` (`ir.hpp`) | current coloring, stack of frames, best leaf (matrix, coloring, path, orbits, group size), `best_leaf_lca` | `canonize` | returns the least leaf of the search tree, and with it the same canonical form for isomorphic graphs; group order; terminates |
| AVX-512 refinement (`refine/avx512*`), SIMD sort and prefix sums (`simd/`) | registers | alternative refinements for 8 and 16 nodes | agree with `Naive` |
| graph6 parser and datasets (`parser.hpp`) | a line | `parse_graph6`, `read_dataset`, `read_graph_dataset` | every graph of a file in the smallest storage with room for it, unusable lines passed over |
| DIMACS parser, options and `devtool` (`cli/`) | options, a line, counters | text to matrix and coloring, one call of `canonize` | accept exactly legal options and well-formed input; hand the library only legal calls |
| tests, benchmarks, datasets | | drive the above | |

How they interact: `canonize` owns a copy of the graph; it calls the refinement on
the current coloring, the selector, `reorder_graph` and `compare_leaves` at a leaf,
and its own `Orbits` object inside the best leaf. The orbits are asked while the
pointer of the top frame advances, and grow when two leaves compare equal. All calls
are synchronous.

What is hard: the search keeps four things that must agree (the stack, the current
coloring, the best leaf and `best_leaf_lca`), and updates them in different branches;
orbits are cleared when a better leaf is found although vertices were already
skipped by them; the frame to resume at is only counted, not searched; a union may
be dropped; `set_color` and `individualize` rely on different preconditions. The list
of hazards, each at its line, is in `PROJECT.json`.

## Modules

Pure operators come first, state machines are built from them.

| Module | Models | Notes |
|---|---|---|
| `Coloring` | `coloring.hpp`, `selector.hpp` | a coloring is a record of the two buffers; one operator per call |
| `ColoringApi` | one coloring under any calls | actions `set_color`, `individualize` |
| `Hash32` | 32-bit arithmetic, `hash_fmix32` | words as pairs of 16-bit halves |
| `Naive` | `refine/naive.hpp` | a round of hashing and of fingerprints each is a function; `std::sort` is written as the insertion sort it is on up to 16 nodes |
| `RefineApi` | refine, individualize, refine, ... | as `canonize` and the tests call them, with one of the three refinements |
| `SortNetwork`, `Avx512` | `simd/sort_single_batch.hpp`, `simd/prefix.hpp`, `refine/avx512*` | a register is a function from lanes to words; lanes behind the nodes included |
| `VectorSort`, `VectorSortApi` | `simd/sort.hpp` | bitonic sort of several registers |
| `Leaves` | `reorder.hpp`, `compare_leaves.hpp` | a matrix is a function from nodes to the set of columns |
| `LeafForms` | the forms of `Leaves` for 8 and 16 nodes | one word of 64 bits, 16 lanes of 16 bits |
| `Renaming` | `AdjMatrix::permuted`, `permute_graph` of the tests | |
| `Orbits` | `orbits.hpp`, a call at a time | used by the search |
| `OrbitCalls` | the same calls as a state machine | abstract specification |
| `OrbitSteps` | the same calls, one pointer step at a time | history variable `recorded` |
| `OrbitRefinement` | | states that `OrbitSteps` implements `OrbitCalls` (`ImplementsCalls`) and that each return is the call of its own arguments (`ReturnsItsCall`) |
| `Solver` | `Solver::canonize` | one action per branch of the loop; `Refine` and `Compare` are operator constants |
| `SolverProperties` | what `canonize` must get right | unpruned tree and automorphism group as references |
| `CanonTwice` | the invariance test of `tests/canon.cpp` | two instances of `Solver` |
| `AdjMatrix`, `AdjMatrixApi` | `adj_matrix.hpp`, `bitspan.hpp` | the buffer as a function from word index to a set of bits |
| `Storages` | the storages of `adj_matrix.hpp`, `coloring.hpp` | a storage is a record of its sizes |
| `StoredMatrix` | `AdjMatrix` with a storage | the matrix of `n` nodes in a storage, `n` being a parameter |
| `BitSpan` | `bitspan.hpp` | words as numbers, with masks and bitwise operators, where `AdjMatrix` has sets of bits |
| `GraphCalls` | a set of edges with return values | abstract specification, implemented by `AdjMatrixApi` |
| `Graph6` | `parse_graph6` | characters as numbers, the number of bits in one is a constant |
| `Dataset` | the readers of `parser.hpp` | lines to matrices; uses `Graph6` and `StoredMatrix` |
| `DevtoolArgs` | `cli/devtool_args.hpp` | an argument is the sequence of its parts, an attached value being one |
| `Devtool`, `DevtoolProperties` | `cli/dimacs_parser.hpp`, `cli/devtool.cpp` | actions for options and input, one per kind of line, then per step of building the instance; the calls of graph and coloring are operator constants, which `MCDevtool` takes from `StoredMatrix` and `Coloring` for the number of nodes in the file |
| `InductionLemmas` | | least elements, iteration, walks along pointers, ranks, products and quotients: what the proofs use in place of induction |
| `RefineLemmas` | | what `set_color` and `individualize` do to a coloring, what hashing, the sorts and a round of `refine` compute; the sorting networks, and what the vectorised refinements leave |
| `ColoringProofs`, `RefineProofs`, `OrbitProofs`, `AdjMatrixProofs`, `SolverProofs`, `DevtoolProofs` | | theorems of `ColoringApi`, `RefineApi`, `OrbitRefinement`, `AdjMatrixApi`, `SolverProperties`, `DevtoolProperties` |
| `MC...` | instances for TLC | |

State and code: in `Solver` the variables `graph`, `coloring`, `stack`, `best`, `lca`
are the members and locals of `canonize` of those names (`best_leaf`,
`best_leaf_lca`); `input` remembers the argument. `pc` tells where the loop
is: `"select"` is the loop head with `is_backtrack = false`, `"scan"` the code after
the `if`, reached after a push or with `is_backtrack = true`. `InitialRefine` is the
call before the loop, `FirstLeaf`, `EqualLeaf`, `BetterLeaf`, `WorseLeaf` are the
branches at a discrete coloring including the backtracking that follows them, `Push`
selects and pushes, `SkipVertex` is one iteration of the pointer loop (including
the compression that `is_representative` leaves behind), `PopFrame` and
`IndividualizeVertex` are the two ways on. A frame's `vertex` is one past the vertex
individualized last, and so is an entry of `best.path`. Of `Stats` only the group size
is kept. In `Devtool` the variable `asserts` tells the two builds apart, with assertions
and without (`NDEBUG`), and the exit code `Crashed` stands for a process that ends before
`main` returns, whatever signal it ends by.

Definitions whose comment begins with "a faulty form" are not part of the model. They
are what a plausible mistake would make of the definition below them; with it
replaced by its faulty form, TLC finds the property violated (`PROJECT.json`,
"mutants").

## Runs

Bounds are the number of nodes `N` and the sets of graphs and colorings given in the
`.cfg` and `MC` modules; `devtool` also bounds
the lines of a file (`MaxLines`), and the storages the width of a node number
(`NodeBits`, 16 where no number of bits is to overflow). There are no other bounds, as
every state space is finite.

| Run | Bounds | Shows |
|---|---|---|
| `coloring_calls` | N = 4, all call sequences | labels remain an enumeration (`EnumerationKept`), `set_color` preserves color order, `individualize` splits exactly one class and keeps the documented invariant where it held |
| `refine_calls` | all 64 graphs with N = 4, 32 prepared colorings each, three refinements | coarsest equitable refinement, order of classes, independence of names; `is_consistent`, and behind the nodes one of the label paddings that the leaf forms are checked with (`RefinedConsistent`); the vectorised refinements run with 4 and 12 disabled lanes |
| `orbit_steps` | N = 4, all call sequences | class sizes grow along pointers, roots hold exact sizes, roots only vanish, calls return, the steps implement the calls |
| `adj_matrix` | N = 4, words of 2 bits, rows of 8, characters of 4 bits | the buffer implements a set of edges; rows span four words, the last two beyond the nodes. `SpanAgrees`: mask arithmetic on each row, and on its mirror image, in words of 1, 2, 4 and 8 bits does what the sets say; in 8 bits the row is a single word. Each graph is read back from graph6 (`ReadsBack`); its text has two characters, the second with padding. `DatasetReads`: a file with it, graphs below, at and above the size of each storage, and unusable lines between them |
| `vector_sort` | six shapes of up to 16 lanes, all inputs of bits | networks and bitonic merges sort |
| `devtool` | fourteen command lines, files of up to five of thirty lines; storages of 1, 2, 4, 8, 16 nodes and the heap, rows of one word but for the last two | exactly the legal options and well-formed files are accepted, exit codes, with assertions and without (`ExitCodesRight`); what is canonized is the file's instance, in the storage asked for (`CanonizesFile`) |
| `devtool_colors` | three lines | *violated*: see findings |
| `devtool_heap` | one line, `node_t` of 6 bits | *violated* |
| `solver_ties` | seven regular graphs, N = 8, the 8-lane AVX-512 refinement | `LcaExact`, `BestLeafReplays`, `OrbitsSound`, `FindsLeastLeaf`, `JumpJustified`. Regular graphs, as on others refinement leaves nothing to search; with a triangle beside a pentagon leaves come in all three orders. No lane is disabled: `EnginesAgree` compares the refinements at every individualization, `LeafFormsAgree` the leaf forms where the masks of the 8-node storage take their other branch |
| `solver_group` | one graph, N = 7 | *violated* |
| `canon_twice` | all graphs with N = 5 whose degrees do not grow with the node number, which is each in some numbering; three colorings, two of them as `set_color` leaves them; a renaming that moves four of the nodes | both solvers reach one canonical form (`SameCanonicalForm`). Of the first one: tree path, stack below its capacity, exact group order, leaf forms on a partly used storage (`LeafFormsAgree`). Both calls end (`Terminates`) |
| `canon_lost` | one graph, N = 10 | *violated* |

Bits are enough for `vector_sort`: minima and maxima commute with thresholds, so a
network that sorts all inputs of bits sorts all inputs.

Deadlock checking is off where the program stops: in `refine_calls` with a discrete
coloring, in `vector_sort` after the call, in `devtool` when `main` has returned. `canonize` ends in a loop of `Returned`.

Four nodes exercise each branch of the coloring, the orbits and the matrix: classes
of different sizes that merge in both directions, chains of pointers of length two, a
slide past several labels. They are too few for the search to meet a worse leaf, hence
the runs with more.

Fairness: the program is sequential, so a call that was entered goes on.
`OrbitSteps!FairSpec` is weak fairness of each step of a running call, never of a
call being made. `Solver!FairSpec` says that the loop goes on until it breaks out,
`<>(pc = "done")` infinitely often or infinitely many steps; that is weak fairness of
`Next` without `ENABLED`, whose evaluation would compute refinements again.
`CanonTwice!FairTwiceSpec` says the same of two calls one after the other.

## Findings

* `canon_lost`: the canonical form depends on the numbering. `union_orbits` makes the
  *larger* root the representative for classes of equal size, drops the union if
  the first class is at least as large and has the larger root (`orbits.hpp:53-59`),
  while the search skips non-representatives in increasing order
  (`ir.hpp:248-252`) and a better leaf clears the orbits it has skipped by. On a
  graph with 10 nodes and the comparison of the heap storage the least leaf is lost.
  `tests/canon.cpp:183` asserts that this does not happen.
* `solver_group`: for the same reason the group size is too small: 12 instead of 48
  on a graph with 7 nodes.
* `devtool_colors`: a well-formed file with the lines `p edge 2 1`, `n 2 9`, `e 1 2`
  makes `devtool` call `set_color` with color 8 on 2 nodes (`devtool.cpp:66`), against the
  assertion `coloring.hpp:119`; the parser checks only that colors are positive. With
  assertions the tool dies (`ColorAborts`). Without them the
  fixed storages keep eight bits of it (`coloring.hpp:127`), so `CanonizesFile` promises
  colors only where they fit. Colors that are cut can leave labels out of the order of the
  colors, on which the search may go on forever or push colorings until the memory
  is full (`OutOfMemory`).
* `devtool_heap`: the heap storage computes the number of its bits as a `node_t`
  (`adj_matrix.hpp:221`). From 32769 nodes on `row_capacity_` is at least 65536, whose
  square is 0 in 32 bits, and the buffer has no words, where the comment
  (`adj_matrix.hpp:218`) says "for at least row_capacity nodes". The run scales this
  down: a `node_t` of 6 bits and 5 nodes.

Without a run of its own: a graph without nodes, which both parsers accept, makes the
refinement read the first entry of an empty buffer (`naive.hpp:67`), and the selector
the first label (`selector.hpp:17`), against the assertion `coloring.hpp:42`. For the
header `p edge 0 0` `devtool` dies with assertions and may die without
(`NoFirstEntry`); `ExitCodesRight` says when. `individualize` on labels in color order need not give "its own new color
class" (`coloring.hpp:160`), as the position it takes as color can be the color of
another class after `set_color`; `canonize` refines first, which restores start
positions (`RefinedConsistent`). After a dropped union a node and its image under the
automorphism found stay in different orbits, where `compare_leaves.hpp:94` says that
the orbits are updated with it. `datasets/p5.dimacs` describes color lines as `v`, the
parser reads `n`. `set_color` itself leaves the documented class invariant
(`coloring.hpp:18-20`), and `edges()` yields the larger node first where its comment
says the smaller (`adj_matrix.hpp:103`). The early exit of `Naive::refine` for a
discrete coloring never happens, since the first node always resets `discrete`
(`naive.hpp:109-119`); the model leaves it out.

## Proofs

`tlapm` proves the theorems below for every number of nodes, from the named
assumptions of the modules (`N` is a positive natural number, a row is a whole number
of words with room for the nodes) and the hypotheses that a theorem states. The
provers have no induction over an arbitrary predicate, so the proofs argue from least and
greatest elements of sets of numbers (`HasLeast`, `HasGreatest`, `UpTo`), and read
recursive functions as any function that satisfies their equation, whose existence is
proved (`IterationExists`).

### Coloring

`LabelsEnumerate` (`EnumerationKept`), `SetColorSlidesRight` (`SetColorKeepsOrder`) and
`IndividualizeSplitsOff` (`IndividualizeSplits`). `EnumerationKept` says that labels are
nodes and differ; that every node has a label follows from it only by counting, so the
invariant `Enumerates` states it as well. It is what the search for a label needs to find
one. A slide is a rotation of the positions between the old and the new one, so labels
still enumerate; and it stops between the colors before and after, so they are still in
order. That needs no assumption on the color but that it is a node number, as `set_color`
asserts. `individualize` swaps two labels of one class and gives the last position as
color: its node is alone, the rest of the class keeps its color, no other class is touched.

`ColoringKeepsColors` is about any numbers as colors, since `devtool` passes on what a file
says (finding `devtool_colors`): `set_color` gives its node the color, leaves the others'
and keeps labels in order.

### Refinement

`RefinedIsConsistent` (`RefinedConsistent`), `ClassesKeepOrder` (`ClassOrderKept`),
`RefinementIsEquivariant` (`Equivariant`) and `StopsAboveEquitable` for all three
refinements, `RefinesToCoarsest` (`CoarsestEquitable`) for all but the one with 16 lanes;
`EnginesReachSameClasses` for the other two, whichever way they are called. The first five
say so of every set of graphs and colorings that `EnginesFit`: prepared colorings have their
labels in color order, as `set_color` leaves them, and each engine `Suits` each graph:

| Engine | Nodes | Graphs | Why |
|---|---|---|---|
| naive | up to 16 | any, loops and arcs included | the hash keys keep four bits of the color (`naive.hpp:60`) and `std::sort` is the insertion sort up to there |
| 8 lanes | up to 8 | simple | one lane for a node; three bits hold up to seven neighbours of a color |
| 16 lanes | up to 16 | simple | one lane for a node; it adds the hashes of columns where the naive one adds those of rows |

The invariant `RefineInv` keeps labels in order between calls, classes well-formed once
refined, and one of the paddings of `LeafForms` behind the nodes. What the refinements
leave is in `RefineLemmas`, which the proofs about the search use as well; that they are
coarse, equitable and independent of names is shown in `RefineProofs`.
Of the naive refinement:

* Nothing is used of `hash_fmix32` but that it is a function into words. The sums of
  neighbours' hashes do not depend on the order of their terms.
* The insertion sort yields a permutation in ascending order of keys, and numbering along
  a sort gives two nodes one color exactly if their keys are equal, and a smaller color to
  the smaller key.
* The keys of hashing begin with the old color, and so do fingerprints. So every step
  splits classes and keeps their order.
* A round that splits nothing leaves an equitable coloring, and there are at most N
  classes, so N-1 rounds suffice, although the first may do no more than renumber the
  colors left by hashing. A refinement that is equitable is never separated by a
  hash or a fingerprint, since both are functions of color and neighbours' colors.
* Two sorts of renamed keys have the same key at each place, although not the same
  node (`RankIsPlace`); numbers are assigned along keys, so the refinements of renamed
  inputs are renamed, round by round.

Of the vectorised ones:

* `BatchSorted`: `sort_single_batch` sorts every register, of 2, 4, 8 or 16 lanes or of
  several such groups, in both directions. A layer exchanges words in disjoint pairs of
  lanes; seen from a threshold it works on single bits (`RunWorksOnBits`), and that a
  network puts all bits in order is a question of propositional logic, which the provers
  answer (`Network8Sorts`, `Network16Sorts`).
* Fingerprints carry their lane in the lowest bits, so a sorted register is a permutation
  of lanes; disabled lanes have the largest color and the largest lane numbers, so they
  stay behind the nodes (`LastLanesStay`). Take the lane away, and equal neighbours are
  nodes of one class: `RoundSorts` and `NewColors` say of either engine that a round
  colors nodes by their keys, through the table of 8 lanes or the prefix maximum of 16.
* The loop compares only class starts. The starts grow with each round that is not the
  last (`WalkGrows`), as keys begin with the old color, so N+1 rounds suffice, which is the
  bound of the model's loop (`Iterated`): the loops of the code end.
* 8 lanes: if the last round starts no class, all counts of neighbours were equal in each
  class, because a count is at most seven and fits its three bits (`PackedApart`). If it
  stops since all nodes are apart, there is nothing left to split. So it ends
  equitable.
* 16 lanes: keys have 12 and 12 bits of a hash. Hashes are functions of what an equitable
  coloring keeps (`NextHashesTogether`), hence `StopsAboveEquitable`; that they tell apart
  what has to be is not a theorem, as hashes may collide, and only checked.
* Keys without their lane are carried along by a renaming, and so are class starts,
  which are counts of smaller keys (`StartsCarried`), and hashes (`NextHashesMatch`).

### Search

With arbitrary `Refine`, `Compare`, graphs and colorings: `StackIsTreePath`
(`FramesArePath`), `LcaIsShared` (`LcaExact`), `BestLeafIsOnItsPath` (`BestLeafReplays`).
`LcaExact` is not inductive. `LcaInv` strengthens it: below `lca` the pointers equal
the path; the pointer at `lca` never falls behind the path and is strictly ahead
whenever the search has descended from there; `lca` is 0 only when the search is over.
The last part is what makes the jump of `EqualLeaf` land on an existing frame.

From hypotheses on what `canonize` is given: `StackNeverFull` (`StackFits`), `TypesKept`
(`TypeOK`), `JumpIsJustified` (`JumpJustified`) and `OrbitsAreSound` (`OrbitsSound`).

| Hypothesis | Says | Why it holds |
|---|---|---|
| `CallsLegal` | labels of the argument enumerate the nodes in color order | what `set_color` leaves: `LabelsEnumerate`, `SetColorSlidesRight` |
| `RefinesApart` | a refinement separates what was separate and leaves colors that are start positions, as `ir.hpp:284` asserts | follows from the next one (`InOrderIsApart`) |
| `RefinesInOrder` | it also keeps the order of classes | `NaiveRefinesInOrder`: the naive refinement does, on up to 16 nodes; `VectorisedRefineInOrder`: so do the others, on simple graphs that fit their lanes |
| `EqualIsSame` | leaves that compare equal have one matrix | `EqualRowsAreSame`, `EqualNumbersAreSame`, `EqualTrianglesAreSame`: each of the three comparisons |

`TypesKept` and `StackNeverFull` need the first two, the others all. The stack:
every frame sets one node apart in a class of two or more, so N-1 frames would leave no such
class. The jump: a leaf has a trail, the colorings from the root down to it; `TInv`
adds to the invariant of the search that the best leaf has one. Two leaves below one frame refine it in its
own order, so the map between equal leaves fixes colors of the shared frame and with
them the shared path, it maps the matrix to itself, and it takes the vertex individualized
on one trail to that of the other. Orbits: `BestIsSound` says that nodes of one orbit are
related by automorphisms that fix the shared path, an equivalence; a step down the
path never happens while the best leaf stays, a better leaf starts with single nodes, and
an equal one records pairs that the map relates.

`SpecialFormsAgree` (`LeafFormsAgree`): the forms of `reorder_graph` and `compare_matrix` for
8 and 16 nodes stand for the generic ones at every leaf, for every number of nodes up to 8
or 16 and whatever the label buffer holds behind the nodes. A lane or cell number is taken
apart into the bits of its row and column; each stage of a transposition exchanges one bit
of both (`Stage1` to `Stage8`, `Swap1` to `Swap4`), so all stages transpose
(`RowsTransposed`, `WordTransposed`). The forms leave out the last transposition, so the
theorem needs `Graphs \subseteq SimpleGraphs`: `add_edge` keeps every matrix symmetric
(`MatrixIsSymmetric`). The masks of the comparisons keep exactly the nodes'
cells (`OnNodesHolds`, `LanesCompared`).

### Adjacency matrix

`NothingIsBeyondNodes` (`NothingBeyondNodes`), `MatrixIsSymmetric` (`Symmetric`),
`EdgesComeOnce` (`EdgesOnce`), `PermutedIsTheSameGraph` (`PermutedIsomorphic`) and
`MatrixImplementsGraph` (`ImplementsGraph`), for every word size, row capacity and number
of nodes. Each bit has one place in the buffer (`PlaceUnique`), so a write to one bit leaves
the others; the invariant is `HoldsGraph`, that the buffer has the words it should and
the bits are symmetric, without loops and within the nodes. With it each call changes the set of
edges as `GraphCalls` says, and returns what it says: `add_edges` counts the edges that
were new. `MatrixKeepsGraph` states what users of the matrix need of it: a new one has no
edge, and `add_edge` adds its edge and no other, up to the ends of the rows.

The hypothesis `BufferFits` says that a `node_t` can hold the number of bits,
`Capacity * Capacity < 2^NodeBits`. It is needed: the finding `devtool_heap` is a matrix
that violates it. The fixed storages fulfil it with 32 bits, the heap storage up to
32768 nodes.

### Command line tool

`ExitCodesAreRight` (`ExitCodesRight`) and `InstanceIsCanonized` (`CanonizesFile`), for
every command line and every file, for containers that do what `AdjMatrix` and
`Coloring` are proved to do: `EmptyGraph`, `WithEdge`, `EmptyColoring` and `WithColor`
are arbitrary but for the hypotheses below.
The assumptions say of the input only that an argument is one part or an option with its
value, and that the numbers of a line are integers (`InputAssumption`), and that the
storages are those of the code (`LimitsAssumption`).

* Options. The property tells options from values by position: the set `Options` leaves
  out the argument after an option that takes a value. The code decides by what it
  expects next. Both alternate in the same way (`OptionsAlternate`), so
  `parse_options` accepts exactly the legal command lines, and what it yields is the
  value of the last option of each kind (`OptionsParsed`).
* Parser. `ParserInv` says that header, counts, edges and the bit per node are what the
  lines so far say. With it a line is refused only in a file that no further lines could
  make well-formed, and a file is complete exactly if it is well-formed.
* Building. `AddedEdges` says that the edges added so far had no loop. So a loop is
  reported exactly if there is one, and colors are set only without.
* Instance. `ContentInv` adds to these invariants that the colors read are those of the
  lines so far (`ValuesHeld`), that the matrix holds the first `done` edges
  (`HoldsEdges`), and that the coloring has the colors of the nodes visited and 0 elsewhere, as
  narrow as the storage keeps them, in order if none is cut (`HoldsColors`).
* Outcome. `OutcomeInv` says that with assertions the colors set so far are below the number
  of nodes, and what the tool has died of. A color at or above a limit comes from a line
  that says so (`ExcludedColor`); every storage keeps the colors below its number of nodes
  (`StorageKeepsColors`), so with assertions no color is cut and labels out of order,
  which only a cut color leaves, do not occur.

Both theorems have these hypotheses:

| Hypothesis | Says | Why it holds |
|---|---|---|
| `GraphsKept` | a new matrix has no edge; `add_edge` adds its edge and no other, wherever a `node_t` counts the bits | `MatrixKeepsGraph` |
| `ColoringsKept` | `set_color` sets one node's color and keeps the order, for any numbers as colors | `ColoringKeepsColors` |
| `FilesCounted` | no header gives a number of nodes that a storage has room for but whose matrix has more bits than a `node_t` counts | it leaves out what the finding `devtool_heap` is about, and nothing else |
| `ColorsCounted` | `2^colorBits` is a positive number | arithmetic: the provers have no exponentiation |

### Model-checked only

* Liveness: `CallsReturn`, `Terminates`.
* `FindsLeastLeaf`, `GroupOrder`, `SameCanonicalForm`: false in general, as the findings
  show, hence true only of the graphs of their passing runs.
* That the 16-lane refinement ends equitable, and hence `EnginesAgree` where it takes
  part: it depends on the values of hashes.
* The sort of several registers (`SortsEveryInput`) and mask arithmetic (`SpanAgrees`):
  they hold for the fixed widths that the runs enumerate, and use
  recursive or bitwise operators that the provers do not read. One register: `BatchSorted`.
* The graph6 parser and reader (`ReadsBack`, `DatasetReads`): they fold over the bits of
  characters, by powers of two, and a statement about every text needs an induction over
  its length.

## Not modelled

Sorting networks of 32 and 64 lanes, prefix sums and minima; conversions between
register widths other than by their effect; printing and counters; graphs
without nodes in the search, but for how `devtool` may end on them; how the search goes
on labels out of order, but for how it may end; sorting more than 16 nodes, where ties have no fixed order;
group orders beyond the precision of a double; benchmarks, which only time the modelled
calls.

## Plan

1. `Coloring`, `Orbits`, `Naive`, `Solver`, `AdjMatrix` with their runs (done).
2. The 8- and 16-node forms of leaves against the generic ones (done); the AVX-512
   refinements under the properties of the naive one (done); sorting (done).
3. The DIMACS parser with `devtool` and its options, graph6, the dataset reader, all
   with their storages (done).
4. Full storages: refinements and leaf forms with 8 nodes in 8 lanes (done).
5. Proofs: coloring, orbits with their refinement, the matrix with its refinement, the
   search with its special leaf forms, the three refinements with the sorting network, the
   exit codes of `devtool` and what it canonizes (done). What is left is the
   reader of files: its choice of a storage and, as far as it goes without induction over
   the text, what it builds.
