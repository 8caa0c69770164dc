---------------------------- MODULE SortNetwork ----------------------------
(***************************************************************************)
(* Sorting the lanes of a vector register (simd/sort_single_batch.hpp) and *)
(* the inclusive prefix maximum (simd/prefix.hpp).  A register is a        *)
(* function from lanes 0 .. W-1 to words, a word a pair of its upper and   *)
(* lower part, compared as in Hash32.                                      *)
(***************************************************************************)
EXTENDS Hash32, FiniteSets, FiniteSetsExt, SequencesExt

\* The networks, layer by layer: <<x, y>> leaves the smaller word in lane x and
\* the larger one in lane y.
Network2 == << {<<0, 1>>} >>

Network4 == << {<<0, 2>>, <<1, 3>>}, {<<0, 1>>, <<2, 3>>}, {<<1, 2>>} >>

Network8 == <<
    {<<0, 1>>, <<3, 2>>, <<4, 5>>, <<7, 6>>},
    {<<0, 2>>, <<1, 3>>, <<6, 4>>, <<7, 5>>},
    {<<0, 1>>, <<2, 3>>, <<5, 4>>, <<7, 6>>},
    {<<0, 4>>, <<1, 5>>, <<2, 6>>, <<3, 7>>},
    {<<0, 2>>, <<1, 3>>, <<4, 6>>, <<5, 7>>},
    {<<0, 1>>, <<2, 3>>, <<4, 5>>, <<6, 7>>} >>

Network16 == <<
    {<<0, 5>>, <<1, 4>>, <<2, 12>>, <<3, 13>>, <<6, 7>>, <<8, 9>>, <<10, 15>>, <<11, 14>>},
    {<<0, 2>>, <<1, 10>>, <<3, 6>>, <<4, 7>>, <<5, 14>>, <<8, 11>>, <<9, 12>>, <<13, 15>>},
    {<<0, 8>>, <<1, 3>>, <<2, 11>>, <<4, 13>>, <<5, 9>>, <<6, 10>>, <<7, 15>>, <<12, 14>>},
    {<<0, 1>>, <<2, 4>>, <<3, 8>>, <<5, 6>>, <<7, 12>>, <<9, 10>>, <<11, 13>>, <<14, 15>>},
    {<<1, 3>>, <<2, 5>>, <<4, 8>>, <<6, 9>>, <<7, 11>>, <<10, 13>>, <<12, 14>>},
    {<<1, 2>>, <<3, 5>>, <<4, 11>>, <<6, 8>>, <<7, 9>>, <<10, 12>>, <<13, 14>>},
    {<<2, 3>>, <<4, 5>>, <<6, 7>>, <<8, 9>>, <<10, 11>>, <<12, 13>>},
    {<<4, 6>>, <<5, 7>>, <<8, 10>>, <<9, 11>>},
    {<<3, 4>>, <<5, 6>>, <<7, 8>>, <<9, 10>>, <<11, 12>>} >>

Smaller(v, w) == IF Below(w, v) THEN w ELSE v
Larger(v, w) == IF Below(w, v) THEN v ELSE w

\* A faulty form, for the mutants: only the first group is sorted.
LayerOfFirstGroup(layer, items, lanes) == layer

\* The layer in every group of `items' lanes.
LayerOfGroups(layer, items, lanes) ==
    {<<xy[1] + g * items, xy[2] + g * items>> : xy \in layer, g \in 0 .. (lanes \div items) - 1}

\* COMPARE_LAYER: a swizzle pairs the lanes, a blend takes the minimum in one of
\* them and the maximum in the other, which exchanges the pairs out of order.
CompareLayer(values, layer, ascending) ==
    LET exchanged == {xy \in layer : IF ascending THEN Below(values[xy[2]], values[xy[1]])
                                                  ELSE Below(values[xy[1]], values[xy[2]])}
        Exchanges(i) == {xy \in exchanged : i \in {xy[1], xy[2]}}
        Other(i, xy) == IF i = xy[1] THEN xy[2] ELSE xy[1]
    IN  [i \in DOMAIN values |->
            IF Exchanges(i) = {} THEN values[i]
            ELSE values[Other(i, CHOOSE xy \in Exchanges(i) : TRUE)]]

NetworkFor(items) == CASE items = 2 -> Network2   [] items = 4  -> Network4
                       [] items = 8 -> Network8   [] items = 16 -> Network16

\* sort_single_batch: consecutive groups of `items' lanes are sorted each.
SortBatch(items, ascending, values) ==
    LET network == NetworkFor(items)
        lanes == Cardinality(DOMAIN values)
        after[l \in 0 .. Len(network)] ==
            IF l = 0 THEN values
            ELSE CompareLayer(after[l-1], LayerOfGroups(network[l], items, lanes), ascending)
    IN  after[Len(network)]

\* Each step takes in the lane `offset' to the left; the lanes without one stay.
PrefixStep(values, offset) ==
    [i \in DOMAIN values |->
        IF i >= offset THEN Max({values[i], values[i-offset]}) ELSE values[i]]

\* incl_prefix_max, on registers of up to 16 lanes.
InclPrefixMax(values) == PrefixStep(PrefixStep(PrefixStep(PrefixStep(values, 1), 2), 4), 8)
=============================================================================
