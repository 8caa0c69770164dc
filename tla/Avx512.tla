------------------------------- MODULE Avx512 -------------------------------
(***************************************************************************)
(* The vectorised color refinements for at most 8 and at most 16 nodes     *)
(* (refine/avx512intrin8.inc, avx512intrin16.inc).  A lane is a node or,   *)
(* beyond the nodes, disabled.  A fingerprint is a word with the old color *)
(* in its top four bits and the lane in its lowest bits, split there for   *)
(* 8 lanes and into 16-bit halves for 16 lanes.                            *)
(***************************************************************************)
EXTENDS Naive, SortNetwork

DisabledColor == 15

\* A faulty form, for the mutants: the mask of disabled lanes is shifted by all of
\* its 64 bits, which leaves it as it is, when every lane is a node.
LaneColorsUnguarded(color, W) ==
    [u \in 0 .. W-1 |-> IF u \in Nodes /\ N # 8 THEN color[u] ELSE DisabledColor]

\* import_color, and disabled_colors of the 8-lane form.
LaneColors(color, W) ==
    [u \in 0 .. W-1 |-> IF u \in Nodes THEN color[u] ELSE DisabledColor]

LaneOf(word, W) == word[2] % W
WithoutLane(word, W) == <<word[1], word[2] \div W>>

\* enabled_eq_mask without rank 0.  The first disabled lane starts a class.
EnabledRanks(W) == {p \in 1 .. W-1 : p <= N}

\* new_color_mask, neq_mask: the ranks whose fingerprint differs from the one
\* before.
NewClasses(sorted, W) ==
    {p \in EnabledRanks(W) : WithoutLane(sorted[p], W) # WithoutLane(sorted[p-1], W)}

\* colors_from_mask8, by its table.
ColorsFromMask8(starts) == [p \in 0 .. 7 |-> Max({0} \cup {q \in starts : q <= p})]
\* colors_from_mask16, by a prefix maximum.
ColorsFromMask16(starts) == InclPrefixMax([p \in 0 .. 15 |-> IF p \in starts THEN p ELSE 0])

\* Colors by rank become colors by node: sort by node, drop the node.
ColorsByNode(W, label, color) ==
    LET sorted == SortBatch(W, TRUE, [p \in DOMAIN label |-> <<label[p], color[p]>>])
    IN  [u \in DOMAIN label |-> sorted[u][2]]

\* native_to_colors, native_to_labels; "diverged" is no coloring.
Exported(s) ==
    IF s.done THEN [color |-> [u \in Nodes |-> s.color[u]],
                    label |-> [p \in Positions |-> s.label[p]]]
    ELSE "diverged"

\* The labels are stored with all their lanes.
LabelsBehindNodes(s, W) == [p \in N .. W-1 |-> s.label[p]]

\* The loops end when no class is new or all nodes have classes of their own.
\* A round adds a class or is the last, which N+1 rounds show.
Iterated(Round(_), s0) ==
    LET after[r \in 0 .. N+1] ==
            IF r = 0 THEN s0
            ELSE LET s == after[r-1] IN IF s.done THEN s ELSE Round(s)
    IN  after[N+1]

-----------------------------------------------------------------------------
(***************************************************************************)
(* 8 lanes: the fingerprint holds, three bits each, the number of          *)
(* neighbours of each color.                                               *)
(***************************************************************************)
ColorCounts(g, color, u) ==
    LET count(c) == Cardinality({v \in g[u] : color[v] = c})
        packed[c \in 0 .. 8] == IF c = 0 THEN 0 ELSE 8 * packed[c-1] + count(8-c)
    IN  packed[8]

Fingerprints8(g, color) ==
    [u \in 0 .. 7 |->
        <<color[u], 8 * (IF u \in Nodes THEN ColorCounts(g, color, u) ELSE 0) + u>>]

Round8(g, s) ==
    LET sorted == SortBatch(8, TRUE, Fingerprints8(g, s.color))
        label  == [p \in 0 .. 7 |-> LaneOf(sorted[p], 8)]
        starts == NewClasses(sorted, 8)
    IN  IF starts = s.starts
        THEN [s EXCEPT !.label = label, !.done = TRUE]
        ELSE [color  |-> LaneColors(ColorsByNode(8, label, ColorsFromMask8(starts)), 8),
              label  |-> label,
              starts |-> starts,
              done   |-> starts = EnabledRanks(8)]

Avx8Final(g, k) ==
    Iterated(LAMBDA s : Round8(g, s),
             [color |-> LaneColors(k.color, 8), label |-> <<>>, starts |-> {0}, done |-> FALSE])

Avx8Refine(g, k) == Exported(Avx8Final(g, k))

-----------------------------------------------------------------------------
(***************************************************************************)
(* 16 lanes: the fingerprint holds 24 bits of a hash that goes on from     *)
(* round to round; it is not computed anew from the colors.                *)
(***************************************************************************)
ColorTable == <<
    <<64745, 52375>>, <<2624, 21312>>, <<41863, 64247>>, <<16059, 23884>>,
    <<51058, 7130>>, <<57141, 13937>>, <<53725, 6791>>, <<41709, 3056>>,
    <<38961, 61478>>, <<61524, 48630>>, <<17971, 42044>>, <<56270, 45409>>,
    <<34172, 59659>>, <<1934, 33543>>, <<24051, 12559>>, <<25436, 55870>> >>
DegreeTable == <<
    <<22060, 56952>>, <<58471, 41785>>, <<31476, 64879>>, <<34043, 4746>>,
    <<37425, 28026>>, <<18437, 61254>>, <<4033, 41061>>, <<55696, 57757>>,
    <<59274, 4370>>, <<58319, 65031>>, <<34876, 4534>>, <<29485, 58282>>,
    <<322, 19566>>, <<54563, 47270>>, <<31103, 56477>>, <<8117, 63444>> >>

\* The hash of lane u is hash[u+1].  The constructors of HashFingerprint; a
\* permutation reads four bits of its index.  Disabled lanes have no neighbours.
InitialHashes(g, color, first) ==
    LET degree(u) == IF u \in Nodes THEN Cardinality(g[u]) ELSE 0
        own(u) == ColorTable[(color[u] % 16) + 1]
    IN  [i \in 1 .. 16 |-> IF first THEN Xor32(own(i-1), DegreeTable[degree(i-1) + 1])
                           ELSE own(i-1)]

\* Every lane's hash is mixed, then node after node adds its old hash to the lanes
\* of its neighbours.
NextHashes(g, hash) ==
    LET old == [v \in Nodes |-> hash[v+1]]
    IN  [i \in 1 .. N |-> SumOf(old, {v \in Nodes : i-1 \in g[v]}, HashFmix32(hash[i]))]
        \o [i \in 1 .. 16-N |-> HashFmix32(hash[N+i])]

Fingerprints16(hash, color) ==
    [u \in 0 .. 15 |-> <<(hash[u+1][1] % 4096) + (color[u] % 16) * 4096,
                         (hash[u+1][2] \div 16) * 16 + u>>]

Round16(g, s) ==
    LET hash   == NextHashes(g, s.hash)
        sorted == SortBatch(16, TRUE, Fingerprints16(hash, s.color))
        label  == [p \in 0 .. 15 |-> LaneOf(sorted[p], 16)]
        starts == NewClasses(sorted, 16)
    IN  IF starts = s.starts
        THEN [s EXCEPT !.done = TRUE]
        ELSE [color  |-> ColorsByNode(16, label, ColorsFromMask16(starts)),
              label  |-> label,
              starts |-> starts,
              hash   |-> hash,
              done   |-> starts = EnabledRanks(16)]

\* `first' tells refine from refine_starting_at.
Avx16Final(g, k, first) ==
    Iterated(LAMBDA s : Round16(g, s),
             [color |-> LaneColors(k.color, 16), label |-> <<>>, starts |-> {0},
              hash |-> InitialHashes(g, LaneColors(k.color, 16), first), done |-> FALSE])

Avx16Refine(g, k, first) == Exported(Avx16Final(g, k, first))
=============================================================================
