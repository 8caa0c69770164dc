\* Every graph on 5 nodes, uncolored and colored, under a shuffling of the
\* node numbers; the comparison of the storages beyond 64 nodes.
CONSTANT N = 5
CONSTANT Graphs <- MCGraphs
CONSTANT InputColorings <- MCInputs
CONSTANT Mappings <- MCShuffle
CONSTANT Refine <- MCRefine
CONSTANT Compare <- CompareTriangle
SPECIFICATION FairTwiceSpec
INVARIANTS TypeOK FramesArePath StackFits GroupOrder LeafFormsAgree SameCanonicalForm
PROPERTIES Terminates
