\* One graph on 10 nodes and its reversal; heap storage.
CONSTANT N = 10
CONSTANT Graphs <- LostLeaf
CONSTANT InputColorings <- MCUncolored
CONSTANT Mappings <- MCReversal
CONSTANT Refine <- MCRefine
CONSTANT Compare <- CompareTriangle
SPECIFICATION TwiceSpec
INVARIANTS SameCanonicalForm
