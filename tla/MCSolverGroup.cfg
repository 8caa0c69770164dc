\* The complement of a triangle beside a square: a group that is not counted in full.
CONSTANT N = 7
CONSTANT Graphs <- LostGroup
CONSTANT InputColorings <- MCUncolored
CONSTANT Refine <- MCNaive
CONSTANT Compare <- CompareWord
SPECIFICATION Spec
INVARIANTS GroupOrder
