\* Four nodes in rows of eight bits, four words to a row; two characters to a
\* graph.
CONSTANT N = 4
CONSTANT Word = 2
CONSTANT Capacity = 8
CONSTANT NodeBits = 16
CONSTANT CharBits = 4
SPECIFICATION Spec
INVARIANTS NothingBeyondNodes Symmetric EdgesOnce ReadsBack DatasetReads SpanAgrees
PROPERTIES PermutedIsomorphic ImplementsGraph
