\* Regular graphs on 8 nodes: leaves of all three outcomes of the comparison, here
\* the one of the storage for 8 nodes.
CONSTANT N = 8
CONSTANT Graphs <- Regular8
CONSTANT InputColorings <- MCUncolored
CONSTANT Refine <- MCAvx8
CONSTANT Compare <- CompareWord
SPECIFICATION Spec
INVARIANTS LcaExact BestLeafReplays OrbitsSound FindsLeastLeaf LeafFormsAgree EnginesAgree
PROPERTIES JumpJustified
