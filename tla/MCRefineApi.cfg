\* All graphs on 4 nodes, 32 input colorings, three refinements.
CONSTANT N = 4
CONSTANT Engines = {"naive", "avx8", "avx16"}
CONSTANT RefinedGraphs <- MCGraphs
CONSTANT PreColorings <- MCPreColorings
SPECIFICATION Spec
INVARIANTS RefinedConsistent
PROPERTIES CoarsestEquitable ClassOrderKept Equivariant
CHECK_DEADLOCK FALSE
