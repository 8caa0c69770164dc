\* Every sequence of mutator calls on 4 nodes.
CONSTANT N = 4
SPECIFICATION Spec
INVARIANTS EnumerationKept
PROPERTIES SetColorKeepsOrder IndividualizeSplits
