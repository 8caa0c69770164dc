---------------------------- MODULE MCVectorSort ----------------------------
EXTENDS VectorSortApi

Shape(vectors, lanes, items, ascending) ==
    [vectors |-> vectors, lanes |-> lanes, items |-> items, ascending |-> ascending]

\* One register of 16 lanes, groups of 2, 4 and 8 lanes in a register of 8, and
\* two registers of 4 and four of 2.
MCShapes == {Shape(1, 16, 16, TRUE), Shape(1, 8, 8, FALSE), Shape(1, 8, 4, TRUE),
             Shape(1, 8, 2, FALSE), Shape(2, 4, 8, FALSE), Shape(4, 2, 8, TRUE)}
=============================================================================
