CONSTANT N = 4
SPECIFICATION FairSpec
INVARIANTS TypeOK SizesGrow PointersRecorded RootSizesExact
PROPERTIES NoReturningRoot CallsReturn ImplementsCalls ReturnsItsCall
