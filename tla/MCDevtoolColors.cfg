\* Files of up to three lines.
CONSTANT FixedStorages <- MCStorages
CONSTANT NodeLimits <- MCNodeLimits
CONSTANT HeapWord = 2
CONSTANT CommandLines <- MCCommandLines
CONSTANT Readable <- MCReadable
CONSTANT Lines <- MCLines
CONSTANT NodeBits = 16
CONSTANT MaxLines = 3
CONSTANT EmptyGraph <- MCEmptyGraph
CONSTANT WithEdge <- MCWithEdge
CONSTANT GetBit <- MCGetBit
CONSTANT EmptyColoring <- MCEmptyColoring
CONSTANT WithColor <- MCWithColor
SPECIFICATION Spec
INVARIANT ColorsLegal
CHECK_DEADLOCK FALSE
