\* A node_t of 6 bits: 8 rows of 8 bits are 2^6 bits, as 65536 rows of 65536 are
\* 2^32.
CONSTANT FixedStorages <- MCStorages
CONSTANT NodeLimits <- MCNodeLimits
CONSTANT HeapWord = 2
CONSTANT CommandLines <- MCCommandLines
CONSTANT Readable <- MCReadable
CONSTANT Lines <- MCLines
CONSTANT NodeBits = 6
CONSTANT MaxLines = 1
CONSTANT EmptyGraph <- MCEmptyGraph
CONSTANT WithEdge <- MCWithEdge
CONSTANT GetBit <- MCGetBit
CONSTANT EmptyColoring <- MCEmptyColoring
CONSTANT WithColor <- MCWithColor
SPECIFICATION Spec
INVARIANT RowsInBuffer
CHECK_DEADLOCK FALSE
