\* Files of up to five lines.  A node_t of 16 bits holds the numbers of bits of
\* all buffers here.
CONSTANT FixedStorages <- MCStorages
CONSTANT NodeLimits <- MCNodeLimits
CONSTANT HeapWord = 2
CONSTANT CommandLines <- MCCommandLines
CONSTANT Readable <- MCReadable
CONSTANT Lines <- MCLines
CONSTANT NodeBits = 16
CONSTANT MaxLines = 5
CONSTANT EmptyGraph <- MCEmptyGraph
CONSTANT WithEdge <- MCWithEdge
CONSTANT GetBit <- MCGetBit
CONSTANT EmptyColoring <- MCEmptyColoring
CONSTANT WithColor <- MCWithColor
SPECIFICATION Spec
INVARIANTS ExitCodesRight CanonizesFile
CHECK_DEADLOCK FALSE
