\* All inputs of bits in six shapes of up to 16 words.
CONSTANT Shapes <- MCShapes
SPECIFICATION Spec
INVARIANTS SortsEveryInput
CHECK_DEADLOCK FALSE
