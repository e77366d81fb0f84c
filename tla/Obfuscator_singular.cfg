\* A single draw, whose matrix has no inverse.
SPECIFICATION FairSpec
CHECK_DEADLOCK FALSE
CONSTANTS
    dim = 4
    Draws <- MCSingular
    Tensors <- MCTensors
    MaxRows = 2
INVARIANT
    GeneratedInvertible
