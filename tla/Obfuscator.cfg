\* 625 matrices of dimension 4, three tensors, up to two rows.
SPECIFICATION FairSpec
CHECK_DEADLOCK FALSE
CONSTANTS
    dim = 4
    Draws <- MCDraws
    Tensors <- MCTensors
    MaxRows = 2
INVARIANTS
    InvertExact
    RoundTrip
PROPERTIES
    GenerateReturns
