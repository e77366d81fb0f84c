\* Every module of at most three operations over five kinds.
SPECIFICATION Spec
CONSTANTS
    Externals <- MCExternals
    Kinds = {"MatMul", "Relu", "Add", "Mul", "Fill"}
    Consts = {3}
    Backends = {"AmdRocm"}
    MaxOps = 3
INVARIANTS
    FinalOutputKept
