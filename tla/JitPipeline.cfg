\* Every backend a machine can have, every module of at most three operations over six kinds.
SPECIFICATION PipelineSpec
CONSTANTS
    Externals <- MCExternals
    Kinds = {"MatMul", "Relu", "Add", "Mul", "Fill", "Softmax"}
    Consts = {3}
    Backends = {"AmdRocm", "AppleMetal", "VulkanGeneric", "CpuVectorized"}
    MaxOps = 3
INVARIANTS
    FoldingSound
    FusionSound
    UnfusedPreserved
    
    NamedKernelIsFinal
PROPERTIES
    DceExact
