\* Two threads, two streams and the null stream, two launches, two modules, two
\* kernel names, two function handles.
SPECIFICATION Spec
CONSTANTS
    Threads = {t1, t2}
    KernelIds = {1, 2}
    MaxStreams = 2
    MaxLaunches = 2
    Names = {"gemm", "relu"}
    MaxModules = 2
    MaxFunctions = 2
INVARIANTS
    
    
    HandlesIdentifyKernels
PROPERTIES
    QueuedLaunchesKept
    FunctionsOutliveLoads
