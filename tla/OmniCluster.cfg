\* Two peers with a heartbeat each, a channel of two, modules of two operations.
SPECIFICATION FairSpec
CHECK_DEADLOCK FALSE
CONSTANTS
    Peers = {"p1", "p2"}
    Callers = {"c"}
    Coordinator = "c"
    Machine <- MCMachine
    Discovered <- MCDiscovered
    Capacity = 2
    MaxBeats = 1
    MaxRegistered = 2
    Kinds = {"Gather", "MatMul", "Relu"}
    MaxOps = 2
INVARIANTS
    DeliveryExact
    
    SplitSound
    BestWorkerChosen
PROPERTIES
    MessagesHandled
    LoopTerminates
