\* Two threads, four requests whose keys differ, in two shards; one request
\* fails to compile.
SPECIFICATION FairSpec
CHECK_DEADLOCK FALSE
CONSTANTS
    Threads = {t1, t2}
    Requests <- MCRequests
    hash <- hash_ptx
    shard <- TwoShards
    Compiled <- MCCompiled
    Err = Err
    MaxCalls = 4
    Width = 6
    OFFSET = 37
    PRIME = 19
    Bytes = {0, 1}
    KernelIds = {0, 1}
    MaxPtx = 1
INVARIANTS
    ResultsRight
    HitsBacked
    FlushComplete
PROPERTIES
    CallsReturn
