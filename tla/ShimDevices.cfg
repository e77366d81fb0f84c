\* Three threads over two heap cells and two sizes, device numbers -1, 0 and 1.
SPECIFICATION SpecDevices
CONSTANTS
    Threads = {t1, t2, t3}
    Pointers = {p1, p2}
    Sizes = {1, 2}
    NULL = NULL
    Ordinals <- MCOrdinals
INVARIANTS
    DeallocValid
    NothingLeaks
    
SYMMETRY Symmetry
