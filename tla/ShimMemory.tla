----------------------------- MODULE ShimMemory -----------------------------
(***************************************************************************)
(* cudaMalloc, cudaFree, their driver API twins and cudaGetLastError of    *)
(* omni-shim, called by any number of application threads.  A call is two  *)
(* steps, because the process heap and ALLOC_TABLE are updated one after   *)
(* the other and the heap may hand a returned pointer to another thread at *)
(* once.  Callers are arbitrary: they may free any pointer, also twice or  *)
(* at the same time.                                                       *)
(*                                                                         *)
(* External: the process heap (std::alloc), which returns a pointer that   *)
(* is not in use, or null, and wants the size back in dealloc.             *)
(***************************************************************************)
EXTENDS Naturals, Functions

CONSTANTS
    Threads,
    Pointers,       \* the pointers the heap can return
    Sizes,          \* the positive sizes callers ask for
    NULL            \* no pointer

ASSUME PointersAssumption == NULL \notin Pointers
ASSUME ShimSizesAssumption == Sizes \subseteq Nat \ {0}

VARIABLES
    heap,           \* pointer -> size, for what the heap has handed out
    ALLOC_TABLE,    \* pointer -> size of the tracked allocation
    pc,             \* pc[t]: where thread t is in its call
    ptr,            \* ptr[t], size[t]: the pointer and the size it works on
    size,
    ret,            \* ret[t]: result of t's latest call
    LAST_ERROR      \* LAST_ERROR[t]: the thread-local error cell

vars == <<heap, ALLOC_TABLE, pc, ptr, size, ret, LAST_ERROR>>

CudaError == {"cudaSuccess", "cudaErrorInvalidValue", "cudaErrorMemoryAllocation",
              "cudaErrorInvalidDevice"}
CuResult == {"CUDA_ERROR_INVALID_VALUE", "CUDA_ERROR_OUT_OF_MEMORY", "CUDA_ERROR_NO_DEVICE"}

\* Success is 0 in both APIs; it is called cudaSuccess throughout.

\* The two APIs, and how cuMemAlloc and cuMemFree translate an error.
Api == {"runtime", "driver"}

MallocError(api) ==
    IF api = "driver" THEN "CUDA_ERROR_OUT_OF_MEMORY" ELSE "cudaErrorMemoryAllocation"

InvalidValue(api) ==
    IF api = "driver" THEN "CUDA_ERROR_INVALID_VALUE" ELSE "cudaErrorInvalidValue"

Put(f, p, s) == [q \in DOMAIN f \cup {p} |-> IF q = p THEN s ELSE f[q]]
Remove(f, p) == Restrict(f, DOMAIN f \ {p})

-----------------------------------------------------------------------------
Init ==
    /\ heap = [p \in {} |-> 0]
    /\ ALLOC_TABLE = [p \in {} |-> 0]
    /\ pc = [t \in Threads |-> "idle"]
    /\ ptr = [t \in Threads |-> NULL]
    /\ size = [t \in Threads |-> 0]
    /\ ret = [t \in Threads |-> "cudaSuccess"]
    /\ LAST_ERROR = [t \in Threads |-> "cudaSuccess"]

\* A call that ends at once with the given result.
Return(t, code) ==
    /\ pc[t] = "idle"
    /\ ret' = [ret EXCEPT ![t] = code]
    /\ UNCHANGED <<heap, ALLOC_TABLE, pc, ptr, size, LAST_ERROR>>

\* The second step of a call is done.
Finish(t) ==
    /\ pc' = [pc EXCEPT ![t] = "idle"]
    /\ ptr' = [ptr EXCEPT ![t] = NULL]
    /\ size' = [size EXCEPT ![t] = 0]
    /\ ret' = [ret EXCEPT ![t] = "cudaSuccess"]
    /\ UNCHANGED LAST_ERROR

\* cudaMalloc, cuMemAlloc: a null result pointer or a size of zero.
MallocRejected(t, api) == Return(t, InvalidValue(api))

\* The layout is invalid or the heap has no memory.
MallocFails(t, api) == Return(t, MallocError(api))

\* std::alloc::alloc returns p...
MallocHeap(t, p, s) ==
    /\ pc[t] = "idle"
    /\ p \notin DOMAIN heap
    /\ heap' = Put(heap, p, s)
    /\ pc' = [pc EXCEPT ![t] = "insert"]
    /\ ptr' = [ptr EXCEPT ![t] = p]
    /\ size' = [size EXCEPT ![t] = s]
    /\ UNCHANGED <<ALLOC_TABLE, ret, LAST_ERROR>>

\* ...and then the table learns of it.
MallocInsert(t) ==
    /\ pc[t] = "insert"
    /\ ALLOC_TABLE' = Put(ALLOC_TABLE, ptr[t], size[t])
    /\ Finish(t)
    /\ UNCHANGED heap

\* cudaFree(NULL) is a no-op.
FreeNull(t) == Return(t, "cudaSuccess")

FreeUnknown(t, p, api) ==
    /\ p \notin DOMAIN ALLOC_TABLE
    /\ Return(t, InvalidValue(api))

\* mutant of FreeRemove: looks the entry up and leaves it in the table
FreeLooksUp(t, p) ==
    /\ pc[t] = "idle"
    /\ p \in DOMAIN ALLOC_TABLE
    /\ pc' = [pc EXCEPT ![t] = "dealloc"]
    /\ ptr' = [ptr EXCEPT ![t] = p]
    /\ size' = [size EXCEPT ![t] = ALLOC_TABLE[p]]
    /\ UNCHANGED <<heap, ALLOC_TABLE, ret, LAST_ERROR>>

\* mutant of FreeRemove: forgets to give the memory back
FreeForgets(t, p) ==
    /\ pc[t] = "idle"
    /\ p \in DOMAIN ALLOC_TABLE
    /\ ALLOC_TABLE' = Remove(ALLOC_TABLE, p)
    /\ ret' = [ret EXCEPT ![t] = "cudaSuccess"]
    /\ UNCHANGED <<heap, pc, ptr, size, LAST_ERROR>>

\* cudaFree takes the entry out of the table first...
FreeRemove(t, p) ==
    /\ pc[t] = "idle"
    /\ p \in DOMAIN ALLOC_TABLE
    /\ ALLOC_TABLE' = Remove(ALLOC_TABLE, p)
    /\ pc' = [pc EXCEPT ![t] = "dealloc"]
    /\ ptr' = [ptr EXCEPT ![t] = p]
    /\ size' = [size EXCEPT ![t] = ALLOC_TABLE[p]]
    /\ UNCHANGED <<heap, ret, LAST_ERROR>>

\* ...and gives the memory back to the heap afterwards.
FreeDealloc(t) ==
    /\ pc[t] = "dealloc"
    /\ heap' = Remove(heap, ptr[t])
    /\ Finish(t)
    /\ UNCHANGED ALLOC_TABLE

\* cudaGetLastError: returns the cell's value and resets the cell.
GetLastError(t) ==
    /\ pc[t] = "idle"
    /\ ret' = [ret EXCEPT ![t] = LAST_ERROR[t]]
    /\ LAST_ERROR' = [LAST_ERROR EXCEPT ![t] = "cudaSuccess"]
    /\ UNCHANGED <<heap, ALLOC_TABLE, pc, ptr, size>>

Call(t) ==
    \/ \E api \in Api : MallocRejected(t, api) \/ MallocFails(t, api)
    \/ FreeNull(t)
    \/ \E p \in Pointers, s \in Sizes : MallocHeap(t, p, s)
    \/ MallocInsert(t)
    \/ \E p \in Pointers, api \in Api : FreeUnknown(t, p, api)
    \/ \E p \in Pointers : FreeRemove(t, p)
    \/ FreeDealloc(t)
    \/ GetLastError(t)

Next == \E t \in Threads : Call(t)

Spec == Init /\ [][Next]_vars

-----------------------------------------------------------------------------
(* Type correctness of the tables and of the calls in progress.            *)
TypeOK ==
    /\ DOMAIN heap \subseteq Pointers /\ heap \in [DOMAIN heap -> Sizes]
    /\ DOMAIN ALLOC_TABLE \subseteq Pointers
    /\ ALLOC_TABLE \in [DOMAIN ALLOC_TABLE -> Sizes]
    /\ pc \in [Threads -> {"idle", "insert", "dealloc"}]
    /\ ptr \in [Threads -> Pointers \cup {NULL}]
    /\ size \in [Threads -> Sizes \cup {0}]
    /\ ret \in [Threads -> CudaError \cup CuResult]
    /\ LAST_ERROR \in [Threads -> CudaError]

(* The table never describes memory the heap has taken back: an entry's    *)
(* pointer is in use and the entry has the size it was allocated with.     *)
TableBacked ==
    \A p \in DOMAIN ALLOC_TABLE : p \in DOMAIN heap /\ heap[p] = ALLOC_TABLE[p]

(* Every dealloc is valid, even when threads free the same pointer at the  *)
(* same time or free a pointer the heap has reused: the pointer is in use, *)
(* the layout matches, and no other call or table entry holds the pointer. *)
DeallocValid ==
    \A t \in Threads : pc[t] = "dealloc" =>
        /\ ptr[t] \in DOMAIN heap /\ heap[ptr[t]] = size[t]
        /\ ptr[t] \notin DOMAIN ALLOC_TABLE
        /\ \A u \in Threads : u # t => ptr[u] # ptr[t]

(* No memory is lost track of: whatever the heap has handed out is in the  *)
(* table or in the hands of exactly the call that will put it there, or    *)
(* give it back.                                                           *)
NothingLeaks ==
    \A p \in DOMAIN heap :
        p \in DOMAIN ALLOC_TABLE \/ \E t \in Threads : ptr[t] = p
=============================================================================
