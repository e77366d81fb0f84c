-------------------------- MODULE ShimMemoryProofs --------------------------
(***************************************************************************)
(* Proofs about the shim's allocation table, for any number of threads,    *)
(* any heap and callers that free whatever they like, and about the        *)
(* device calls the same threads make, for any device numbers.             *)
(***************************************************************************)
EXTENDS ShimDevices, TLAPS

(***************************************************************************)
(* The inductive invariant.  DeallocValid alone is not inductive: that no  *)
(* other call holds the pointer of a dealloc needs the same fact of calls  *)
(* that are about to insert, and that an idle thread holds no pointer.     *)
(***************************************************************************)
Held ==
    \A t \in Threads :
        /\ pc[t] = "idle" => ptr[t] = NULL
        /\ pc[t] # "idle" =>
              /\ ptr[t] \in DOMAIN heap /\ heap[ptr[t]] = size[t]
              /\ ptr[t] \notin DOMAIN ALLOC_TABLE
              /\ \A u \in Threads : u # t => ptr[u] # ptr[t]

IInv == TypeOK /\ TableBacked /\ Held /\ NothingLeaks

\* At start nothing is allocated and nobody is in a call.
LEMMA InitInv == Init => IInv
BY DEF Init, IInv, TypeOK, TableBacked, Held, NothingLeaks, CudaError, CuResult

\* Calls that return at once change nothing but the result.
LEMMA ReturnInv ==
  ASSUME IInv, NEW t \in Threads, NEW code \in CudaError \cup CuResult,
         Return(t, code)
  PROVE  IInv'
BY DEF Return, IInv, TypeOK, TableBacked, Held, NothingLeaks

\* A pointer fresh from the heap is in no entry and in nobody's hands.
LEMMA MallocHeapInv ==
  ASSUME IInv, NEW t \in Threads, NEW p \in Pointers, NEW s \in Sizes,
         MallocHeap(t, p, s)
  PROVE  IInv'
<1> USE PointersAssumption
<1>1. /\ p \notin DOMAIN heap /\ pc[t] = "idle"
      /\ DOMAIN heap' = DOMAIN heap \cup {p}
      /\ heap'[p] = s /\ \A q \in DOMAIN heap : heap'[q] = heap[q]
      /\ heap' \in [DOMAIN heap' -> Sizes]
      /\ UNCHANGED ALLOC_TABLE
  BY DEF MallocHeap, Put, IInv, TypeOK
<1>2. TypeOK'
  BY <1>1 DEF MallocHeap, IInv, TypeOK
<1>3. /\ ptr'[t] = p /\ size'[t] = s /\ pc'[t] = "insert"
      /\ \A u \in Threads : u # t =>
            ptr'[u] = ptr[u] /\ size'[u] = size[u] /\ pc'[u] = pc[u]
  BY DEF MallocHeap, IInv, TypeOK
<1>4. \A u \in Threads : ptr[u] # p
  BY <1>1 DEF IInv, Held, TypeOK
<1>5. p \notin DOMAIN ALLOC_TABLE
  BY <1>1 DEF IInv, TableBacked
<1>6. TableBacked'
  BY <1>1 DEF IInv, TableBacked
<1>7. Held'
  BY <1>1, <1>3, <1>4, <1>5 DEF IInv, Held
<1>8. NothingLeaks'
  BY <1>1, <1>3 DEF IInv, NothingLeaks, Held, TypeOK
<1>9. QED  BY <1>2, <1>6, <1>7, <1>8 DEF IInv

\* The entry that is inserted describes memory the heap has handed out.
LEMMA MallocInsertInv ==
  ASSUME IInv, NEW t \in Threads, MallocInsert(t)
  PROVE  IInv'
<1> USE PointersAssumption
<1> DEFINE p == ptr[t]
<1>1. /\ p \in DOMAIN heap /\ heap[p] = size[t] /\ p \in Pointers
      /\ p \notin DOMAIN ALLOC_TABLE /\ size[t] \in Sizes
      /\ \A u \in Threads : u # t => ptr[u] # p
  BY DEF MallocInsert, IInv, Held, TypeOK
<1>2. /\ DOMAIN ALLOC_TABLE' = DOMAIN ALLOC_TABLE \cup {p}
      /\ ALLOC_TABLE'[p] = size[t]
      /\ \A q \in DOMAIN ALLOC_TABLE : ALLOC_TABLE'[q] = ALLOC_TABLE[q]
      /\ ALLOC_TABLE' \in [DOMAIN ALLOC_TABLE' -> Sizes]
      /\ UNCHANGED heap
  BY <1>1 DEF MallocInsert, Put, IInv, TypeOK
<1>3. /\ ptr'[t] = NULL /\ pc'[t] = "idle"
      /\ \A u \in Threads : u # t =>
            ptr'[u] = ptr[u] /\ size'[u] = size[u] /\ pc'[u] = pc[u]
  BY DEF MallocInsert, Finish, IInv, TypeOK
<1>4. TypeOK'
  BY <1>1, <1>2 DEF MallocInsert, Finish, IInv, TypeOK, CudaError
<1>5. TableBacked'
  BY <1>1, <1>2 DEF IInv, TableBacked
<1>6. Held'
  BY <1>1, <1>2, <1>3 DEF IInv, Held, TypeOK
<1>7. NothingLeaks'
  BY <1>1, <1>2, <1>3 DEF IInv, NothingLeaks
<1>8. QED  BY <1>4, <1>5, <1>6, <1>7 DEF IInv

\* Only the thread that removed the entry holds the pointer afterwards.
LEMMA FreeRemoveInv ==
  ASSUME IInv, NEW t \in Threads, NEW p \in Pointers, FreeRemove(t, p)
  PROVE  IInv'
<1> USE PointersAssumption
<1>1. /\ p \in DOMAIN ALLOC_TABLE /\ pc[t] = "idle"
      /\ p \in DOMAIN heap /\ heap[p] = ALLOC_TABLE[p]
      /\ ALLOC_TABLE[p] \in Sizes
      /\ \A u \in Threads : ptr[u] # p
  BY DEF FreeRemove, IInv, TableBacked, Held, TypeOK
<1>2. /\ DOMAIN ALLOC_TABLE' = DOMAIN ALLOC_TABLE \ {p}
      /\ \A q \in DOMAIN ALLOC_TABLE' : ALLOC_TABLE'[q] = ALLOC_TABLE[q]
      /\ ALLOC_TABLE' \in [DOMAIN ALLOC_TABLE' -> Sizes]
      /\ UNCHANGED heap
  BY DEF FreeRemove, Remove, Restrict, IInv, TypeOK
<1>3. /\ ptr'[t] = p /\ size'[t] = ALLOC_TABLE[p] /\ pc'[t] = "dealloc"
      /\ \A u \in Threads : u # t =>
            ptr'[u] = ptr[u] /\ size'[u] = size[u] /\ pc'[u] = pc[u]
  BY DEF FreeRemove, IInv, TypeOK
<1>4. TypeOK'
  BY <1>1, <1>2 DEF FreeRemove, IInv, TypeOK
<1>5. TableBacked'
  BY <1>2 DEF IInv, TableBacked
<1>6. Held'
  BY <1>1, <1>2, <1>3 DEF IInv, Held
<1>7. NothingLeaks'
  BY <1>1, <1>2, <1>3 DEF IInv, NothingLeaks, Held, TypeOK
<1>8. QED  BY <1>4, <1>5, <1>6, <1>7 DEF IInv

\* Giving the memory back concerns no entry and no other call.
LEMMA FreeDeallocInv ==
  ASSUME IInv, NEW t \in Threads, FreeDealloc(t)
  PROVE  IInv'
<1> USE PointersAssumption
<1>1. /\ pc[t] = "dealloc" /\ ptr[t] \notin DOMAIN ALLOC_TABLE
      /\ \A u \in Threads : u # t => ptr[u] # ptr[t]
  BY DEF FreeDealloc, IInv, Held
<1>2. /\ DOMAIN heap' = DOMAIN heap \ {ptr[t]}
      /\ \A q \in DOMAIN heap' : heap'[q] = heap[q]
      /\ heap' \in [DOMAIN heap' -> Sizes]
      /\ UNCHANGED ALLOC_TABLE
  BY DEF FreeDealloc, Remove, Restrict, IInv, TypeOK
<1>3. /\ ptr'[t] = NULL /\ pc'[t] = "idle"
      /\ \A u \in Threads : u # t =>
            ptr'[u] = ptr[u] /\ size'[u] = size[u] /\ pc'[u] = pc[u]
  BY DEF FreeDealloc, Finish, IInv, TypeOK
<1>4. TypeOK'
  BY <1>2 DEF FreeDealloc, Finish, IInv, TypeOK, CudaError
<1>5. TableBacked'
  BY <1>1, <1>2 DEF IInv, TableBacked
<1>6. Held'
  BY <1>1, <1>2, <1>3 DEF IInv, Held, TypeOK
<1>7. NothingLeaks'
  BY <1>1, <1>2, <1>3 DEF IInv, NothingLeaks
<1>8. QED  BY <1>4, <1>5, <1>6, <1>7 DEF IInv

\* Every step of every thread preserves the invariant.
LEMMA CallInv ==
  ASSUME IInv, NEW t \in Threads, Call(t)
  PROVE  IInv'
<1>1. ASSUME NEW api \in Api, MallocRejected(t, api) \/ MallocFails(t, api)
      PROVE  IInv'
  BY <1>1, ReturnInv
     DEF MallocRejected, MallocFails, InvalidValue, MallocError, CudaError, CuResult
<1>2. CASE FreeNull(t)
  BY <1>2, ReturnInv DEF FreeNull, CudaError
<1>3. ASSUME NEW p \in Pointers, NEW api \in Api, FreeUnknown(t, p, api)
      PROVE  IInv'
  BY <1>3, ReturnInv DEF FreeUnknown, InvalidValue, CudaError, CuResult
<1>4. CASE GetLastError(t)
  BY <1>4 DEF GetLastError, IInv, TypeOK, TableBacked, Held, NothingLeaks, CudaError
<1>5. ASSUME NEW p \in Pointers, NEW s \in Sizes, MallocHeap(t, p, s)
      PROVE  IInv'
  BY <1>5, MallocHeapInv
<1>6. ASSUME NEW p \in Pointers, FreeRemove(t, p)
      PROVE  IInv'
  BY <1>6, FreeRemoveInv
<1>7. CASE MallocInsert(t) \/ FreeDealloc(t)
  BY <1>7, MallocInsertInv, FreeDeallocInv
<1> QED BY <1>1, <1>2, <1>3, <1>4, <1>5, <1>6, <1>7 DEF Call

LEMMA StutterInv ==
  ASSUME IInv, UNCHANGED vars
  PROVE  IInv'
BY DEF vars, IInv, TypeOK, TableBacked, Held, NothingLeaks

LEMMA NextInv == IInv /\ [Next]_vars => IInv'
BY CallInv, StutterInv DEF Next

(* Whatever the threads free, and in whatever order their steps fall: the  *)
(* table describes memory in use, each dealloc is of a pointer in use with *)
(* its own size and held by no one else, and no memory is lost track of.   *)
THEOREM ShimMemorySafety ==
  Spec => [](TypeOK /\ TableBacked /\ DeallocValid /\ NothingLeaks)
<1>1. IInv => TypeOK /\ TableBacked /\ DeallocValid /\ NothingLeaks
  BY DEF IInv, Held, DeallocValid
<1>2. QED
  BY <1>1, InitInv, NextInv, PTL DEF Spec

-----------------------------------------------------------------------------
\* Device calls: there is one device, number 0, and so no other can be chosen.
DeviceInv ==
  /\ CURRENT_DEVICE = [t \in Threads |-> 0]
  /\ selected = [t \in Threads |-> 0]
  /\ answer.call = "current" => answer.thread \in Threads /\ answer.out = 0
  /\ answer.call \in {"properties", "attribute"} /\ Exists(answer.device)
        => answer.out = VIRTUAL_DEVICES[answer.device + 1].warp_size

LEMMA OnlyDevice ==
  /\ Len(VIRTUAL_DEVICES) = 1
  /\ \A d \in Ordinals : Exists(d) => d = 0
BY OrdinalsAssumption DEF VIRTUAL_DEVICES, Exists

\* A device call returns at once: to the memory calls it is a call that failed
\* or succeeded without a trace.
LEMMA DeviceCallMemory ==
  ASSUME IInv, NEW t \in Threads, DeviceCall(t)
  PROVE  IInv'
<1>1. \A name, d, value : Answer(t, name, d, value) => Return(t, "cudaSuccess")
  BY DEF Answer
<1>2. \A code : Done(t, code) => Return(t, code)
  BY DEF Done
<1>3. \E code \in CudaError \cup CuResult : Return(t, code)
  <2>1. ASSUME NEW api \in Api, DeviceCallRejected(t, api)
        PROVE  \E code \in CudaError \cup CuResult : Return(t, code)
    <3>1. InvalidValue(api) \in CudaError \cup CuResult
      BY DEF InvalidValue, CudaError, CuResult
    <3> QED BY <1>2, <2>1, <3>1 DEF DeviceCallRejected
  <2>2. ASSUME GetDeviceCount(t) \/ GetDevice(t) \/ CtxGetCurrent(t) \/ Memcpy(t) \/ MemcpyHostDevice(t)
        PROVE  Return(t, "cudaSuccess")
    BY <1>1, <1>2, <2>2 DEF GetDeviceCount, GetDevice, CtxGetCurrent, Memcpy, MemcpyHostDevice
  <2>3. ASSUME NEW d \in Ordinals,
               \/ GetDeviceProperties(t, d) \/ SetDevice(t, d) \/ DeviceGet(t, d)
               \/ DeviceGetAttribute(t, d) \/ CtxCreate(t, d)
        PROVE  \E code \in {"cudaSuccess", "cudaErrorInvalidDevice", "CUDA_ERROR_NO_DEVICE"} :
                  Return(t, code)
    BY <1>1, <1>2, <2>3
       DEF GetDeviceProperties, SetDevice, DeviceGet, DeviceGetAttribute, CtxCreate
  <2>4. {"cudaSuccess", "cudaErrorInvalidDevice", "CUDA_ERROR_NO_DEVICE"} \subseteq CudaError \cup CuResult
    BY DEF CudaError, CuResult
  <2> QED BY <2>1, <2>2, <2>3, <2>4 DEF DeviceCall
<1> QED BY <1>3, ReturnInv

\* An answer about no device in particular.
LEMMA OtherAnswer ==
  ASSUME DeviceInv, UNCHANGED <<CURRENT_DEVICE, selected>>,
         answer'.call \notin {"current", "properties", "attribute"}
  PROVE  DeviceInv'
BY DEF DeviceInv

LEMMA DeviceCallInv ==
  ASSUME DeviceInv, NEW t \in Threads, DeviceCall(t)
  PROVE  DeviceInv'
<1>1. ASSUME NEW code, Done(t, code)
      PROVE  answer'.call = "none"
  BY <1>1 DEF Done
<1>2. ASSUME NEW name, NEW d, NEW value, Answer(t, name, d, value)
      PROVE  /\ answer'.call = name /\ answer'.thread = t
             /\ answer'.device = d /\ answer'.out = value
  BY <1>2 DEF Answer
<1>3. ASSUME NEW api \in Api, DeviceCallRejected(t, api)
      PROVE  DeviceInv'
  BY <1>1, <1>3, OtherAnswer DEF DeviceCallRejected
<1>4. CASE GetDeviceCount(t)
  BY <1>2, <1>4, OtherAnswer DEF GetDeviceCount
<1>5. CASE CtxGetCurrent(t)
  BY <1>2, <1>5, OtherAnswer DEF CtxGetCurrent
<1>6. CASE Memcpy(t) \/ MemcpyHostDevice(t)
  BY <1>1, <1>6, OtherAnswer DEF Memcpy, MemcpyHostDevice
<1>7. CASE GetDevice(t)
  <2>1. answer'.call = "current" /\ answer'.thread = t /\ answer'.out = 0
    BY <1>2, <1>7 DEF GetDevice
  <2> QED BY <1>7, <2>1 DEF GetDevice, DeviceInv
<1>8. ASSUME NEW d \in Ordinals, GetDeviceProperties(t, d)
      PROVE  DeviceInv'
  <2>1. CASE Exists(d)
    <3>1. /\ answer'.call = "properties" /\ answer'.device = d
          /\ answer'.out = VIRTUAL_DEVICES[d + 1].warp_size
      BY <1>2, <1>8, <2>1 DEF GetDeviceProperties
    <3> QED BY <1>8, <3>1 DEF GetDeviceProperties, DeviceInv
  <2>2. CASE ~Exists(d)
    BY <1>1, <1>8, <2>2, OtherAnswer DEF GetDeviceProperties
  <2> QED BY <2>1, <2>2
<1>9. ASSUME NEW d \in Ordinals, SetDevice(t, d)
      PROVE  DeviceInv'
  <2>1. answer'.call \in {"set", "none"}
    BY <1>1, <1>2, <1>9 DEF SetDevice
  <2>2. UNCHANGED <<CURRENT_DEVICE, selected>>
    BY <1>9, OnlyDevice DEF SetDevice, DeviceInv
  <2> QED BY <2>1, <2>2, OtherAnswer
<1>10. ASSUME NEW d \in Ordinals, DeviceGet(t, d)
       PROVE  DeviceInv'
  <2>1. answer'.call \in {"handle", "none"}
    BY <1>1, <1>2, <1>10 DEF DeviceGet
  <2> QED BY <1>10, <2>1, OtherAnswer DEF DeviceGet
<1>11. ASSUME NEW d \in Ordinals, DeviceGetAttribute(t, d)
       PROVE  DeviceInv'
  <2>1. /\ answer'.call = "attribute" /\ answer'.device = d
        /\ answer'.out = VIRTUAL_DEVICES[1].warp_size
    BY <1>2, <1>11 DEF DeviceGetAttribute
  <2>2. Exists(d) => VIRTUAL_DEVICES[d + 1].warp_size = VIRTUAL_DEVICES[1].warp_size
    BY OnlyDevice
  <2> QED BY <1>11, <2>1, <2>2 DEF DeviceGetAttribute, DeviceInv
<1>12. ASSUME NEW d \in Ordinals, CtxCreate(t, d)
       PROVE  DeviceInv'
  BY <1>2, <1>12, OtherAnswer DEF CtxCreate
<1> QED BY <1>3, <1>4, <1>5, <1>6, <1>7, <1>8, <1>9, <1>10, <1>11, <1>12 DEF DeviceCall

(* The same of the whole shim, in which the threads call the device and    *)
(* context functions in between; and the device a thread has selected is   *)
(* the one every API tells it about, though cudaSetDevice stores nothing:  *)
(* because detect_virtual_devices finds one device.                        *)
THEOREM ShimSafety ==
  SpecDevices => [](TypeOK /\ DeallocValid /\ NothingLeaks /\ SelectedDeviceIsCurrent)
<1>1. InitDevices => IInv /\ DeviceInv
  BY InitInv DEF InitDevices, DeviceInv
<1>2. IInv /\ DeviceInv /\ [NextDevices]_allVars => (IInv /\ DeviceInv)'
  <2> SUFFICES ASSUME IInv, DeviceInv, [NextDevices]_allVars
               PROVE  IInv' /\ DeviceInv'
    OBVIOUS
  <2>1. ASSUME UNCHANGED deviceVars PROVE DeviceInv'
    BY <2>1 DEF DeviceInv, deviceVars
  <2>2. ASSUME NEW t \in Threads, Call(t), UNCHANGED deviceVars
        PROVE  IInv' /\ DeviceInv'
    BY <2>1, <2>2, CallInv
  <2>3. ASSUME NEW t \in Threads, DeviceCall(t)
        PROVE  IInv' /\ DeviceInv'
    BY <2>3, DeviceCallMemory, DeviceCallInv
  <2>4. CASE UNCHANGED allVars
    BY <2>1, <2>4, StutterInv DEF allVars
  <2> QED BY <2>2, <2>3, <2>4 DEF NextDevices
<1>3. IInv => TypeOK /\ DeallocValid /\ NothingLeaks
  BY DEF IInv, Held, DeallocValid
<1>4. DeviceInv => SelectedDeviceIsCurrent
  BY DEF DeviceInv, SelectedDeviceIsCurrent
<1> QED BY <1>1, <1>2, <1>3, <1>4, PTL DEF SpecDevices

(* In particular cudaMalloc, cudaFree and their driver counterparts, from  *)
(* any number of threads, lose track of no memory.                         *)
THEOREM NoLeakTheorem == SpecDevices => []NothingLeaks
BY ShimSafety, PTL

(* In particular cudaGetDevice tells every thread the device it selected,  *)
(* and the property calls of both APIs describe a device by its own data.  *)
THEOREM SelectedDevice == SpecDevices => []SelectedDeviceIsCurrent
BY ShimSafety, PTL
=============================================================================
