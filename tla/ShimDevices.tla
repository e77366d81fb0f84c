----------------------------- MODULE ShimDevices -----------------------------
(***************************************************************************)
(* The device, context and copy calls of omni-shim, beside the memory      *)
(* calls of ShimMemory that the same threads make: VIRTUAL_DEVICES, the    *)
(* device a thread selects, what the runtime and the driver API answer     *)
(* about it, and the cell CURRENT_DEVICE of interceptor.rs.                *)
(***************************************************************************)
EXTENDS ShimMemory, Integers, Sequences

CONSTANT Ordinals   \* device numbers callers pass

ASSUME OrdinalsAssumption == Ordinals \subseteq Int

VARIABLES
    CURRENT_DEVICE, \* CURRENT_DEVICE[t]: the thread-local device number
    selected,       \* selected[t]: the device t chose last, 0 at first
    answer          \* the latest answer: [thread, call, device, out]

deviceVars == <<CURRENT_DEVICE, selected, answer>>
allVars == <<vars, deviceVars>>

\* mutant: a second device is found
TwoDevices == <<[index |-> 0, warp_size |-> 32], [index |-> 1, warp_size |-> 64]>>

\* detect_virtual_devices: one device.
VIRTUAL_DEVICES == <<[index |-> 0, warp_size |-> 32]>>

Exists(d) == 0 <= d /\ d < Len(VIRTUAL_DEVICES)

\* Two statics, and so two addresses.
CreatedContext == 1
CurrentContext == 2

InitDevices ==
    /\ Init
    /\ CURRENT_DEVICE = [t \in Threads |-> 0]
    /\ selected = [t \in Threads |-> 0]
    /\ answer = [call |-> "none"]

Answer(t, name, d, value) ==
    /\ Return(t, "cudaSuccess")
    /\ answer' = [thread |-> t, call |-> name, device |-> d, out |-> value]

Done(t, code) == Return(t, code) /\ answer' = [call |-> "none"]

-----------------------------------------------------------------------------
\* A null pointer, in any of the calls below that look for one.
DeviceCallRejected(t, api) ==
    Done(t, InvalidValue(api)) /\ UNCHANGED <<CURRENT_DEVICE, selected>>

\* cudaGetDeviceCount, cuDeviceGetCount
GetDeviceCount(t) ==
    /\ Answer(t, "count", 0, Len(VIRTUAL_DEVICES))
    /\ UNCHANGED <<CURRENT_DEVICE, selected>>

\* cudaGetDeviceProperties, of which the model keeps warpSize.
GetDeviceProperties(t, d) ==
    /\ IF Exists(d) THEN Answer(t, "properties", d, VIRTUAL_DEVICES[d + 1].warp_size)
       ELSE Done(t, "cudaErrorInvalidDevice")
    /\ UNCHANGED <<CURRENT_DEVICE, selected>>

\* cudaSetDevice checks the number and keeps it nowhere.
SetDevice(t, d) ==
    /\ IF Exists(d)
       THEN Answer(t, "set", d, d) /\ selected' = [selected EXCEPT ![t] = d]
       ELSE Done(t, "cudaErrorInvalidDevice") /\ UNCHANGED selected
    /\ UNCHANGED CURRENT_DEVICE

\* cudaGetDevice
GetDevice(t) ==
    /\ Answer(t, "current", selected[t], 0)
    /\ UNCHANGED <<CURRENT_DEVICE, selected>>

\* cuDeviceGet
DeviceGet(t, d) ==
    /\ IF Exists(d) THEN Answer(t, "handle", d, d) ELSE Done(t, "CUDA_ERROR_NO_DEVICE")
    /\ UNCHANGED <<CURRENT_DEVICE, selected>>

\* cuDeviceGetAttribute answers for the first device, whichever is asked for.
DeviceGetAttribute(t, d) ==
    /\ Answer(t, "attribute", d, VIRTUAL_DEVICES[1].warp_size)
    /\ UNCHANGED <<CURRENT_DEVICE, selected>>

\* cuCtxCreate and cuCtxGetCurrent, which know of no current context.
CtxCreate(t, d) ==
    Answer(t, "context", d, CreatedContext) /\ UNCHANGED <<CURRENT_DEVICE, selected>>

CtxGetCurrent(t) ==
    Answer(t, "context", 0, CurrentContext) /\ UNCHANGED <<CURRENT_DEVICE, selected>>

\* cudaMemcpy, cudaMemcpyAsync (which copies at once) and cudaMemset.  That
\* the regions are valid is left to the caller, and the bytes are left out.
Memcpy(t) == Done(t, "cudaSuccess") /\ UNCHANGED <<CURRENT_DEVICE, selected>>

\* cuMemcpyHtoD and cuMemcpyDtoH, which check the host pointer only.
MemcpyHostDevice(t) == Done(t, "cudaSuccess") /\ UNCHANGED <<CURRENT_DEVICE, selected>>

DeviceCall(t) ==
    \/ \E api \in Api : DeviceCallRejected(t, api)
    \/ GetDeviceCount(t) \/ GetDevice(t) \/ CtxGetCurrent(t)
    \/ Memcpy(t) \/ MemcpyHostDevice(t)
    \/ \E d \in Ordinals : \/ GetDeviceProperties(t, d)
                           \/ SetDevice(t, d)
                           \/ DeviceGet(t, d)
                           \/ DeviceGetAttribute(t, d)
                           \/ CtxCreate(t, d)

NextDevices ==
    \E t \in Threads : \/ Call(t) /\ UNCHANGED deviceVars
                       \/ DeviceCall(t)

SpecDevices == InitDevices /\ [][NextDevices]_allVars

-----------------------------------------------------------------------------
(* "Mirrors CUDA's per-thread cudaSetDevice() semantics": the device a     *)
(* thread has selected is the one cudaGetDevice and CURRENT_DEVICE give    *)
(* it, and both APIs describe a device that exists by its own data, though *)
(* none of them looks at what cudaSetDevice was told.                      *)
SelectedDeviceIsCurrent ==
    /\ \A t \in Threads : CURRENT_DEVICE[t] = selected[t]
    /\ answer.call = "current" => answer.out = selected[answer.thread]
    /\ answer.call \in {"properties", "attribute"} /\ Exists(answer.device)
          => answer.out = VIRTUAL_DEVICES[answer.device + 1].warp_size
=============================================================================
