---------------------------- MODULE HardwareProbe ----------------------------
(***************************************************************************)
(* HardwareDetector of omni-core/src/hardware.rs: what probe reports on a  *)
(* machine.  A machine is what the code asks about: the operating system   *)
(* and architecture it was built for, the variable OMNI_FORCE_BACKEND and  *)
(* the file /dev/kfd.  Memory is in GB, caches are in MB.                  *)
(***************************************************************************)
EXTENDS Naturals, Sequences, SequencesExt

Machines ==
    [os : {"Linux", "MacOs", "Windows"}, arch : {"x86_64", "aarch64"},
     OMNI_FORCE_BACKEND : {"amd", "metal", "vulkan", "unset"}, kfd : BOOLEAN]

Profile(backend, vram, l2, tflops) ==
    [target_backend |-> backend, vram_bytes |-> vram, l2_cache_bytes |-> l2,
     fp16_tflops |-> tflops]

\* What each detector returns: the profiles whose condition holds, of which
\* the first counts.
try_detect_amd(m) ==
    IF m.OMNI_FORCE_BACKEND = "amd" THEN <<Profile("AmdRocm", 24, 6, 123)>>
    ELSE IF m.os = "Linux" /\ m.kfd THEN <<Profile("AmdRocm", 16, 4, 26)>>
    ELSE <<>>

try_detect_apple_metal(m) ==
    IF m.os = "MacOs" /\ m.arch = "aarch64" THEN <<Profile("AppleMetal", 24, 24, 27)>>
    ELSE IF m.OMNI_FORCE_BACKEND = "metal" THEN <<Profile("AppleMetal", 96, 48, 49)>>
    ELSE <<>>

try_detect_vulkan(m) ==
    IF m.OMNI_FORCE_BACKEND = "vulkan" THEN <<Profile("VulkanGeneric", 8, 2, 10)>>
    ELSE <<>>

\* A thousandth of a TFLOPS per core: less than one.
cpu_fallback == Profile("CpuVectorized", 8, 1, 0)

probe(m) ==
    Head(try_detect_amd(m) \o try_detect_apple_metal(m) \o try_detect_vulkan(m)
           \o <<cpu_fallback>>)
=============================================================================
