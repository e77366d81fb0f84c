--------------------------- MODULE DuvasAllocator ---------------------------
(***************************************************************************)
(* The DUVAS allocator of omni-core/src/memory/allocator.rs: a map from    *)
(* virtual start addresses to blocks, two byte counters and a bump pointer *)
(* that are only touched under one mutex, so every method is one atomic    *)
(* action and concurrent callers are an arbitrary interleaving of them.    *)
(*                                                                         *)
(* What is abstracted: log lines, and the magnitudes of the page size      *)
(* (4096), of the first address (0x10_0000_0000) and of the u64 range,     *)
(* which are the constants PAGE, Base and MaxAddr.                         *)
(***************************************************************************)
EXTENDS Integers, FiniteSets, Functions

CONSTANTS
    PAGE,       \* page size the sizes are rounded up to
    Base,       \* first virtual address handed out
    MaxAddr,    \* end of the u64 address range; no call that would cross it
    Sizes,      \* the values of size_bytes that callers pass to alloc
    device_capacity_bytes

ASSUME PageAssumption == PAGE \in Nat \ {0}
ASSUME AddressAssumption == 
    Base \in Nat /\ MaxAddr \in Nat /\ Base <= MaxAddr
ASSUME SizesAssumption == Sizes \subseteq Nat
ASSUME CapacityAssumption == device_capacity_bytes \in Nat

VARIABLES
    allocations,                \* start address -> MemoryBlock
    allocated_virtual_bytes,
    allocated_device_bytes,
    next_addr

vars == <<allocations, allocated_virtual_bytes, allocated_device_bytes, next_addr>>

MemoryDomain == {"Host", "LocalDevice", "RemotePeer", "Swap"}

MemoryBlock == [size_bytes : Nat, domain : MemoryDomain, is_static : BOOLEAN]

Addr == Base..MaxAddr

-----------------------------------------------------------------------------
Init ==
    /\ allocations = [a \in {} |-> 0]
    /\ allocated_virtual_bytes = 0
    /\ allocated_device_bytes = 0
    /\ next_addr = Base

\* mutant of AlignUp: rounds down
AlignDown(size_bytes) == (size_bytes \div PAGE) * PAGE

\* (size_bytes + 4095) & !4095
AlignUp(size_bytes) == ((size_bytes + PAGE - 1) \div PAGE) * PAGE

\* mutant of FitsOnDevice: compares the requested, not the aligned, size
FitsUnaligned(size_bytes) ==
    allocated_device_bytes + size_bytes <= device_capacity_bytes

\* A new block goes to the device exactly when it still fits there.
FitsOnDevice(size_bytes) ==
    allocated_device_bytes + AlignUp(size_bytes) <= device_capacity_bytes

Insert(addr, block) ==
    [a \in DOMAIN allocations \cup {addr} |->
        IF a = addr THEN block ELSE allocations[a]]

(* alloc: the block starts at the old bump pointer; the insertion replaces *)
(* whatever was stored under that address.                                 *)
Alloc(size_bytes, is_static) ==
    LET aligned == AlignUp(size_bytes)
        onDevice == FitsOnDevice(size_bytes)
    IN  /\ next_addr' = next_addr + aligned
        /\ allocated_device_bytes' =
             allocated_device_bytes + (IF onDevice THEN aligned ELSE 0)
        /\ allocations' =
             Insert(next_addr,
                    [size_bytes |-> aligned,
                     domain |-> IF onDevice THEN "LocalDevice" ELSE "Host",
                     is_static |-> is_static])
        /\ allocated_virtual_bytes' = allocated_virtual_bytes + aligned

\* mutant of DeviceShare: every domain but Swap counts as device memory
ShareUnlessSwapped(block, domain) ==
    IF domain # "Swap" THEN block.size_bytes ELSE 0

\* What a block contributes to the device counter while it lives in a domain.
DeviceShare(block, domain) ==
    IF domain = "LocalDevice" THEN block.size_bytes ELSE 0

\* free drops the entry and takes its bytes out of the counters...
DropBlock(addr) ==
    /\ addr \in DOMAIN allocations
    /\ allocations' = Restrict(allocations, DOMAIN allocations \ {addr})
    /\ allocated_virtual_bytes' =
         allocated_virtual_bytes - allocations[addr].size_bytes
    /\ allocated_device_bytes' =
         allocated_device_bytes
           - DeviceShare(allocations[addr], allocations[addr].domain)

\* mutant of Free: gives the addresses back as well
FreeReclaims(addr) ==
    /\ DropBlock(addr)
    /\ next_addr' = next_addr - allocations[addr].size_bytes

\* ...and never gives its addresses back.
Free(addr) == DropBlock(addr) /\ UNCHANGED next_addr

(* migrate: re-homes one block and moves its bytes in or out of the device *)
(* counter.  Running past the device capacity is only logged.              *)
Migrate(addr, target_domain) ==
    /\ addr \in DOMAIN allocations
    /\ allocations[addr].domain # target_domain
    /\ allocations' = [allocations EXCEPT ![addr].domain = target_domain]
    /\ allocated_device_bytes' =
         allocated_device_bytes
           - DeviceShare(allocations[addr], allocations[addr].domain)
           + DeviceShare(allocations[addr], target_domain)
    /\ UNCHANGED <<allocated_virtual_bytes, next_addr>>

\* The calls that return early: free and migrate of an unknown address
\* (an error) and migrate to the domain the block is in already (Ok).
FreeUnknown(addr) ==
    addr \notin DOMAIN allocations /\ UNCHANGED vars

MigrateNothing(addr, target_domain) ==
    /\ addr \in DOMAIN allocations => allocations[addr].domain = target_domain
    /\ UNCHANGED vars

\* get_domain: "None" stands for Option::None
get_domain(addr) ==
    IF addr \in DOMAIN allocations THEN allocations[addr].domain ELSE "None"

-----------------------------------------------------------------------------
BoundedAlloc ==
    \E size_bytes \in Sizes, is_static \in BOOLEAN :
        /\ next_addr + AlignUp(size_bytes) <= MaxAddr
        /\ Alloc(size_bytes, is_static)

Next ==
    \/ BoundedAlloc
    \/ \E addr \in Addr : Free(addr) \/ FreeUnknown(addr)
    \/ \E addr \in Addr, target_domain \in MemoryDomain :
          Migrate(addr, target_domain) \/ MigrateNothing(addr, target_domain)

Spec == Init /\ [][Next]_vars

-----------------------------------------------------------------------------
(* Type correctness.  In particular the two usize counters never go below  *)
(* zero: the subtractions of free and migrate do not underflow.            *)
TypeOK ==
    /\ DOMAIN allocations \subseteq Addr
    /\ allocations \in [DOMAIN allocations -> MemoryBlock]
    /\ allocated_virtual_bytes \in Nat
    /\ allocated_device_bytes \in Nat
    /\ next_addr \in Addr

\* Every block ends at or before the bump pointer.
BelowNext ==
    \A a \in DOMAIN allocations : a + allocations[a].size_bytes <= next_addr

(* No two live blocks share a byte of the virtual address space, whatever  *)
(* the order of alloc, free and migrate.                                   *)
Disjoint ==
    \A a, b \in DOMAIN allocations :
        a # b => \/ a + allocations[a].size_bytes <= b
                 \/ b + allocations[b].size_bytes <= a

\* The bytes of one block, of all blocks and of those on the device.
Span(blocks, a) == a..(a + blocks[a].size_bytes - 1)

LiveBytes == UNION {Span(allocations, a) : a \in DOMAIN allocations}

Resident == {a \in DOMAIN allocations : allocations[a].domain = "LocalDevice"}

DeviceBytes == UNION {Span(allocations, a) : a \in Resident}

(* get_metrics reports the truth: the counters that alloc, free and        *)
(* migrate update step by step equal the number of distinct bytes covered  *)
(* by the live blocks and by the blocks resident on the device.            *)
Accounting ==
    /\ allocated_virtual_bytes = Cardinality(LiveBytes)
    /\ allocated_device_bytes = Cardinality(DeviceBytes)

(* A freed address never becomes live again, so a free or a paging command *)
(* that is applied late cannot hit a block allocated after the one it was  *)
(* meant for: below the bump pointer no block appears, and the pointer     *)
(* never falls back.                                                       *)
NoReuse ==
    [][/\ next_addr <= next_addr'
       /\ \A a \in Base..(next_addr - 1) :
             a \in DOMAIN allocations' => a \in DOMAIN allocations]_vars

(* Only a migration may take the device beyond its capacity: an allocation *)
(* that does not fit is placed in host memory instead.                     *)
AllocRespectsCapacity ==
    [][ (/\ allocated_device_bytes' > allocated_device_bytes
         /\ allocated_device_bytes' > device_capacity_bytes)
        => /\ DOMAIN allocations' = DOMAIN allocations
           /\ \E a \in DOMAIN allocations :
                 allocations[a].domain # allocations'[a].domain]_vars

(* The allocator implements the address space it promises, provided no     *)
(* caller asks for zero bytes: everything below the bump pointer counts as *)
(* granted.                                                                *)
Promise == INSTANCE AddressSpace WITH
              live <- allocations, granted <- Base..(next_addr - 1),
              Domain <- MemoryDomain

ImplementsAddressSpace == Promise!Spec

=============================================================================
