---------------------------- MODULE MemoryProofs ----------------------------
(***************************************************************************)
(* Proofs about DuvasAllocator, for every page size, address range, device *)
(* capacity and set of request sizes; about the pager composed with it,    *)
(* for any number of client threads and calls and windows of any size; and *)
(* about the pager under one planning thread, for layers, windows and a    *)
(* device of any size and a plan any number of windows ahead of the        *)
(* worker: the device never holds more than fits, and once the worker has  *)
(* caught up it holds what was planned.                                    *)
(***************************************************************************)
EXTENDS SlidingWindowClient, FiniteSetTheorems, SequenceTheorems, TLAPS

-----------------------------------------------------------------------------
(* Arithmetic of the page rounding.                                        *)

\* Rounding a size up to pages yields a size.
LEMMA AlignUpType ==
  ASSUME NEW n \in Nat
  PROVE  AlignUp(n) \in Nat
<1>1. (n + PAGE - 1) \div PAGE \in Nat
  BY PageAssumption
<1> DEFINE q == (n + PAGE - 1) \div PAGE
<1> HIDE DEF q
<1>2. q \in Nat => q * PAGE \in Nat
  BY PageAssumption
<1>3. QED  BY <1>1, <1>2 DEF AlignUp, q

\* A request for at least one byte takes at least one byte of addresses.
LEMMA AlignUpPositive ==
  ASSUME NEW n \in Nat, n # 0
  PROVE  AlignUp(n) > 0
<1> DEFINE q == (n + PAGE - 1) \div PAGE
<1>1. q \in Nat /\ q > 0
  BY PageAssumption
<1> HIDE DEF q
<1>2. q * PAGE > 0
  BY <1>1, PageAssumption
<1>3. QED  BY <1>2 DEF AlignUp, q

-----------------------------------------------------------------------------
(* Counting bytes.                                                         *)

\* A block of n bytes covers n distinct bytes.
LEMMA BlockSize ==
  ASSUME NEW a \in Int, NEW n \in Nat
  PROVE  /\ IsFiniteSet(a..(a + n - 1))
         /\ Cardinality(a..(a + n - 1)) = n
BY FS_Interval

\* Two sets of bytes that share none have the sum of their sizes.
LEMMA DisjointUnion ==
  ASSUME NEW S, NEW T, IsFiniteSet(S), IsFiniteSet(T), S \cap T = {}
  PROVE  /\ IsFiniteSet(S \cup T)
         /\ Cardinality(S \cup T) = Cardinality(S) + Cardinality(T)
         /\ Cardinality(S) \in Nat /\ Cardinality(T) \in Nat
BY FS_Union, FS_EmptySet, FS_CardinalityType

\* All bytes of live blocks lie between Base and the bump pointer.
LEMMA BytesFinite ==
  ASSUME TypeOK, BelowNext
  PROVE  /\ LiveBytes \subseteq Base..(next_addr - 1)
         /\ DeviceBytes \subseteq LiveBytes
         /\ IsFiniteSet(LiveBytes) /\ IsFiniteSet(DeviceBytes)
         /\ Cardinality(LiveBytes) \in Nat /\ Cardinality(DeviceBytes) \in Nat
<1>1. LiveBytes \subseteq Base..(next_addr - 1)
  <2> SUFFICES ASSUME NEW a \in DOMAIN allocations, NEW x \in Span(allocations, a)
               PROVE  x \in Base..(next_addr - 1)
    BY DEF LiveBytes
  <2>1. a \in Int /\ a >= Base /\ allocations[a].size_bytes \in Nat
    BY AddressAssumption DEF TypeOK, Addr, MemoryBlock
  <2>2. QED
    BY <2>1, AddressAssumption DEF Span, BelowNext, TypeOK, Addr
<1>2. DeviceBytes \subseteq LiveBytes
  BY DEF DeviceBytes, LiveBytes, Resident
<1>3. IsFiniteSet(Base..(next_addr - 1))
  BY FS_Interval, AddressAssumption DEF TypeOK, Addr
<1>4. IsFiniteSet(LiveBytes)
  BY <1>1, <1>3, FS_Subset
<1>5. IsFiniteSet(DeviceBytes)
  BY <1>2, <1>4, FS_Subset
<1>6. QED
  BY <1>1, <1>2, <1>4, <1>5, FS_CardinalityType

(***************************************************************************)
(* The inductive invariant.  Disjoint is not inductive alone: a new block  *)
(* is put at the bump pointer, so BelowNext is needed.  TypeOK is not      *)
(* either: that the counters stay in Nat when free and migrate subtract    *)
(* from them needs Accounting, which in turn needs Disjoint, because only  *)
(* for disjoint blocks is a sum of sizes a number of bytes.  NoEmptyBlock  *)
(* keeps the bump pointer free of a live block, for the refinement.        *)
(***************************************************************************)
NoEmptyBlock ==
    0 \notin Sizes =>
        \A a \in DOMAIN allocations : allocations[a].size_bytes > 0

IInv == TypeOK /\ BelowNext /\ Disjoint /\ Accounting /\ NoEmptyBlock

\* The empty allocator satisfies the invariant.
LEMMA InitInv == Init => IInv
<1> SUFFICES ASSUME Init PROVE IInv
  OBVIOUS
<1>1. DOMAIN allocations = {}
  BY DEF Init
<1>2. LiveBytes = {} /\ DeviceBytes = {}
  BY <1>1 DEF LiveBytes, DeviceBytes, Resident
<1>3. TypeOK
  BY <1>1, AddressAssumption DEF Init, TypeOK, Addr
<1>4. QED
  BY <1>1, <1>2, <1>3, FS_EmptySet DEF Init, IInv, BelowNext, Disjoint, Accounting,
                                         NoEmptyBlock

-----------------------------------------------------------------------------
\* alloc puts the new block on bytes no live block covers.
LEMMA AllocInv ==
  ASSUME IInv, NEW size_bytes \in Sizes, NEW is_static \in BOOLEAN,
         next_addr + AlignUp(size_bytes) <= MaxAddr,
         Alloc(size_bytes, is_static)
  PROVE  IInv'
<1> DEFINE n == AlignUp(size_bytes)
           new == next_addr..(next_addr + n - 1)
<1>1. n \in Nat
  BY AlignUpType, SizesAssumption
<1> HIDE DEF n
<1>2. /\ next_addr' = next_addr + n
      /\ allocated_virtual_bytes' = allocated_virtual_bytes + n
      /\ DOMAIN allocations' = DOMAIN allocations \cup {next_addr}
      /\ allocations'[next_addr].size_bytes = n
      /\ allocations'[next_addr].domain \in {"LocalDevice", "Host"}
      /\ allocations'[next_addr] \in MemoryBlock
      /\ \A a \in DOMAIN allocations :
            a # next_addr => allocations'[a] = allocations[a]
  BY <1>1 DEF Alloc, Insert, n, MemoryBlock, MemoryDomain
<1>2a. allocations' \in [DOMAIN allocations' -> MemoryBlock]
  BY <1>1 DEF Alloc, Insert, n, MemoryBlock, MemoryDomain, IInv, TypeOK
<1>3. /\ allocated_device_bytes \in Nat /\ allocated_virtual_bytes \in Nat
      /\ next_addr \in Nat /\ next_addr >= Base /\ next_addr + n <= MaxAddr
      /\ \A a \in DOMAIN allocations :
            /\ a \in Nat /\ a >= Base /\ a <= MaxAddr
            /\ allocations[a].size_bytes \in Nat
            /\ a + allocations[a].size_bytes <= next_addr
  BY AddressAssumption DEF IInv, TypeOK, Addr, MemoryBlock, BelowNext, n
<1>4. \/ /\ allocations'[next_addr].domain = "LocalDevice"
         /\ allocated_device_bytes' = allocated_device_bytes + n
      \/ /\ allocations'[next_addr].domain = "Host"
         /\ allocated_device_bytes' = allocated_device_bytes
  BY <1>1, <1>3 DEF Alloc, Insert, n
\* a block of the same address can only be an empty one
<1>5. next_addr \in DOMAIN allocations => Span(allocations, next_addr) = {}
  BY <1>3 DEF Span
<1>6. \A a \in DOMAIN allocations : a # next_addr => Span(allocations', a) = Span(allocations, a)
  BY <1>2 DEF Span
<1>7. Span(allocations', next_addr) = new
  BY <1>2 DEF Span
<1>8. TypeOK'
  BY <1>1, <1>2, <1>2a, <1>3, <1>4, AddressAssumption DEF TypeOK, Addr
<1>9. BelowNext'
  BY <1>1, <1>2, <1>3 DEF BelowNext
<1>10. Disjoint'
  BY <1>1, <1>2, <1>3 DEF Disjoint, IInv
<1>11. Accounting'
  <2>1. LiveBytes' = LiveBytes \cup new
    <3> HIDE DEF new
    <3>1. ASSUME NEW x PROVE x \in LiveBytes' <=> x \in LiveBytes \cup new
      BY <1>2, <1>5, <1>6, <1>7 DEF LiveBytes
    <3>2. QED  BY <3>1
  <2>2. LiveBytes \cap new = {}
    BY BytesFinite, <1>1, <1>3, AddressAssumption DEF IInv
  <2>3. /\ IsFiniteSet(new) /\ Cardinality(new) = n
    <3>1. next_addr \in Int  BY <1>3
    <3>2. QED  BY <3>1, <1>1, BlockSize
  <2>4. Cardinality(LiveBytes') = Cardinality(LiveBytes) + n
    <3> HIDE DEF new
    <3>1. QED  BY <2>1, <2>2, <2>3, BytesFinite, DisjointUnion DEF IInv
  <2>5. CASE /\ allocations'[next_addr].domain = "LocalDevice"
             /\ allocated_device_bytes' = allocated_device_bytes + n
    <3>1. DeviceBytes' = DeviceBytes \cup new
      <4> HIDE DEF new
      <4>1. ASSUME NEW x PROVE x \in DeviceBytes' <=> x \in DeviceBytes \cup new
        BY <1>2, <1>5, <1>6, <1>7, <2>5 DEF DeviceBytes, Resident
      <4>2. QED  BY <4>1
    <3>2. DeviceBytes \cap new = {}
      BY BytesFinite, <2>2 DEF IInv
    <3> HIDE DEF new
    <3>3. Cardinality(DeviceBytes') = Cardinality(DeviceBytes) + n
      BY <3>1, <3>2, <2>3, BytesFinite, DisjointUnion DEF IInv
    <3>4. QED
      BY <2>4, <3>3, <1>2, <2>5 DEF Accounting, IInv
  <2>6. CASE /\ allocations'[next_addr].domain = "Host"
             /\ allocated_device_bytes' = allocated_device_bytes
    <3>1. DeviceBytes' = DeviceBytes
      BY <1>2, <1>5, <1>6, <1>7, <2>6 DEF DeviceBytes, Resident
    <3>2. QED
      BY <2>4, <3>1, <1>2, <2>6 DEF Accounting, IInv
  <2>7. QED  BY <1>4, <2>5, <2>6
<1>12. NoEmptyBlock'
  <2>1. 0 \notin Sizes => n > 0
    BY AlignUpPositive, SizesAssumption DEF n
  <2>2. QED
    BY <1>2, <2>1 DEF NoEmptyBlock, IInv
<1>13. QED
  BY <1>8, <1>9, <1>10, <1>11, <1>12 DEF IInv

-----------------------------------------------------------------------------
(* Taking a block out, or moving it, changes the device bytes by the span  *)
(* of that block and nothing else.                                         *)

\* The span of one block, counted against all the others of a set.
LEMMA SpanApart ==
  ASSUME IInv, NEW addr \in DOMAIN allocations, NEW S \in SUBSET DOMAIN allocations,
         addr \notin S
  PROVE  LET rest == UNION {Span(allocations, a) : a \in S}
             span == Span(allocations, addr)
         IN  /\ rest \cap span = {}
             /\ IsFiniteSet(rest) /\ IsFiniteSet(span)
             /\ Cardinality(span) = allocations[addr].size_bytes
             /\ Cardinality(rest \cup span)
                  = Cardinality(rest) + allocations[addr].size_bytes
             /\ Cardinality(rest) \in Nat
             /\ allocations[addr].size_bytes \in Nat
<1> DEFINE rest == UNION {Span(allocations, a) : a \in S}
           span == Span(allocations, addr)
<1>1. \A a \in DOMAIN allocations : a \in Nat /\ allocations[a].size_bytes \in Nat
  BY AddressAssumption DEF IInv, TypeOK, Addr, MemoryBlock
<1>2. rest \cap span = {}
  BY <1>1 DEF IInv, Disjoint, Span
<1>3. rest \subseteq LiveBytes
  BY DEF LiveBytes
<1>4. IsFiniteSet(rest) /\ Cardinality(rest) \in Nat
  BY <1>3, BytesFinite, FS_Subset, FS_CardinalityType DEF IInv
<1>5. IsFiniteSet(span) /\ Cardinality(span) = allocations[addr].size_bytes
  <2> DEFINE n == allocations[addr].size_bytes
  <2>1. addr \in Int /\ n \in Nat
    BY <1>1
  <2>2. span = addr..(addr + n - 1)
    BY DEF Span
  <2> HIDE DEF n, span
  <2>3. IsFiniteSet(addr..(addr + n - 1)) /\ Cardinality(addr..(addr + n - 1)) = n
    BY <2>1, BlockSize
  <2>4. IsFiniteSet(span) /\ Cardinality(span) = n
    BY <2>2, <2>3
  <2>5. QED  BY <2>4 DEF n
<1> HIDE DEF rest, span
<1>6. Cardinality(rest \cup span) = Cardinality(rest) + Cardinality(span)
  BY <1>2, <1>4, <1>5, DisjointUnion
<1>7. QED
  BY <1>1, <1>2, <1>4, <1>5, <1>6 DEF rest, span

\* free takes the bytes of exactly one block out of both counters.
LEMMA FreeInv ==
  ASSUME IInv, NEW addr, Free(addr)
  PROVE  IInv'
<1>1. /\ addr \in DOMAIN allocations
      /\ DOMAIN allocations' = DOMAIN allocations \ {addr}
      /\ \A a \in DOMAIN allocations' : allocations'[a] = allocations[a]
      /\ next_addr' = next_addr
      /\ allocated_virtual_bytes'
           = allocated_virtual_bytes - allocations[addr].size_bytes
      /\ allocated_device_bytes' = allocated_device_bytes
           - DeviceShare(allocations[addr], allocations[addr].domain)
  BY DEF Free, DropBlock, Restrict
<1>2. \A a \in DOMAIN allocations' : Span(allocations', a) = Span(allocations, a)
  BY <1>1 DEF Span
<1> DEFINE span == Span(allocations, addr)
           n == allocations[addr].size_bytes
<1>3. /\ Cardinality(LiveBytes) = Cardinality(LiveBytes') + n
      /\ Cardinality(LiveBytes') \in Nat /\ n \in Nat
  <2>1. LiveBytes' = UNION {Span(allocations, a) : a \in DOMAIN allocations \ {addr}}
    BY <1>1, <1>2 DEF LiveBytes
  <2>2. LiveBytes = LiveBytes' \cup span
    BY <1>1, <2>1 DEF LiveBytes
  <2>3. QED
    BY <1>1, <2>1, <2>2, SpanApart
<1>4. /\ Cardinality(DeviceBytes) = Cardinality(DeviceBytes')
            + DeviceShare(allocations[addr], allocations[addr].domain)
      /\ Cardinality(DeviceBytes') \in Nat
  <2>1. DeviceBytes' = UNION {Span(allocations, a) : a \in Resident \ {addr}}
    BY <1>1, <1>2 DEF DeviceBytes, Resident
  <2>2. CASE allocations[addr].domain = "LocalDevice"
    <3>1. DeviceBytes = DeviceBytes' \cup span
      BY <1>1, <2>1, <2>2 DEF DeviceBytes, Resident
    <3>2. Resident \ {addr} \in SUBSET DOMAIN allocations
      BY DEF Resident
    <3>3. QED
      BY <1>1, <2>1, <2>2, <3>1, <3>2, SpanApart DEF DeviceShare
  <2>3. CASE allocations[addr].domain # "LocalDevice"
    <3>1. DeviceBytes = DeviceBytes'
      BY <1>1, <2>1, <2>3 DEF DeviceBytes, Resident
    <3>2. QED
      BY <2>3, <3>1, BytesFinite DEF DeviceShare, IInv
  <2>4. QED  BY <2>2, <2>3
<1>5. Accounting'
  <2>1. DeviceShare(allocations[addr], allocations[addr].domain) \in Nat
    BY <1>3 DEF DeviceShare
  <2>2. QED  BY <1>1, <1>3, <1>4, <2>1 DEF Accounting, IInv
<1>6. TypeOK'
  <2>1. allocations' \in [DOMAIN allocations' -> MemoryBlock]
    BY DEF Free, DropBlock, Restrict, IInv, TypeOK
  <2>2. QED
    BY <1>1, <1>3, <1>4, <1>5, <2>1 DEF TypeOK, IInv, Accounting
<1>7. BelowNext' /\ Disjoint' /\ NoEmptyBlock'
  BY <1>1 DEF BelowNext, Disjoint, NoEmptyBlock, IInv
<1>8. QED
  BY <1>5, <1>6, <1>7 DEF IInv

\* migrate moves the bytes of exactly one block in or out of the device.
LEMMA MigrateInv ==
  ASSUME IInv, NEW addr, NEW target_domain \in MemoryDomain,
         Migrate(addr, target_domain)
  PROVE  IInv'
<1>1. /\ addr \in DOMAIN allocations
      /\ allocations[addr].domain # target_domain
      /\ DOMAIN allocations' = DOMAIN allocations
      /\ next_addr' = next_addr
      /\ allocated_virtual_bytes' = allocated_virtual_bytes
      /\ allocated_device_bytes' = allocated_device_bytes
           - DeviceShare(allocations[addr], allocations[addr].domain)
           + DeviceShare(allocations[addr], target_domain)
  BY DEF Migrate
<1>2. allocations' \in [DOMAIN allocations' -> MemoryBlock]
  BY DEF Migrate, IInv, TypeOK, MemoryBlock
<1>3. /\ \A a \in DOMAIN allocations :
           allocations'[a].size_bytes = allocations[a].size_bytes
      /\ \A a \in DOMAIN allocations :
           a # addr => allocations'[a].domain = allocations[a].domain
      /\ allocations'[addr].domain = target_domain
  BY <1>1 DEF Migrate, IInv, TypeOK, MemoryBlock
<1>4. \A a \in DOMAIN allocations : Span(allocations', a) = Span(allocations, a)
  BY <1>3 DEF Span
<1>5. LiveBytes' = LiveBytes
  BY <1>1, <1>4 DEF LiveBytes
<1> DEFINE others == UNION {Span(allocations, a) : a \in Resident \ {addr}}
           span == Span(allocations, addr)
           n == allocations[addr].size_bytes
<1>6. /\ Cardinality(others \cup span) = Cardinality(others) + n
      /\ Cardinality(others) \in Nat /\ n \in Nat
  <2>1. Resident \ {addr} \in SUBSET DOMAIN allocations
    BY DEF Resident
  <2>2. QED
    BY <1>1, <2>1, SpanApart
<1>7. Cardinality(DeviceBytes)
        = Cardinality(others) + DeviceShare(allocations[addr], allocations[addr].domain)
  <2>1. CASE allocations[addr].domain = "LocalDevice"
    <3>1. DeviceBytes = others \cup span
      BY <1>1, <2>1 DEF DeviceBytes, Resident
    <3>2. QED  BY <1>6, <2>1, <3>1 DEF DeviceShare
  <2>2. CASE allocations[addr].domain # "LocalDevice"
    <3>1. DeviceBytes = others
      BY <2>2 DEF DeviceBytes, Resident
    <3>2. QED  BY <1>6, <2>2, <3>1 DEF DeviceShare
  <2>3. QED  BY <2>1, <2>2
<1>8. Cardinality(DeviceBytes')
        = Cardinality(others) + DeviceShare(allocations[addr], target_domain)
  <2>1. CASE target_domain = "LocalDevice"
    <3>1. Resident' = (Resident \ {addr}) \cup {addr}
      BY <1>1, <1>3, <2>1 DEF Resident
    <3>2. DeviceBytes' = others \cup span
      BY <1>1, <1>4, <3>1 DEF DeviceBytes, Resident
    <3>3. QED  BY <1>6, <2>1, <3>2 DEF DeviceShare
  <2>2. CASE target_domain # "LocalDevice"
    <3>1. Resident' = Resident \ {addr}
      BY <1>1, <1>3, <2>2 DEF Resident
    <3>2. DeviceBytes' = others
      BY <1>1, <1>4, <3>1 DEF DeviceBytes, Resident
    <3>3. QED  BY <1>6, <2>2, <3>2 DEF DeviceShare
  <2>3. QED  BY <2>1, <2>2
<1>9. /\ DeviceShare(allocations[addr], allocations[addr].domain) \in Nat
      /\ DeviceShare(allocations[addr], target_domain) \in Nat
  BY <1>6 DEF DeviceShare
<1> HIDE DEF others, span, n
<1>10. Accounting'
  BY <1>1, <1>5, <1>6, <1>7, <1>8, <1>9 DEF Accounting, IInv
<1>11. TypeOK'
  <2>1. allocated_device_bytes' \in Nat
    BY <1>6, <1>8, <1>9, <1>10 DEF Accounting
  <2>2. QED
    BY <1>1, <1>2, <2>1 DEF TypeOK, IInv
<1>12. BelowNext' /\ Disjoint' /\ NoEmptyBlock'
  BY <1>1, <1>3 DEF BelowNext, Disjoint, NoEmptyBlock, IInv
<1>13. QED
  BY <1>10, <1>11, <1>12 DEF IInv

\* A call that returns early leaves the invariant alone.
LEMMA StutterInv == IInv /\ UNCHANGED vars => IInv'
BY DEF IInv, vars, TypeOK, BelowNext, Disjoint, Accounting, LiveBytes,
       DeviceBytes, Resident, Span, NoEmptyBlock

\* Every call, by whichever thread and in whichever order, preserves IInv.
LEMMA NextInv == IInv /\ [Next]_vars => IInv'
<1> SUFFICES ASSUME IInv, [Next]_vars PROVE IInv'
  OBVIOUS
<1>1. CASE BoundedAlloc
  BY <1>1, AllocInv DEF BoundedAlloc
<1>2. CASE \E addr \in Addr : Free(addr) \/ FreeUnknown(addr)
  BY <1>2, FreeInv, StutterInv DEF FreeUnknown
<1>3. CASE \E addr \in Addr, target_domain \in MemoryDomain :
             Migrate(addr, target_domain) \/ MigrateNothing(addr, target_domain)
  BY <1>3, MigrateInv, StutterInv DEF MigrateNothing
<1>4. CASE UNCHANGED vars
  BY <1>4, StutterInv
<1>5. QED
  BY <1>1, <1>2, <1>3, <1>4 DEF Next

-----------------------------------------------------------------------------
(* For every page size, capacity and set of request sizes (zero included): *)
(* the allocator's state is well typed, its counters never underflow, its  *)
(* live blocks are disjoint, and the counters get_metrics returns are the  *)
(* numbers of bytes really allocated and really on the device.             *)
THEOREM AllocatorSafety == Spec => [](TypeOK /\ Disjoint /\ Accounting)
<1>1. Init => IInv
  BY InitInv
<1>2. IInv /\ [Next]_vars => IInv'
  BY NextInv
<1>3. IInv => TypeOK /\ Disjoint /\ Accounting
  BY DEF IInv
<1>4. QED
  BY <1>1, <1>2, <1>3, PTL DEF Spec

(* The invariant itself, for the modules that build on the allocator.      *)
THEOREM AllocatorInvariant == Spec => []IInv
<1>1. QED
  BY InitInv, NextInv, PTL DEF Spec

(* Only migrate may exceed the capacity of the device; alloc falls back to *)
(* host memory.                                                            *)
THEOREM CapacityTheorem == Spec => AllocRespectsCapacity
<1>1. ASSUME IInv, [Next]_vars,
             allocated_device_bytes' > allocated_device_bytes,
             allocated_device_bytes' > device_capacity_bytes
      PROVE  /\ DOMAIN allocations' = DOMAIN allocations
             /\ \E a \in DOMAIN allocations :
                   allocations[a].domain # allocations'[a].domain
  <2> USE CapacityAssumption
  <2>0. /\ allocated_device_bytes \in Nat
        /\ \A a \in DOMAIN allocations : allocations[a].size_bytes \in Nat
    BY <1>1 DEF IInv, TypeOK, MemoryBlock
  <2>1. CASE BoundedAlloc
    <3>1. PICK size_bytes \in Sizes, is_static \in BOOLEAN :
                 Alloc(size_bytes, is_static)
      BY <2>1 DEF BoundedAlloc
    <3>2. AlignUp(size_bytes) \in Nat
      BY AlignUpType, SizesAssumption
    <3>3. \/ allocated_device_bytes' = allocated_device_bytes
          \/ allocated_device_bytes' <= device_capacity_bytes
      BY <2>0, <3>1, <3>2 DEF Alloc, FitsOnDevice
    <3>4. QED  BY <1>1, <2>0, <3>3, <3>1, <3>2 DEF Alloc
  <2>2. CASE \E addr \in Addr : Free(addr) \/ FreeUnknown(addr)
    BY <1>1, <2>0, <2>2 DEF Free, DropBlock, FreeUnknown, DeviceShare, vars
  <2>3. CASE \E addr \in Addr, target_domain \in MemoryDomain :
               Migrate(addr, target_domain) \/ MigrateNothing(addr, target_domain)
    <3>1. PICK addr \in Addr, target_domain \in MemoryDomain :
                 Migrate(addr, target_domain) \/ MigrateNothing(addr, target_domain)
      BY <2>3
    <3>2. CASE MigrateNothing(addr, target_domain)
      BY <1>1, <2>0, <3>2 DEF MigrateNothing, vars
    <3>3. CASE Migrate(addr, target_domain)
      BY <1>1, <3>3 DEF Migrate, IInv, TypeOK, MemoryBlock
    <3>4. QED  BY <3>1, <3>2, <3>3
  <2>4. CASE UNCHANGED vars
    BY <1>1, <2>0, <2>4 DEF vars
  <2>5. QED  BY <1>1, <2>1, <2>2, <2>3, <2>4 DEF Next
<1>2. QED
  BY <1>1, AllocatorInvariant, PTL DEF Spec, AllocRespectsCapacity

(* A freed address is never handed out again, so a command or a free that  *)
(* arrives late finds its own block or none.                               *)
THEOREM NoReuseTheorem == Spec => NoReuse
<1>1. ASSUME IInv, [Next]_vars, NEW a \in Base..(next_addr - 1),
             a \in DOMAIN allocations'
      PROVE  a \in DOMAIN allocations
  <2>1. CASE BoundedAlloc
    <3>1. DOMAIN allocations' = DOMAIN allocations \cup {next_addr}
      BY <2>1 DEF BoundedAlloc, Alloc, Insert
    <3>2. a # next_addr
      BY <1>1, AddressAssumption DEF IInv, TypeOK, Addr
    <3>3. QED  BY <1>1, <3>1, <3>2
  <2>2. CASE \E addr \in Addr : Free(addr) \/ FreeUnknown(addr)
    BY <1>1, <2>2 DEF Free, DropBlock, Restrict, FreeUnknown, vars
  <2>3. CASE \E addr \in Addr, target_domain \in MemoryDomain :
               Migrate(addr, target_domain) \/ MigrateNothing(addr, target_domain)
    BY <1>1, <2>3 DEF Migrate, MigrateNothing, vars
  <2>4. CASE UNCHANGED vars
    BY <1>1, <2>4 DEF vars
  <2>5. QED  BY <1>1, <2>1, <2>2, <2>3, <2>4 DEF Next
<1>2. ASSUME IInv, [Next]_vars PROVE next_addr <= next_addr'
  <2>0. next_addr \in Nat
    BY <1>2, AddressAssumption DEF IInv, TypeOK, Addr
  <2>1. CASE BoundedAlloc
    <3>1. PICK size_bytes \in Sizes : next_addr' = next_addr + AlignUp(size_bytes)
      BY <2>1 DEF BoundedAlloc, Alloc
    <3>2. AlignUp(size_bytes) \in Nat
      BY AlignUpType, SizesAssumption
    <3>3. QED  BY <2>0, <3>1, <3>2
  <2>2. CASE next_addr' = next_addr
    BY <2>0, <2>2
  <2>3. QED
    BY <1>2, <2>1, <2>2 DEF Next, Free, FreeUnknown, Migrate, MigrateNothing, vars
<1>3. IInv /\ [Next]_vars =>
        [/\ next_addr <= next_addr'
         /\ \A a \in Base..(next_addr - 1) :
               a \in DOMAIN allocations' => a \in DOMAIN allocations]_vars
  BY <1>1, <1>2
<1>4. QED
  BY <1>3, AllocatorInvariant, PTL DEF Spec, NoReuse

-----------------------------------------------------------------------------
(* Step simulation: each call of the allocator is a step of the abstract   *)
(* address space, or none.                                                 *)
LEMMA StepSimulation ==
  ASSUME 0 \notin Sizes, IInv, [Next]_vars
  PROVE  [Promise!Next]_<<allocations, Base..(next_addr - 1)>>
<1> USE AddressAssumption
<1>1. CASE BoundedAlloc
  <2>1. PICK size_bytes \in Sizes, is_static \in BOOLEAN :
               Alloc(size_bytes, is_static)
    BY <1>1 DEF BoundedAlloc
  <2> DEFINE n == AlignUp(size_bytes)
             addr == next_addr
             fresh == Promise!Bytes(addr, allocations'[addr].size_bytes)
  <2>2. n \in Nat /\ n > 0
    BY AlignUpType, AlignUpPositive, SizesAssumption
  <2> HIDE DEF n
  <2>3. /\ addr \in Nat /\ addr >= Base
        /\ \A a \in DOMAIN allocations :
              a \in Nat /\ allocations[a].size_bytes \in Nat
        /\ \A a \in DOMAIN allocations : a + allocations[a].size_bytes <= addr
    BY DEF IInv, TypeOK, Addr, MemoryBlock, BelowNext
  <2>4. /\ DOMAIN allocations' = DOMAIN allocations \cup {addr}
        /\ allocations'[addr].size_bytes = n
        /\ next_addr' = addr + n
        /\ \A a \in DOMAIN allocations : a # addr => allocations'[a] = allocations[a]
    BY <2>1 DEF Alloc, Insert, n
  <2>5. fresh = addr..(addr + n - 1)
    BY <2>4 DEF Promise!Bytes
  <2>6. fresh # {} /\ fresh \cap (Base..(next_addr - 1)) = {}
    BY <2>2, <2>3, <2>5
  <2>7. Base..(next_addr' - 1) = (Base..(next_addr - 1)) \cup fresh
    BY <2>2, <2>3, <2>4, <2>5
  <2>8. addr \notin DOMAIN allocations
    BY <2>3 DEF IInv, NoEmptyBlock
  <2>9. Promise!Grant
    BY <2>4, <2>6, <2>7, <2>8 DEF Promise!Grant
  <2>10. QED  BY <2>9 DEF Promise!Next
<1>2. ASSUME NEW addr \in Addr, Free(addr) PROVE Promise!Release
  BY <1>2 DEF Free, DropBlock, Promise!Release, Restrict, Promise!Restrict
<1>3. ASSUME NEW addr \in Addr, NEW target_domain \in MemoryDomain,
             Migrate(addr, target_domain)
      PROVE  Promise!Move
  BY <1>3 DEF Migrate, Promise!Move
<1>4. CASE UNCHANGED vars
  BY <1>4 DEF vars
<1>5. QED
  BY <1>1, <1>2, <1>3, <1>4 DEF Next, Promise!Next, FreeUnknown, MigrateNothing

(* The allocator implements the abstract address space when no caller asks *)
(* for zero bytes: every block is granted on bytes never granted before,   *)
(* released once, and moved without touching any other block.              *)
THEOREM Refinement ==
  ASSUME 0 \notin Sizes
  PROVE  Spec => ImplementsAddressSpace
<1>1. Init => Promise!Init
  BY AddressAssumption DEF Init, Promise!Init
<1>2. IInv /\ [Next]_vars => [Promise!Next]_<<allocations, Base..(next_addr - 1)>>
  BY StepSimulation
<1>3. QED
  BY <1>1, <1>2, AllocatorInvariant, PTL DEF Spec, ImplementsAddressSpace, Promise!Spec

-----------------------------------------------------------------------------
(* The allocator under the pager.  Whatever the pager's threads do, the    *)
(* allocator sees calls of its own methods.                                *)

\* The domains the worker migrates blocks to are domains.
LEMMA TargetType == Target \in MemoryDomain
BY DEF Target, MemoryDomain

\* Each step of the composed system is a step of the allocator or none.
LEMMA PagerStepIsAllocatorStep ==
  ASSUME [PagerNext]_allVars, IInv
  PROVE  IInv'
<1> USE PagerAssumption
<1>1. CASE AppMemory
  <2>1. CASE BoundedAlloc
    BY <2>1, NextInv DEF Next
  <2>2. CASE \E addr \in Addr : Free(addr) \/ FreeUnknown(addr)
    BY <2>2, NextInv DEF Next
  <2>3. CASE \E addr \in Addr, d \in AppDomains :
                 Migrate(addr, d) \/ MigrateNothing(addr, d)
    BY <2>3, NextInv DEF Next
  <2>4. QED  BY <1>1, <2>1, <2>2, <2>3 DEF AppMemory
<1>2. CASE WorkerMigrate
  <2>1. CASE Migrate(wcmd.addr, Target)
    BY <2>1, MigrateInv, TargetType
  <2>2. CASE MigrateNothing(wcmd.addr, Target)
    BY <2>2, StutterInv DEF MigrateNothing
  <2>3. QED  BY <1>2, <2>1, <2>2 DEF WorkerMigrate
<1>3. CASE UNCHANGED vars
  BY <1>3, StutterInv
<1>4. QED
  BY <1>1, <1>2, <1>3
     DEF PagerNext, AppWindow, SlideWindow, Send, Worker, WorkerRecv,
         WorkerCheck, Drop, Join, allVars

(* Under the pager too, and with clients calling the allocator at any      *)
(* time, blocks stay disjoint and the counters stay true.                  *)
THEOREM AllocatorUnderPager == PagerSpec => [](TypeOK /\ Disjoint /\ Accounting)
<1>1. PagerInit => IInv
  BY InitInv DEF PagerInit
<1>2. IInv /\ [PagerNext]_allVars => IInv'
  BY PagerStepIsAllocatorStep
<1>3. IInv => TypeOK /\ Disjoint /\ Accounting
  BY DEF IInv
<1>4. QED
  BY <1>1, <1>2, <1>3, PTL DEF PagerSpec

-----------------------------------------------------------------------------
(* Shutdown.                                                               *)

\* Commands are never mistaken for the shutdown message.
LEMMA CommandFacts ==
  ASSUME NEW cmd \in PageCommand
  PROVE  /\ cmd.op \in {"Evict", "Prefetch"} /\ cmd.addr \in Layers
         /\ cmd # Shutdown /\ cmd # NoCommand
BY DEF PageCommand, Evict, Prefetch, Shutdown, NoCommand

\* slide_window posts paging commands only.
LEMMA CommandsType ==
  ASSUME NEW p \in Windows, NEW e \in Windows
  PROVE  Commands(p, e) \in Seq(PageCommand)
<1>1. p \in Seq(Layers) /\ e \in Seq(Layers)
  BY PagerAssumption DEF Windows
<1> DEFINE es == [i \in 1..Len(e) |-> Evict(e[i])]
           ps == [i \in 1..Len(p) |-> Prefetch(p[i])]
<1>2. es \in Seq(PageCommand)
  <2>1. \A i \in 1..Len(e) : Evict(e[i]) \in PageCommand
    BY <1>1 DEF PageCommand
  <2>2. QED  BY <1>1, <2>1
<1>3. ps \in Seq(PageCommand)
  <2>1. \A i \in 1..Len(p) : Prefetch(p[i]) \in PageCommand
    BY <1>1 DEF PageCommand
  <2>2. QED  BY <1>1, <2>1
<1> HIDE DEF es, ps
<1>4. es \o ps \in Seq(PageCommand)
  BY <1>2, <1>3
<1>5. QED  BY <1>4 DEF Commands, es, ps

\* Every step keeps the pager's state well typed.
LEMMA PagerTypeInv ==
  ASSUME PagerTypeOK, [PagerNext]_allVars
  PROVE  PagerTypeOK'
<1> USE DEF PagerTypeOK
<1>1. CASE AppMemory
  BY <1>1 DEF AppMemory, pagerVars
<1>2. CASE AppWindow
  <2>1. PICK c \in Clients, p \in Windows, e \in Windows :
               SlideWindow(c, p, e)
    BY <1>2 DEF AppWindow
  <2>2. Commands(p, e) \in Seq(PageCommand)
    BY CommandsType, PagerAssumption
  <2>3. calls[c] \in 0..MaxCalls /\ calls[c] < MaxCalls => calls[c] + 1 \in 0..MaxCalls
    BY PagerAssumption
  <2>4. QED  BY <2>1, <2>2, <2>3 DEF SlideWindow
<1>3. ASSUME NEW c \in Clients, Send(c) PROVE PagerTypeOK'
  <2>1. Head(todo[c]) \in PageCommand /\ Tail(todo[c]) \in Seq(PageCommand)
    BY <1>3 DEF Send
  <2>2. QED  BY <1>3, <2>1 DEF Send
<1>4. CASE WorkerRecv
  <2>1. /\ Head(queue) \in PageCommand \cup {Shutdown}
        /\ Tail(queue) \in Seq(PageCommand \cup {Shutdown})
    BY <1>4 DEF WorkerRecv
  <2>2. QED  BY <1>4, <2>1 DEF WorkerRecv
<1>5. CASE WorkerCheck
  BY <1>5 DEF WorkerCheck
<1>6. CASE WorkerMigrate
  BY <1>6 DEF WorkerMigrate
<1>7. CASE Drop
  BY <1>7 DEF Drop
<1>8. CASE Join
  BY <1>8 DEF Join
<1>9. CASE UNCHANGED allVars
  BY <1>9 DEF allVars, pagerVars
<1>10. QED
  BY <1>1, <1>2, <1>3, <1>4, <1>5, <1>6, <1>7, <1>8, <1>9 DEF PagerNext, Worker

(***************************************************************************)
(* Where Shutdown can be.  While the pager runs it has not been posted;    *)
(* once posted it is the last message of the channel, until the worker has *)
(* taken it off an otherwise empty channel.                                *)
(***************************************************************************)
ShutdownLast ==
    /\ pager = "running" =>
          /\ \A i \in 1..Len(queue) : queue[i] # Shutdown
          /\ wpc # "done"
    /\ pager # "running" =>
          /\ \A c \in Clients : todo[c] = <<>>
          /\ wpc = "done" => queue = <<>>
          /\ wpc # "done" =>
                /\ queue # <<>>
                /\ queue[Len(queue)] = Shutdown
                /\ \A i \in 1..(Len(queue) - 1) : queue[i] # Shutdown

\* A channel is empty exactly when its length is zero.
LEMMA EmptyLength ==
  ASSUME NEW S, NEW q \in Seq(S)
  PROVE  q = <<>> <=> Len(q) = 0
OBVIOUS

\* Taking the head off the channel moves every message one place up.
LEMMA TailFacts ==
  ASSUME NEW S, NEW q \in Seq(S), q # <<>>
  PROVE  /\ Tail(q) \in Seq(S) /\ Len(q) \in Nat /\ Len(q) > 0
         /\ Len(Tail(q)) = Len(q) - 1 /\ Head(q) = q[1]
         /\ \A i \in 1..(Len(q) - 1) : Tail(q)[i] = q[i + 1]
         /\ Tail(q) = <<>> <=> Len(q) = 1
<1>1. /\ Tail(q) \in Seq(S) /\ Len(q) \in Nat /\ Len(q) > 0
      /\ Len(Tail(q)) = Len(q) - 1 /\ Head(q) = q[1]
  OBVIOUS
<1>2. \A i \in 1..(Len(q) - 1) : Tail(q)[i] = q[i + 1]
  OBVIOUS
<1>3. Tail(q) = <<>> <=> Len(q) = 1
  <2> DEFINE r == Tail(q)
  <2>1. r \in Seq(S) /\ Len(r) = Len(q) - 1 /\ Len(q) \in Nat
    BY <1>1
  <2> HIDE DEF r
  <2>2. r = <<>> <=> Len(r) = 0
    BY <2>1, EmptyLength
  <2>3. Len(r) = 0 <=> Len(q) = 1
    BY <2>1
  <2>4. QED  BY <2>2, <2>3 DEF r
<1>4. QED  BY <1>1, <1>2, <1>3


\* Every step keeps Shutdown in its place.
LEMMA ShutdownInv ==
  ASSUME PagerTypeOK, ShutdownLast, [PagerNext]_allVars
  PROVE  ShutdownLast'
<1> DEFINE M == PageCommand \cup {Shutdown}
<1>0. queue \in Seq(M) /\ pager \in {"running", "joining", "dropped"}
  BY DEF PagerTypeOK
<1>1. CASE AppMemory
  BY <1>1 DEF AppMemory, pagerVars, ShutdownLast
<1>2. CASE AppWindow
  BY <1>2 DEF AppWindow, SlideWindow, ShutdownLast
<1>3. ASSUME NEW c \in Clients, Send(c) PROVE ShutdownLast'
  <2>1. pager = "running"
    BY <1>3 DEF Send, ShutdownLast
  <2>2. Head(todo[c]) \in PageCommand
    BY <1>3 DEF Send, PagerTypeOK
  <2>3. Head(todo[c]) # Shutdown
    BY <2>2, CommandFacts
  <2>4. \A i \in 1..Len(queue') : queue'[i] # Shutdown
    BY <1>0, <1>3, <2>1, <2>2, <2>3 DEF Send, ShutdownLast
  <2>5. QED  BY <1>3, <2>1, <2>4 DEF Send, ShutdownLast
<1>4. CASE WorkerRecv
  <2>1. /\ wpc = "recv" /\ queue # <<>> /\ queue' = Tail(queue)
        /\ wpc' = IF Head(queue) = Shutdown THEN "done" ELSE "check"
        /\ UNCHANGED <<todo, pager>>
    BY <1>4 DEF WorkerRecv
  <2>2. /\ Len(queue) \in Nat /\ Len(queue) > 0
        /\ Len(queue') = Len(queue) - 1 /\ Head(queue) = queue[1]
        /\ \A i \in 1..(Len(queue) - 1) : queue'[i] = queue[i + 1]
        /\ queue' = <<>> <=> Len(queue) = 1
    BY <1>0, <2>1, TailFacts
  <2>3. CASE pager = "running"
    BY <2>1, <2>2, <2>3 DEF ShutdownLast
  <2>4. CASE pager # "running"
    <3>1. /\ \A c \in Clients : todo'[c] = <<>>
          /\ pager' # "running"
          /\ queue[Len(queue)] = Shutdown
          /\ \A i \in 1..(Len(queue) - 1) : queue[i] # Shutdown
      BY <2>1, <2>4 DEF ShutdownLast
    <3>2. wpc' = "done" <=> Len(queue) = 1
      BY <2>1, <2>2, <3>1
    <3>3. CASE Len(queue) = 1
      BY <2>2, <3>1, <3>2, <3>3 DEF ShutdownLast
    <3>4. CASE Len(queue) # 1
      BY <2>2, <3>1, <3>2, <3>4 DEF ShutdownLast
    <3>5. QED  BY <3>3, <3>4
  <2>5. QED  BY <2>3, <2>4
<1>5. CASE WorkerCheck
  BY <1>5 DEF WorkerCheck, ShutdownLast
<1>6. CASE WorkerMigrate
  BY <1>6 DEF WorkerMigrate, ShutdownLast
<1>7. CASE Drop
  <2>1. queue' = Append(queue, Shutdown) /\ wpc # "done"
    BY <1>7 DEF Drop, ShutdownLast
  <2>2. /\ queue' # <<>> /\ queue'[Len(queue')] = Shutdown
        /\ \A i \in 1..(Len(queue') - 1) : queue'[i] = queue[i]
        /\ Len(queue') - 1 = Len(queue)
    BY <1>0, <2>1
  <2>3. QED  BY <1>7, <2>1, <2>2 DEF Drop, ShutdownLast
<1>8. CASE Join
  BY <1>8 DEF Join, ShutdownLast
<1>9. CASE UNCHANGED allVars
  BY <1>9 DEF allVars, pagerVars, ShutdownLast
<1>10. QED
  BY <1>1, <1>2, <1>3, <1>4, <1>5, <1>6, <1>7, <1>8, <1>9 DEF PagerNext, Worker

\* The pager starts well typed and without a Shutdown message.
LEMMA PagerInitInv == PagerInit => PagerTypeOK /\ ShutdownLast
BY PagerAssumption DEF PagerInit, PagerTypeOK, ShutdownLast

(* Dropping the pager loses no command: when the worker has ended, the     *)
(* channel is empty and no call owes it a message.                         *)
THEOREM ShutdownTheorem == PagerSpec => [](PagerTypeOK /\ DrainedAtExit)
<1>1. PagerTypeOK /\ ShutdownLast /\ [PagerNext]_allVars
        => PagerTypeOK' /\ ShutdownLast'
  BY PagerTypeInv, ShutdownInv
<1>2. PagerTypeOK /\ ShutdownLast => PagerTypeOK /\ DrainedAtExit
  BY DEF DrainedAtExit, ShutdownLast
<1>3. QED
  BY <1>1, <1>2, PagerInitInv, PTL DEF PagerSpec

-----------------------------------------------------------------------------
(* The check-then-act race of evictions.                                   *)

\* The strengthening: the block that was seen on the device had an address
\* below the bump pointer, where no new block can appear.
CheckedBelowNext ==
    wpc = "migrate" /\ wcmd.op = "Evict" =>
        /\ wcmd.addr \in Base..(next_addr - 1)
        /\ EvictionCheckStands

\* Clients allocate and free, but never under an address below next_addr,
\* and move blocks only onto the device.
LEMMA EvictionInv ==
  ASSUME AppDomains \subseteq {"LocalDevice"}, 0 \notin Sizes, IInv, PagerTypeOK,
         CheckedBelowNext, [PagerNext]_allVars
  PROVE  CheckedBelowNext'
<1> USE AddressAssumption
<1>1. CASE AppMemory
  <2>0. UNCHANGED <<wpc, wcmd>>
    BY <1>1 DEF AppMemory, pagerVars
  <2>1. CASE BoundedAlloc
    <3>1. PICK size_bytes \in Sizes, is_static \in BOOLEAN :
                 Alloc(size_bytes, is_static)
      BY <2>1 DEF BoundedAlloc
    <3>2. AlignUp(size_bytes) \in Nat
      BY AlignUpType, SizesAssumption
    <3>3. next_addr \in Nat /\ next_addr' = next_addr + AlignUp(size_bytes)
      BY <3>1 DEF Alloc, IInv, TypeOK, Addr
    <3>4. /\ DOMAIN allocations' = DOMAIN allocations \cup {next_addr}
          /\ \A a \in DOMAIN allocations :
                a # next_addr => allocations'[a] = allocations[a]
      BY <3>1 DEF Alloc, Insert
    <3>5. QED
      BY <2>0, <3>2, <3>3, <3>4 DEF CheckedBelowNext, EvictionCheckStands
  <2>2. CASE \E addr \in Addr : Free(addr) \/ FreeUnknown(addr)
    BY <2>0, <2>2 DEF Free, DropBlock, Restrict, FreeUnknown, vars,
                      CheckedBelowNext, EvictionCheckStands
  <2>3. ASSUME NEW addr \in Addr, NEW d \in AppDomains,
               Migrate(addr, d) \/ MigrateNothing(addr, d)
        PROVE  CheckedBelowNext'
    <3>1. d = "LocalDevice"
      OBVIOUS
    <3>2. next_addr' = next_addr /\ DOMAIN allocations' = DOMAIN allocations
      BY <2>3 DEF Migrate, MigrateNothing, vars
    <3>3. \A a \in DOMAIN allocations :
             allocations[a].domain = "LocalDevice" => allocations'[a].domain = "LocalDevice"
      BY <2>3, <3>1 DEF Migrate, MigrateNothing, vars, IInv, TypeOK, MemoryBlock
    <3>4. QED
      BY <2>0, <3>2, <3>3 DEF CheckedBelowNext, EvictionCheckStands
  <2>4. QED  BY <1>1, <2>1, <2>2, <2>3 DEF AppMemory
<1>2. CASE WorkerCheck
  <2>1. CASE wpc' = "migrate" /\ wcmd.op = "Evict"
    <3>1. get_domain(wcmd.addr) = "LocalDevice" /\ wcmd' = wcmd /\ UNCHANGED vars
      BY <1>2, <2>1 DEF WorkerCheck, NeedsMigration
    <3>2. wcmd.addr \in DOMAIN allocations
      BY <3>1 DEF get_domain
    <3>3. wcmd.addr \in Base..(next_addr - 1)
      <4>1. wcmd.addr \in Nat /\ wcmd.addr >= Base /\ next_addr \in Nat
        BY <3>2 DEF IInv, TypeOK, Addr
      <4>2. /\ allocations[wcmd.addr].size_bytes \in Nat
            /\ allocations[wcmd.addr].size_bytes > 0
            /\ wcmd.addr + allocations[wcmd.addr].size_bytes <= next_addr
        BY <3>2 DEF IInv, TypeOK, MemoryBlock, NoEmptyBlock, BelowNext
      <4>3. QED  BY <4>1, <4>2
    <3>4. QED
      BY <3>1, <3>2, <3>3 DEF CheckedBelowNext, EvictionCheckStands, get_domain, vars
  <2>2. CASE ~(wpc' = "migrate" /\ wcmd.op = "Evict")
    BY <1>2, <2>2 DEF WorkerCheck, CheckedBelowNext, EvictionCheckStands
  <2>3. QED  BY <2>1, <2>2
<1>3. CASE WorkerRecv \/ WorkerMigrate
  BY <1>3 DEF WorkerRecv, WorkerMigrate, CheckedBelowNext
<1>4. CASE UNCHANGED <<vars, wpc, wcmd>>
  BY <1>4 DEF vars, CheckedBelowNext, EvictionCheckStands
<1>5. QED
  BY <1>1, <1>2, <1>3, <1>4
     DEF PagerNext, AppWindow, SlideWindow, Send, Worker, Drop, Join, allVars, pagerVars

(* When only the worker moves blocks off the device, an eviction never     *)
(* acts on a stale answer of get_domain, however many clients allocate,    *)
(* free and move blocks onto the device meanwhile.                         *)
THEOREM EvictionTheorem ==
  ASSUME AppDomains \subseteq {"LocalDevice"}, 0 \notin Sizes
  PROVE  PagerSpec => []EvictionCheckStands
<1> DEFINE Inv == IInv /\ PagerTypeOK /\ CheckedBelowNext
<1>1. PagerInit => Inv
  BY InitInv, PagerInitInv DEF PagerInit, CheckedBelowNext
<1>2. Inv /\ [PagerNext]_allVars => Inv'
  BY PagerStepIsAllocatorStep, PagerTypeInv, EvictionInv
<1>3. Inv => EvictionCheckStands
  BY DEF CheckedBelowNext, EvictionCheckStands
<1> HIDE DEF Inv
<1>4. QED
  BY <1>1, <1>2, <1>3, PTL DEF PagerSpec

-----------------------------------------------------------------------------
\* The commands on their way, in the order in which they take effect: the
\* one the worker has in hand, the channel, and what the call still owes.
InHand == IF wpc \in {"check", "migrate"} THEN <<wcmd>> ELSE <<>>

Pending == InHand \o (queue \o todo[client])

\* The layers on the device after the first n commands of s, when R are now.
After(R, s, n) ==
    {a \in R : \A i \in 1..n : s[i] # Evict(a)}
        \cup {a \in Layers : \E i \in 1..n : /\ s[i] = Prefetch(a)
                                             /\ \A j \in (i + 1)..n : s[j] # Evict(a)}

\* The plan fits not only where it leads, but after every command on the way.
FitsOnTheWay == \A n \in 0..Len(Pending) : FitsPlan(After(Resident, Pending, n))

LeadsToPlan == After(Resident, Pending, Len(Pending)) = planned

\* The plan is about loaded layers, and loading ends with the first window.
PlanIsLoaded ==
    /\ planned \subseteq DOMAIN allocations
    /\ \A i \in 1..Len(Pending), a \in Layers :
          Pending[i] = Prefetch(a) => a \in DOMAIN allocations
    /\ calls[client] = 0 => \A i \in 1..Len(Pending) : Pending[i] = Shutdown

PlanInv == FitsOnTheWay /\ LeadsToPlan /\ PlanIsLoaded

ClientInv == IInv /\ PagerTypeOK /\ PlanInv

-----------------------------------------------------------------------------
(* What a series of commands does.                                         *)

Message == PageCommand \cup {Shutdown}

\* Commands are told apart by what they do and to which layer.
LEMMA CommandsDiffer ==
  /\ \A a, b : Evict(a) # Prefetch(b) /\ Evict(a) # Shutdown /\ Prefetch(a) # Shutdown
  /\ \A a, b : (Evict(a) = Evict(b) => a = b) /\ (Prefetch(a) = Prefetch(b) => a = b)
<1>1. \A a : /\ Evict(a).op = "Evict" /\ Evict(a).addr = a
             /\ Prefetch(a).op = "Prefetch" /\ Prefetch(a).addr = a
  BY DEF Evict, Prefetch
<1>2. Shutdown.op = "Shutdown"
  BY DEF Shutdown
<1>3. ASSUME NEW a, NEW b
      PROVE  Evict(a) # Prefetch(b) /\ Evict(a) # Shutdown /\ Prefetch(a) # Shutdown
  <2>1. Evict(a).op = "Evict" /\ Prefetch(a).op = "Prefetch" /\ Prefetch(b).op = "Prefetch"
    BY <1>1
  <2>2. QED  BY <2>1, <1>2
<1>4. ASSUME NEW a, NEW b
      PROVE  (Evict(a) = Evict(b) => a = b) /\ (Prefetch(a) = Prefetch(b) => a = b)
  <2>1. Evict(a).addr = a /\ Evict(b).addr = b /\ Prefetch(a).addr = a /\ Prefetch(b).addr = b
    BY <1>1
  <2>2. QED  BY <2>1
<1>5. QED  BY <1>3, <1>4

\* Posting more commands changes nothing about the effect of the earlier
\* ones, and the later ones start where those lead.
LEMMA AfterConcat ==
  ASSUME NEW R, NEW s \in Seq(Message), NEW t \in Seq(Message)
  PROVE  /\ s \o t \in Seq(Message) /\ Len(s \o t) = Len(s) + Len(t)
         /\ Len(s) \in Nat /\ Len(t) \in Nat
         /\ \A n \in 0..Len(s) : After(R, s \o t, n) = After(R, s, n)
         /\ \A n \in 0..Len(t) :
               After(R, s \o t, Len(s) + n) = After(After(R, s, Len(s)), t, n)
<1> DEFINE c == s \o t
           m == Len(s)
<1>1. /\ c \in Seq(Message) /\ Len(c) = m + Len(t) /\ m \in Nat /\ Len(t) \in Nat
      /\ \A i \in 1..(m + Len(t)) : c[i] = IF i <= m THEN s[i] ELSE t[i - m]
  BY ConcatProperties, LenProperties
<1> HIDE DEF c, m
<1>2. (\A i \in 1..m : c[i] = s[i]) /\ (\A i \in 1..Len(t) : c[m + i] = t[i])
  <2>1. ASSUME NEW i \in 1..m PROVE c[i] = s[i]
    <3>1. i \in 1..(m + Len(t)) /\ i <= m
      BY <1>1
    <3>2. QED  BY <3>1, <1>1
  <2>2. ASSUME NEW i \in 1..Len(t) PROVE c[m + i] = t[i]
    <3>1. m + i \in 1..(m + Len(t)) /\ ~(m + i <= m) /\ (m + i) - m = i
      BY <1>1
    <3>2. c[m + i] = t[(m + i) - m]
      BY <3>1, <1>1
    <3>3. QED  BY <3>1, <3>2
  <2>3. QED  BY <2>1, <2>2
<1>3. ASSUME NEW n \in 0..m
      PROVE  After(R, c, n) = After(R, s, n)
  <2>1. \A i \in 1..n : c[i] = s[i]
    BY <1>1, <1>2
  <2>2. \A i \in 1..n : \A j \in (i + 1)..n : j \in 1..n
    BY <1>1
  <2>3. QED  BY <2>1, <2>2 DEF After
<1>4. ASSUME NEW n \in 0..Len(t)
      PROVE  After(R, c, m + n) = After(After(R, s, m), t, n)
  <2> DEFINE Kept(q, i, j, a) == \A k \in i..j : q[k] # Evict(a)
  <2>1. \A a : Kept(c, 1, m + n, a) <=> Kept(s, 1, m, a) /\ Kept(t, 1, n, a)
    <3>1. \A k \in 1..(m + n) : k \in 1..m \/ (k - m \in 1..n /\ k = m + (k - m))
      BY <1>1
    <3>2. (\A k \in 1..m : k \in 1..(m + n)) /\ (\A k \in 1..n : m + k \in 1..(m + n) /\ k \in 1..Len(t))
      BY <1>1
    <3>3. QED  BY <3>1, <3>2, <1>2
  <2>2. \A i \in 1..m : \A a : Kept(c, i + 1, m + n, a) <=> Kept(s, i + 1, m, a) /\ Kept(t, 1, n, a)
    <3> SUFFICES ASSUME NEW i \in 1..m
                 PROVE  \A a : Kept(c, i + 1, m + n, a) <=> Kept(s, i + 1, m, a) /\ Kept(t, 1, n, a)
      OBVIOUS
    <3>1. \A k \in (i + 1)..(m + n) : k \in (i + 1)..m \/ (k - m \in 1..n /\ k = m + (k - m))
      BY <1>1
    <3>2. /\ \A k \in (i + 1)..m : k \in (i + 1)..(m + n) /\ k \in 1..m
          /\ \A k \in 1..n : m + k \in (i + 1)..(m + n) /\ k \in 1..Len(t)
      BY <1>1
    <3>3. QED  BY <3>1, <3>2, <1>2
  <2>3. \A i \in 1..n : \A a : Kept(c, (m + i) + 1, m + n, a) <=> Kept(t, i + 1, n, a)
    <3> SUFFICES ASSUME NEW i \in 1..n
                 PROVE  \A a : Kept(c, (m + i) + 1, m + n, a) <=> Kept(t, i + 1, n, a)
      OBVIOUS
    <3>1. \A k \in ((m + i) + 1)..(m + n) : k - m \in (i + 1)..n /\ k = m + (k - m)
      BY <1>1
    <3>2. \A k \in (i + 1)..n : m + k \in ((m + i) + 1)..(m + n)
      BY <1>1
    <3>3. \A k \in (i + 1)..n : c[m + k] = t[k]
      <4>1. \A k \in (i + 1)..n : k \in 1..Len(t)
        BY <1>1
      <4>2. QED  BY <4>1, <1>2
    <3>4. ASSUME NEW a, Kept(c, (m + i) + 1, m + n, a) PROVE Kept(t, i + 1, n, a)
      BY <3>2, <3>3, <3>4
    <3>5. ASSUME NEW a, Kept(t, i + 1, n, a) PROVE Kept(c, (m + i) + 1, m + n, a)
      <4> SUFFICES ASSUME NEW k \in ((m + i) + 1)..(m + n) PROVE c[k] # Evict(a)
        OBVIOUS
      <4>1. PICK j \in (i + 1)..n : k = m + j
        BY <3>1
      <4>2. QED  BY <3>3, <3>5, <4>1
    <3>6. QED  BY <3>4, <3>5
  <2>4. /\ \A i \in 1..(m + n) : i \in 1..m \/ \E k \in 1..n : i = m + k
        /\ \A i \in 1..m : i \in 1..(m + n) /\ c[i] = s[i]
        /\ \A i \in 1..n : m + i \in 1..(m + n) /\ c[m + i] = t[i]
    <3>1. \A i \in 1..(m + n) : i \in 1..m \/ (i - m \in 1..n /\ i = m + (i - m))
      BY <1>1
    <3>2. /\ \A i \in 1..m : i \in 1..(m + n)
          /\ \A i \in 1..n : m + i \in 1..(m + n) /\ i \in 1..Len(t)
      BY <1>1
    <3>3. QED  BY <3>1, <3>2, <1>2
  <2>5. \A q, k, Q : After(Q, q, k) =
            {a \in Q : Kept(q, 1, k, a)}
              \cup {a \in Layers : \E i \in 1..k : q[i] = Prefetch(a) /\ Kept(q, i + 1, k, a)}
    BY DEF After
  <2> HIDE DEF Kept
  <2>6. ASSUME NEW a \in After(R, c, m + n) PROVE a \in After(After(R, s, m), t, n)
    <3>1. CASE a \in R /\ Kept(c, 1, m + n, a)
      BY <3>1, <2>1, <2>5
    <3>2. CASE a \in Layers /\ \E i \in 1..(m + n) : c[i] = Prefetch(a) /\ Kept(c, i + 1, m + n, a)
      <4>1. PICK i \in 1..(m + n) : c[i] = Prefetch(a) /\ Kept(c, i + 1, m + n, a)
        BY <3>2
      <4>2. CASE i \in 1..m
        <5>1. s[i] = Prefetch(a) /\ Kept(s, i + 1, m, a) /\ Kept(t, 1, n, a)
          BY <4>1, <4>2, <2>2, <2>4
        <5>2. a \in After(R, s, m)
          BY <3>2, <4>2, <5>1, <2>5
        <5>3. QED  BY <5>1, <5>2, <2>5
      <4>3. CASE \E k \in 1..n : i = m + k
        <5>1. PICK k \in 1..n : i = m + k
          BY <4>3
        <5>2. t[k] = Prefetch(a) /\ Kept(t, k + 1, n, a)
          BY <4>1, <5>1, <2>3, <2>4
        <5>3. QED  BY <3>2, <5>1, <5>2, <2>5
      <4>4. QED  BY <4>2, <4>3, <2>4
    <3>3. QED  BY <2>6, <3>1, <3>2, <2>5
  <2>7. ASSUME NEW a \in After(After(R, s, m), t, n) PROVE a \in After(R, c, m + n)
    <3>1. CASE a \in After(R, s, m) /\ Kept(t, 1, n, a)
      <4>1. CASE a \in R /\ Kept(s, 1, m, a)
        BY <3>1, <4>1, <2>1, <2>5
      <4>2. CASE a \in Layers /\ \E i \in 1..m : s[i] = Prefetch(a) /\ Kept(s, i + 1, m, a)
        <5>1. PICK i \in 1..m : s[i] = Prefetch(a) /\ Kept(s, i + 1, m, a)
          BY <4>2
        <5>2. i \in 1..(m + n) /\ c[i] = Prefetch(a) /\ Kept(c, i + 1, m + n, a)
          BY <3>1, <5>1, <2>2, <2>4
        <5>3. QED  BY <4>2, <5>2, <2>5
      <4>3. QED  BY <3>1, <4>1, <4>2, <2>5
    <3>2. CASE a \in Layers /\ \E i \in 1..n : t[i] = Prefetch(a) /\ Kept(t, i + 1, n, a)
      <4>1. PICK i \in 1..n : t[i] = Prefetch(a) /\ Kept(t, i + 1, n, a)
        BY <3>2
      <4>2. m + i \in 1..(m + n) /\ c[m + i] = Prefetch(a) /\ Kept(c, (m + i) + 1, m + n, a)
        BY <4>1, <2>3, <2>4
      <4>3. QED  BY <3>2, <4>2, <2>5
    <3>3. QED  BY <2>7, <3>1, <3>2, <2>5
  <2>8. QED  BY <2>6, <2>7
<1>5. QED  BY <1>1, <1>3, <1>4 DEF c, m

\* Nothing happens without a command.
LEMMA AfterNothing ==
  ASSUME NEW R, NEW s
  PROVE  After(R, s, 0) = R
<1>1. 1..0 = {}
  OBVIOUS
<1>2. QED  BY <1>1 DEF After

\* One command does what its name says.
LEMMA AfterOne ==
  ASSUME NEW R, NEW a \in Layers
  PROVE  /\ After(R, <<Evict(a)>>, 1) = R \ {a}
         /\ After(R, <<Prefetch(a)>>, 1) = R \cup {a}
<1>1. 1..1 = {1} /\ 2..1 = {}
  OBVIOUS
<1>2. \A s, b : /\ (\A i \in 1..1 : s[i] # Evict(b)) <=> s[1] # Evict(b)
                /\ (\E i \in 1..1 : s[i] = Prefetch(b) /\ \A j \in (i + 1)..1 : s[j] # Evict(b))
                      <=> s[1] = Prefetch(b)
  BY <1>1
<1>3. \A s : After(R, s, 1) = {b \in R : s[1] # Evict(b)} \cup {b \in Layers : s[1] = Prefetch(b)}
  BY <1>2 DEF After
<1>4. After(R, <<Evict(a)>>, 1) = {b \in R : Evict(a) # Evict(b)} \cup {b \in Layers : Evict(a) = Prefetch(b)}
  BY <1>3
<1>5. After(R, <<Prefetch(a)>>, 1) =
        {b \in R : Prefetch(a) # Evict(b)} \cup {b \in Layers : Prefetch(a) = Prefetch(b)}
  BY <1>3
<1>6. QED  BY <1>4, <1>5, CommandsDiffer

-----------------------------------------------------------------------------
(* What fits.                                                              *)

\* Fewer layers fit where more do.
LEMMA FitsSubset ==
  ASSUME IInv, NEW T \in SUBSET DOMAIN allocations, NEW S \in SUBSET T, FitsPlan(T)
  PROVE  FitsPlan(S)
<1>1. PlanBytes(S) \subseteq PlanBytes(T) /\ PlanBytes(T) \subseteq LiveBytes
  BY DEF PlanBytes, LiveBytes
<1>2. IsFiniteSet(LiveBytes)
  BY BytesFinite DEF IInv
<1>3. IsFiniteSet(PlanBytes(T))
  BY <1>1, <1>2, FS_Subset
<1>4. /\ Cardinality(PlanBytes(S)) \in Nat /\ Cardinality(PlanBytes(T)) \in Nat
      /\ Cardinality(PlanBytes(S)) <= Cardinality(PlanBytes(T))
  <2>1. IsFiniteSet(PlanBytes(S)) /\ Cardinality(PlanBytes(S)) <= Cardinality(PlanBytes(T))
    BY <1>1, <1>3, FS_Subset
  <2>2. QED  BY <2>1, <1>3, FS_CardinalityType
<1>5. QED  BY <1>4, CapacityAssumption DEF FitsPlan

\* The counter of the allocator says whether what is resident fits.
LEMMA ResidentFits ==
  ASSUME IInv
  PROVE  FitsPlan(Resident) <=> allocated_device_bytes <= device_capacity_bytes
BY DEF IInv, Accounting, DeviceBytes, FitsPlan, PlanBytes

\* What fits depends on the sizes of the blocks only.
LEMMA FitsFrame ==
  ASSUME DOMAIN allocations' = DOMAIN allocations,
         \A a \in DOMAIN allocations : allocations'[a].size_bytes = allocations[a].size_bytes,
         NEW S \in SUBSET DOMAIN allocations
  PROVE  FitsPlan(S)' <=> FitsPlan(S)
<1>1. \A a \in S : Span(allocations, a)' = Span(allocations, a)
  BY DEF Span
<1>2. PlanBytes(S)' = PlanBytes(S)
  BY <1>1 DEF PlanBytes
<1>3. QED  BY <1>2 DEF FitsPlan

\* The effect of one window on the plan: on the way there is never more on
\* the device than before or after, because the evictions come first.
LEMMA WindowEffect ==
  ASSUME NEW p \in Seq(Layers), NEW e \in Seq(Layers), NEW P
  PROVE  LET cmds == Commands(p, e)
             goal == (P \ ElementsOf(e)) \cup ElementsOf(p)
         IN  /\ Len(cmds) = Len(e) + Len(p)
             /\ \A n \in 0..Len(cmds) :
                   After(P, cmds, n) \subseteq P \/ After(P, cmds, n) \subseteq goal
             /\ After(P, cmds, Len(cmds)) = goal
<1> DEFINE es == [i \in 1..Len(e) |-> Evict(e[i])]
           ps == [i \in 1..Len(p) |-> Prefetch(p[i])]
           cmds == es \o ps
           goal == (P \ ElementsOf(e)) \cup ElementsOf(p)
           m == Len(e)
           k == Len(p)
<1>0. /\ m \in Nat /\ e \in [1..m -> Layers] /\ DOMAIN e = 1..m
      /\ k \in Nat /\ p \in [1..k -> Layers] /\ DOMAIN p = 1..k
  BY LenProperties
<1>1. /\ m \in Nat /\ k \in Nat
      /\ \A i \in 1..m : e[i] \in Layers
      /\ \A i \in 1..k : p[i] \in Layers
      /\ ElementsOf(e) = {e[i] : i \in 1..m} /\ ElementsOf(p) = {p[i] : i \in 1..k}
  BY <1>0 DEF ElementsOf
<1>2. es \in Seq(Message) /\ Len(es) = m /\ \A i \in 1..m : es[i] = Evict(e[i])
  <2>1. \A i \in 1..m : Evict(e[i]) \in Message
    BY <1>1 DEF PageCommand, Message
  <2>2. QED  BY <1>1, <2>1
<1>3. ps \in Seq(Message) /\ Len(ps) = k /\ \A i \in 1..k : ps[i] = Prefetch(p[i])
  <2>1. \A i \in 1..k : Prefetch(p[i]) \in Message
    BY <1>1 DEF PageCommand, Message
  <2>2. QED  BY <1>1, <2>1
<1>4. Commands(p, e) = cmds
  BY DEF Commands
<1> HIDE DEF es, ps, m, k
<1>5. /\ Len(cmds) = m + k
      /\ \A n \in 0..m : After(P, cmds, n) = After(P, es, n)
      /\ \A n \in 0..k : After(P, cmds, m + n) = After(After(P, es, m), ps, n)
  <2>1. es \in Seq(Message) /\ ps \in Seq(Message)
    BY <1>2, <1>3
  <2>2. Len(es) = m /\ Len(ps) = k
    BY <1>2, <1>3
  <2>3. /\ Len(cmds) = Len(es) + Len(ps)
        /\ \A n \in 0..Len(es) : After(P, cmds, n) = After(P, es, n)
        /\ \A n \in 0..Len(ps) :
              After(P, cmds, Len(es) + n) = After(After(P, es, Len(es)), ps, n)
    BY <2>1, AfterConcat
  <2> HIDE DEF cmds
  <2>4. QED  BY <2>2, <2>3
<1> HIDE DEF cmds
<1>6. \A n \in 0..m : After(P, es, n) \subseteq P
  <2> SUFFICES ASSUME NEW n \in 0..m, NEW a \in After(P, es, n) PROVE a \in P
    OBVIOUS
  <2>1. \A i \in 1..n : es[i] # Prefetch(a)
    <3>1. \A i \in 1..n : i \in 1..m
      BY <1>1
    <3>2. QED  BY <3>1, <1>2, CommandsDiffer
  <2>2. QED  BY <2>1 DEF After
<1>7. After(P, es, m) = P \ ElementsOf(e)
  <2>1. \A a : (\A i \in 1..m : es[i] # Evict(a)) <=> a \notin ElementsOf(e)
    BY <1>1, <1>2, CommandsDiffer
  <2>2. \A a : \A i \in 1..m : es[i] # Prefetch(a)
    BY <1>2, CommandsDiffer
  <2>3. QED  BY <2>1, <2>2 DEF After
<1> DEFINE Q == P \ ElementsOf(e)
<1>8. \A n \in 0..k : After(Q, ps, n) \subseteq goal
  <2> SUFFICES ASSUME NEW n \in 0..k, NEW a \in After(Q, ps, n) PROVE a \in goal
    OBVIOUS
  <2>1. CASE a \in Q
    BY <2>1
  <2>2. CASE \E i \in 1..n : ps[i] = Prefetch(a)
    <3>1. PICK i \in 1..n : ps[i] = Prefetch(a)
      BY <2>2
    <3>2. i \in 1..k
      BY <1>1
    <3>3. p[i] = a
      BY <3>1, <3>2, <1>3, CommandsDiffer
    <3>4. QED  BY <3>2, <3>3, <1>1
  <2>3. QED  BY <2>1, <2>2 DEF After
<1>9. After(Q, ps, k) = goal
  <2>1. \A a : \A i \in 1..k : ps[i] # Evict(a)
    BY <1>3, CommandsDiffer
  <2>2. Q \subseteq After(Q, ps, k)
    BY <2>1 DEF After
  <2>3. ASSUME NEW a \in ElementsOf(p) PROVE a \in After(Q, ps, k)
    <3>1. PICK i \in 1..k : a = p[i]
      BY <2>3, <1>1
    <3>2. a \in Layers /\ ps[i] = Prefetch(a)
      BY <3>1, <1>1, <1>3
    <3>3. \A j \in (i + 1)..k : ps[j] # Evict(a)
      <4>1. \A j \in (i + 1)..k : j \in 1..k
        BY <1>1
      <4>2. QED  BY <4>1, <2>1
    <3>4. QED  BY <3>2, <3>3 DEF After
  <2>4. k \in 0..k
    BY <1>1
  <2>5. QED  BY <2>2, <2>3, <2>4, <1>8
<1> HIDE DEF goal, Q
<1>10. After(P, cmds, Len(cmds)) = goal
  <2>1. k \in 0..k
    BY <1>1
  <2>2. QED  BY <2>1, <1>5, <1>7, <1>9 DEF Q
<1>11. ASSUME NEW n \in 0..Len(cmds)
       PROVE  After(P, cmds, n) \subseteq P \/ After(P, cmds, n) \subseteq goal
  <2>1. CASE n \in 0..m
    BY <2>1, <1>5, <1>6
  <2>2. CASE n \notin 0..m
    <3>1. n - m \in 0..k /\ n = m + (n - m)
      BY <2>2, <1>1, <1>5
    <3>2. After(P, cmds, m + (n - m)) = After(Q, ps, n - m)
      BY <3>1, <1>5, <1>7 DEF Q
    <3>3. QED  BY <3>1, <3>2, <1>8
  <2>3. QED  BY <2>1, <2>2
<1>12. QED  BY <1>4, <1>5, <1>10, <1>11 DEF goal, m, k

\* The shutdown message moves nothing.
LEMMA AfterShutdown ==
  ASSUME NEW R, NEW n \in 0..1
  PROVE  After(R, <<Shutdown>>, n) = R
<1>1. \A i \in 1..n : i = 1 /\ <<Shutdown>>[i] = Shutdown
  OBVIOUS
<1>2. \A i \in 1..n : \A a : <<Shutdown>>[i] # Evict(a) /\ <<Shutdown>>[i] # Prefetch(a)
  BY <1>1, CommandsDiffer
<1>3. QED  BY <1>2 DEF After

-----------------------------------------------------------------------------
(* How steps change the pending commands.                                  *)

LEMMA PendingType ==
  ASSUME PagerTypeOK
  PROVE  /\ queue \in Seq(Message) /\ todo[client] \in Seq(Message) /\ InHand \in Seq(Message)
         /\ queue \o todo[client] \in Seq(Message) /\ Pending \in Seq(Message)
<1>1. queue \in Seq(Message)
  BY DEF PagerTypeOK, Message
<1>2. todo[client] \in Seq(Message)
  <2>1. todo[client] \in Seq(PageCommand)
    BY ClientAssumption DEF PagerTypeOK
  <2>2. PageCommand \subseteq Message
    BY DEF Message
  <2>3. QED  BY <2>1, <2>2, SeqMonotonic
<1>3. InHand \in Seq(Message)
  <2>1. CASE wpc \in {"check", "migrate"}
    <3>1. wcmd \in Message
      BY <2>1 DEF PagerTypeOK, Message
    <3>2. QED  BY <2>1, <3>1 DEF InHand
  <2>2. CASE wpc \notin {"check", "migrate"}
    BY <2>2 DEF InHand
  <2>3. QED  BY <2>1, <2>2
<1>4. queue \o todo[client] \in Seq(Message)
  BY <1>1, <1>2, ConcatProperties
<1>5. QED  BY <1>1, <1>2, <1>3, <1>4, ConcatProperties DEF Pending

\* A send moves a command along, the head of the channel comes off first.
LEMMA MovesAlong ==
  ASSUME NEW S, NEW q \in Seq(S), NEW t \in Seq(S)
  PROVE  /\ t # <<>> => Append(q, Head(t)) \o Tail(t) = q \o t
         /\ q # <<>> => q \o t = <<Head(q)>> \o (Tail(q) \o t)
<1>1. ASSUME NEW r \in Seq(S), r # <<>>
      PROVE  <<Head(r)>> \in Seq(S) /\ Tail(r) \in Seq(S) /\ r = <<Head(r)>> \o Tail(r)
  <2>1. Head(r) \in S /\ Tail(r) \in Seq(S) /\ <<Head(r)>> \in Seq(S)
    BY <1>1
  <2>2. QED  BY <1>1, <2>1
<1>2. ASSUME t # <<>> PROVE Append(q, Head(t)) \o Tail(t) = q \o t
  <2>1. <<Head(t)>> \in Seq(S) /\ Tail(t) \in Seq(S) /\ t = <<Head(t)>> \o Tail(t)
    BY <1>1, <1>2
  <2>2. Append(q, Head(t)) = q \o <<Head(t)>>
    BY <1>2
  <2>3. (q \o <<Head(t)>>) \o Tail(t) = q \o (<<Head(t)>> \o Tail(t))
    BY <2>1, ConcatAssociative
  <2>4. QED  BY <2>1, <2>2, <2>3
<1>3. ASSUME q # <<>> PROVE q \o t = <<Head(q)>> \o (Tail(q) \o t)
  <2>1. <<Head(q)>> \in Seq(S) /\ Tail(q) \in Seq(S) /\ q = <<Head(q)>> \o Tail(q)
    BY <1>1, <1>3
  <2>2. (<<Head(q)>> \o Tail(q)) \o t = <<Head(q)>> \o (Tail(q) \o t)
    BY <2>1, ConcatAssociative
  <2>3. QED  BY <2>1, <2>2
<1>4. QED  BY <1>2, <1>3

-----------------------------------------------------------------------------
(* Three ways to change the pending commands keep the plan.                *)

LEMMA OnTheWayLoaded ==
  ASSUME PlanIsLoaded, Len(Pending) \in Nat, NEW n \in 0..Len(Pending)
  PROVE  After(Resident, Pending, n) \in SUBSET DOMAIN allocations
<1>1. \A i \in 1..n : i \in 1..Len(Pending)
  OBVIOUS
<1>2. ASSUME NEW a \in Layers, NEW i \in 1..n, Pending[i] = Prefetch(a)
      PROVE  a \in DOMAIN allocations
  BY <1>1, <1>2 DEF PlanIsLoaded
<1>3. Resident \subseteq DOMAIN allocations
  BY DEF Resident
<1>4. QED  BY <1>2, <1>3 DEF After

\* They stay the same.
LEMMA NoCommandDone ==
  ASSUME PlanInv, UNCHANGED <<vars, calls, planned>>, Pending' = Pending
  PROVE  PlanInv'
<1>1. Resident' = Resident /\ \A S : FitsPlan(S)' = FitsPlan(S)
  BY DEF vars, Resident, FitsPlan, PlanBytes, Span
<1>2. FitsOnTheWay'
  BY <1>1 DEF PlanInv, FitsOnTheWay
<1>3. LeadsToPlan'
  BY <1>1 DEF PlanInv, LeadsToPlan
<1>4. PlanIsLoaded'
  BY DEF PlanInv, PlanIsLoaded, vars
<1>5. QED  BY <1>2, <1>3, <1>4 DEF PlanInv

\* The first one has its effect.
LEMMA CommandDone ==
  ASSUME PlanInv, NEW x \in Message, NEW s \in Seq(Message),
         Pending = <<x>> \o s, Pending' = s, UNCHANGED <<calls, planned>>,
         Resident' = After(Resident, <<x>>, 1),
         DOMAIN allocations' = DOMAIN allocations,
         \A a \in DOMAIN allocations : allocations'[a].size_bytes = allocations[a].size_bytes
  PROVE  PlanInv'
<1>1. <<x>> \in Seq(Message) /\ Len(<<x>>) = 1
  OBVIOUS
<1>2. /\ Pending \in Seq(Message) /\ Len(Pending) = 1 + Len(s) /\ Len(s) \in Nat
      /\ \A n \in 0..Len(s) : After(Resident, Pending, 1 + n) = After(Resident', s, n)
  <2> DEFINE one == <<x>>
  <2>1. one \in Seq(Message) /\ Len(one) = 1 /\ Pending = one \o s
    BY <1>1
  <2>2. Resident' = After(Resident, one, 1)
    OBVIOUS
  <2> HIDE DEF one
  <2>3. /\ one \o s \in Seq(Message) /\ Len(one \o s) = Len(one) + Len(s) /\ Len(s) \in Nat
        /\ \A n \in 0..Len(s) :
              After(Resident, one \o s, Len(one) + n) = After(After(Resident, one, Len(one)), s, n)
    BY <2>1, AfterConcat
  <2>4. QED  BY <2>1, <2>2, <2>3
<1>3. \A i \in 1..Len(s) : 1 + i \in 1..Len(Pending) /\ s[i] = Pending[1 + i]
  <2> SUFFICES ASSUME NEW i \in 1..Len(s)
               PROVE  1 + i \in 1..Len(Pending) /\ s[i] = Pending[1 + i]
    OBVIOUS
  <2>1. 1 + i \in 1..(1 + Len(s)) /\ ~(1 + i <= 1) /\ (1 + i) - 1 = i
    BY <1>2
  <2>2. Pending[1 + i] = s[(1 + i) - 1]
    BY <2>1, <1>1, ConcatProperties
  <2>3. QED  BY <2>1, <2>2, <1>2
<1>5. FitsOnTheWay'
  <2>1. \A S \in SUBSET DOMAIN allocations : FitsPlan(S)' <=> FitsPlan(S)
    BY FitsFrame
  <2>2. ASSUME NEW n \in 0..Len(s)
        PROVE  /\ After(Resident', s, n) \in SUBSET DOMAIN allocations
               /\ FitsPlan(After(Resident', s, n))
    <3>1. After(Resident', s, n) = After(Resident, Pending, 1 + n)
      BY <1>2
    <3>2. 1 + n \in 0..Len(Pending) /\ Len(Pending) \in Nat
      BY <1>2
    <3>3. After(Resident, Pending, 1 + n) \in SUBSET DOMAIN allocations
      BY <3>2, OnTheWayLoaded DEF PlanInv
    <3>4. FitsPlan(After(Resident, Pending, 1 + n))
      BY <3>2 DEF PlanInv, FitsOnTheWay
    <3>5. QED  BY <3>1, <3>3, <3>4
  <2>3. QED  BY <2>1, <2>2 DEF FitsOnTheWay
<1>6. LeadsToPlan'
  <2>1. Len(s) \in 0..Len(s)
    BY <1>2
  <2>2. After(Resident', s, Len(s)) = planned
    BY <2>1, <1>2 DEF PlanInv, LeadsToPlan
  <2>3. QED  BY <2>2 DEF LeadsToPlan
<1>7. PlanIsLoaded'
  BY <1>3 DEF PlanInv, PlanIsLoaded
<1>8. QED  BY <1>5, <1>6, <1>7 DEF PlanInv

\* Posted commands start where the pending ones lead.
LEMMA PostedAfter ==
  ASSUME NEW q \in Seq(Message), NEW s \in Seq(Message)
  PROVE  /\ Len(q \o s) = Len(q) + Len(s) /\ Len(q) \in Nat /\ Len(s) \in Nat
         /\ \A n \in 0..Len(q) : After(Resident, q \o s, n) = After(Resident, q, n)
         /\ \A n \in 0..Len(s) :
               After(Resident, q \o s, Len(q) + n) = After(After(Resident, q, Len(q)), s, n)
BY AfterConcat

\* More are posted: they start where the plan leads so far.
LEMMA CommandsPosted ==
  ASSUME PlanInv, NEW s \in Seq(Message), Pending \in Seq(Message),
         Pending' = Pending \o s, UNCHANGED vars,
         \A n \in 0..Len(s) : FitsPlan(After(planned, s, n)),
         planned' = After(planned, s, Len(s)), planned' \subseteq DOMAIN allocations,
         \A i \in 1..Len(s), a \in Layers : s[i] = Prefetch(a) => a \in DOMAIN allocations,
         calls'[client] = 0 => calls[client] = 0 /\ \A i \in 1..Len(s) : s[i] = Shutdown
  PROVE  PlanInv'
<1> DEFINE m == Len(Pending)
           c == Pending \o s
<1>1. /\ Len(c) = m + Len(s) /\ m \in Nat /\ Len(s) \in Nat
      /\ \A n \in 0..m : After(Resident, c, n) = After(Resident, Pending, n)
      /\ \A n \in 0..Len(s) :
            After(Resident, c, m + n) = After(After(Resident, Pending, m), s, n)
  BY PostedAfter
<1>2. \A i \in 1..(m + Len(s)) : c[i] = IF i <= m THEN Pending[i] ELSE s[i - m]
  BY ConcatProperties
<1>3. Resident' = Resident /\ allocations' = allocations /\ \A S : FitsPlan(S)' = FitsPlan(S)
  BY DEF vars, Resident, FitsPlan, PlanBytes, Span
<1>4. After(Resident, Pending, m) = planned
  BY DEF PlanInv, LeadsToPlan
<1> HIDE DEF m, c
<1>5. Pending' = c
  BY DEF c
<1>6. FitsOnTheWay'
  <2> SUFFICES ASSUME NEW n \in 0..(m + Len(s)) PROVE FitsPlan(After(Resident, c, n))
    BY <1>1, <1>3, <1>5 DEF FitsOnTheWay
  <2>1. CASE n \in 0..m
    BY <2>1, <1>1 DEF PlanInv, FitsOnTheWay, m
  <2>2. CASE n \notin 0..m
    <3>1. n - m \in 0..Len(s) /\ n = m + (n - m)
      BY <2>2, <1>1
    <3>2. After(Resident, c, m + (n - m)) = After(planned, s, n - m)
      BY <3>1, <1>1, <1>4
    <3>3. QED  BY <3>1, <3>2
  <2>3. QED  BY <2>1, <2>2
<1>7. LeadsToPlan'
  <2>1. Len(s) \in 0..Len(s)
    BY <1>1
  <2>2. After(Resident, c, m + Len(s)) = planned'
    BY <2>1, <1>1, <1>4
  <2>3. QED  BY <2>2, <1>1, <1>3, <1>5 DEF LeadsToPlan
<1>8. PlanIsLoaded'
  <2>1. ASSUME NEW i \in 1..(m + Len(s))
        PROVE  (i \in 1..m /\ c[i] = Pending[i]) \/ (i - m \in 1..Len(s) /\ c[i] = s[i - m])
    BY <1>1, <1>2
  <2>2. ASSUME NEW i \in 1..(m + Len(s)), NEW a \in Layers, c[i] = Prefetch(a)
        PROVE  a \in DOMAIN allocations
    BY <2>1, <2>2 DEF PlanInv, PlanIsLoaded, m
  <2>3. ASSUME calls'[client] = 0, NEW i \in 1..(m + Len(s))
        PROVE  c[i] = Shutdown
    BY <2>1, <2>3 DEF PlanInv, PlanIsLoaded, m
  <2>4. QED  BY <2>2, <2>3, <1>1, <1>3, <1>5 DEF PlanIsLoaded
<1>9. QED  BY <1>6, <1>7, <1>8 DEF PlanInv

-----------------------------------------------------------------------------
(* The steps of the planning thread, the worker and Drop.                  *)

\* The planning thread uses the pager like any client.
LEMMA ClientStepIsPagerStep ==
  ASSUME [ClientNext]_clientVars
  PROVE  [PagerNext]_allVars
<1>1. CASE Load
  BY <1>1 DEF Load, PagerNext, AppMemory
<1>2. CASE Plan
  BY <1>2, ClientAssumption DEF Plan, PagerNext, AppWindow
<1>3. CASE Send(client) \/ Worker \/ Drop \/ Join
  BY <1>3, ClientAssumption DEF PagerNext
<1>4. CASE UNCHANGED clientVars
  BY <1>4 DEF clientVars
<1>5. QED  BY <1>1, <1>2, <1>3, <1>4 DEF ClientNext

\* Before the first window there is nothing to do but to shut down.
LEMMA LoadKeepsPlan ==
  ASSUME 0 \notin Sizes, ClientInv, IInv', Load
  PROVE  PlanInv'
<1>1. PICK size_bytes \in Sizes, is_static \in BOOLEAN : Alloc(size_bytes, is_static)
  BY DEF Load, BoundedAlloc
<1> DEFINE aligned == AlignUp(size_bytes)
           onDevice == FitsOnDevice(size_bytes)
<1>2. Pending' = Pending /\ calls' = calls /\ calls[client] = 0
  BY DEF Load, pagerVars, Pending, InHand
<1>3. /\ Pending \in Seq(Message) /\ Len(Pending) \in Nat
      /\ \A j \in 1..Len(Pending) : Pending[j] = Shutdown
  BY <1>2, PendingType, LenProperties DEF ClientInv, PlanInv, PlanIsLoaded
<1>4. \A R : \A n \in 0..Len(Pending) : After(R, Pending, n) = R
  <2> SUFFICES ASSUME NEW R, NEW n \in 0..Len(Pending) PROVE After(R, Pending, n) = R
    OBVIOUS
  <2>1. \A j \in 1..n : j \in 1..Len(Pending)
    BY <1>3
  <2>2. \A j \in 1..n : \A a : Pending[j] # Evict(a) /\ Pending[j] # Prefetch(a)
    BY <2>1, <1>3, CommandsDiffer
  <2>3. QED  BY <2>2 DEF After
<1>5. 0 \in 0..Len(Pending) /\ Len(Pending) \in 0..Len(Pending)
  BY <1>3
<1>6. planned = Resident /\ allocated_device_bytes <= device_capacity_bytes
  <2>1. planned = Resident
    BY <1>4, <1>5 DEF ClientInv, PlanInv, LeadsToPlan
  <2>2. FitsPlan(Resident)
    BY <1>4, <1>5 DEF ClientInv, PlanInv, FitsOnTheWay
  <2>3. QED  BY <2>1, <2>2, ResidentFits DEF ClientInv
<1>7. next_addr \notin DOMAIN allocations
  <2> SUFFICES ASSUME next_addr \in DOMAIN allocations PROVE FALSE
    OBVIOUS
  <2>1. /\ next_addr \in Int /\ allocations[next_addr].size_bytes \in Nat
        /\ allocations[next_addr].size_bytes > 0
        /\ next_addr + allocations[next_addr].size_bytes <= next_addr
    BY AddressAssumption
       DEF ClientInv, IInv, TypeOK, Addr, MemoryBlock, BelowNext, NoEmptyBlock
  <2>2. QED  BY <2>1
<1>8. /\ DOMAIN allocations' = DOMAIN allocations \cup {next_addr}
      /\ allocations'[next_addr].domain = IF onDevice THEN "LocalDevice" ELSE "Host"
      /\ \A a \in DOMAIN allocations : allocations'[a] = allocations[a]
  BY <1>1, <1>7 DEF Alloc, Insert
<1>9. Resident' = planned'
  <2>1. planned' = IF allocations'[next_addr].domain = "LocalDevice"
                   THEN planned \cup {next_addr} ELSE planned
    BY DEF Load
  <2>2. QED  BY <2>1, <1>6, <1>7, <1>8 DEF Resident
<1>10. allocated_device_bytes' <= device_capacity_bytes
  <2>1. allocated_device_bytes' = allocated_device_bytes + (IF onDevice THEN aligned ELSE 0)
    BY <1>1 DEF Alloc
  <2>2. onDevice => allocated_device_bytes + aligned <= device_capacity_bytes
    BY DEF FitsOnDevice
  <2>3. allocated_device_bytes \in Nat
    BY DEF ClientInv, IInv, TypeOK
  <2> HIDE DEF onDevice, aligned
  <2>4. QED  BY <2>1, <2>2, <2>3, <1>6
<1>11. FitsOnTheWay'
  <2>1. FitsPlan(Resident)'
    BY <1>10 DEF IInv, Accounting, DeviceBytes, FitsPlan, PlanBytes
  <2>2. \A n \in 0..Len(Pending) : After(Resident', Pending, n) = Resident'
    BY <1>4
  <2>3. QED  BY <2>1, <2>2, <1>2 DEF FitsOnTheWay
<1>12. LeadsToPlan'
  BY <1>2, <1>4, <1>5, <1>9 DEF LeadsToPlan
<1>13. PlanIsLoaded'
  <2>1. planned' \subseteq DOMAIN allocations'
    BY <1>9 DEF Resident
  <2>2. \A j \in 1..Len(Pending), a \in Layers : Pending[j] # Prefetch(a)
    BY <1>3, CommandsDiffer
  <2>3. QED  BY <2>1, <2>2, <1>2, <1>3 DEF PlanIsLoaded
<1>14. QED  BY <1>11, <1>12, <1>13 DEF PlanInv

\* A window prefetches no layers but the ones it names.
LEMMA WindowPrefetches ==
  ASSUME NEW p \in Seq(Layers), NEW e \in Seq(Layers),
         NEW j \in 1..Len(Commands(p, e)), NEW a, Commands(p, e)[j] = Prefetch(a)
  PROVE  a \in ElementsOf(p)
<1> DEFINE cmds == Commands(p, e)
           es == [k \in 1..Len(e) |-> Evict(e[k])]
           ps == [k \in 1..Len(p) |-> Prefetch(p[k])]
<1>0. j \in 1..Len(cmds) /\ cmds[j] = Prefetch(a)
  OBVIOUS
<1>1. cmds = es \o ps /\ Len(e) \in Nat /\ Len(p) \in Nat
  BY LenProperties DEF Commands
<1>2. es \in Seq(Message) /\ Len(es) = Len(e) /\ \A k \in 1..Len(e) : es[k] = Evict(e[k])
  <2>1. \A k \in 1..Len(e) : Evict(e[k]) \in Message
    BY DEF Message, PageCommand
  <2>2. QED  BY <1>1, <2>1
<1>3. ps \in Seq(Message) /\ Len(ps) = Len(p) /\ \A k \in 1..Len(p) : ps[k] = Prefetch(p[k])
  <2>1. \A k \in 1..Len(p) : Prefetch(p[k]) \in Message
    BY DEF Message, PageCommand
  <2>2. QED  BY <1>1, <2>1
<1> HIDE DEF es, ps, cmds
<1>4. Len(cmds) = Len(e) + Len(p) /\ cmds[j] = IF j <= Len(e) THEN es[j] ELSE ps[j - Len(e)]
  <2>0. es \in Seq(Message) /\ ps \in Seq(Message)
    BY <1>2, <1>3
  <2>1. /\ Len(es \o ps) = Len(es) + Len(ps)
        /\ \A k \in 1..(Len(es) + Len(ps)) :
              (es \o ps)[k] = IF k <= Len(es) THEN es[k] ELSE ps[k - Len(es)]
    BY <2>0, ConcatProperties
  <2>2. QED  BY <2>1, <1>0, <1>1, <1>2, <1>3
<1>5. ~(j <= Len(e))
  <2>1. ASSUME j <= Len(e) PROVE cmds[j] = Evict(e[j])
    <3>1. j \in 1..Len(e)
      BY <1>0, <1>1, <1>4, <2>1
    <3>2. QED  BY <1>2, <1>4, <2>1, <3>1
  <2>2. QED  BY <2>1, <1>0, CommandsDiffer
<1>6. j - Len(e) \in 1..Len(p)
  BY <1>0, <1>1, <1>4, <1>5
<1>7. Prefetch(p[j - Len(e)]) = Prefetch(a)
  BY <1>0, <1>3, <1>4, <1>5, <1>6
<1>8. p[j - Len(e)] = a
  BY <1>7, CommandsDiffer
<1>9. QED
  <2>1. DOMAIN p = 1..Len(p)
    BY LenProperties
  <2>2. QED  BY <2>1, <1>6, <1>8 DEF ElementsOf

\* A window is posted whole: it starts where the plan has led so far.
LEMMA PlanKeepsPlan ==
  ASSUME ClientInv, Plan
  PROVE  PlanInv'
<1>1. PICK p \in Windows, e \in Windows :
         /\ ElementsOf(e) \subseteq planned
         /\ ElementsOf(p) \subseteq DOMAIN allocations \ planned
         /\ planned' = (planned \ ElementsOf(e)) \cup ElementsOf(p)
         /\ FitsPlan(planned')
         /\ SlideWindow(client, p, e)
  BY DEF Plan
<1> DEFINE cmds == Commands(p, e)
<1>2. p \in Seq(Layers) /\ e \in Seq(Layers)
  BY PagerAssumption DEF Windows
<1>3. /\ UNCHANGED vars /\ todo[client] = <<>> /\ todo'[client] = cmds
      /\ queue' = queue /\ InHand' = InHand /\ calls'[client] # 0
  <2>1. UNCHANGED <<vars, queue, wpc, wcmd>> /\ todo[client] = <<>>
    BY <1>1 DEF SlideWindow
  <2>2. todo' = [todo EXCEPT ![client] = cmds] /\ calls' = [calls EXCEPT ![client] = @ + 1]
    BY <1>1 DEF SlideWindow
  <2>3. todo \in [Clients -> Seq(PageCommand)] /\ calls \in [Clients -> 0..MaxCalls]
        /\ client \in Clients
    BY ClientAssumption DEF ClientInv, PagerTypeOK
  <2>4. calls[client] \in 0..MaxCalls /\ calls'[client] = calls[client] + 1 /\ todo'[client] = cmds
    BY <2>2, <2>3
  <2>5. calls'[client] # 0
    BY <2>4, PagerAssumption
  <2>6. QED  BY <2>1, <2>4, <2>5 DEF InHand
<1>4. cmds \in Seq(Message)
  <2>1. cmds \in Seq(PageCommand) /\ PageCommand \subseteq Message
    BY CommandsType DEF Message
  <2>2. QED  BY <2>1, SeqMonotonic
<1>5. /\ \A n \in 0..Len(cmds) : \/ After(planned, cmds, n) \subseteq planned
                                 \/ After(planned, cmds, n) \subseteq planned'
      /\ After(planned, cmds, Len(cmds)) = planned'
  BY <1>1, <1>2, WindowEffect
<1>6. \A j \in 1..Len(cmds), a \in Layers :
         cmds[j] = Prefetch(a) => a \in DOMAIN allocations
  BY <1>1, <1>2, WindowPrefetches
<1> HIDE DEF cmds
<1>7. planned \in SUBSET DOMAIN allocations /\ planned' \in SUBSET DOMAIN allocations
  BY <1>1 DEF ClientInv, PlanInv, PlanIsLoaded
<1>8. Pending \in Seq(Message) /\ InHand \in Seq(Message) /\ queue \in Seq(Message)
  BY PendingType DEF ClientInv
<1>9. Pending' = Pending \o cmds
  <2>1. Pending = InHand \o queue
    BY <1>3, <1>8, ConcatEmptySeq DEF Pending
  <2>2. Pending' = InHand \o (queue \o cmds)
    BY <1>3 DEF Pending
  <2>3. QED  BY <2>1, <2>2, <1>4, <1>8, ConcatAssociative
<1>10. FitsPlan(planned)
  <2>1. Len(Pending) \in 0..Len(Pending)
    BY <1>8, LenProperties
  <2>2. QED  BY <2>1 DEF ClientInv, PlanInv, LeadsToPlan, FitsOnTheWay
<1>11. \A n \in 0..Len(cmds) : FitsPlan(After(planned, cmds, n))
  <2>1. IInv /\ FitsPlan(planned')
    BY <1>1 DEF ClientInv
  <2>2. QED  BY <2>1, <1>5, <1>7, <1>10, FitsSubset
<1>12. QED
  BY <1>3, <1>4, <1>5, <1>6, <1>7, <1>8, <1>9, <1>11, CommandsPosted DEF ClientInv

\* A send, or taking a command off the channel, is still ahead of its effect.
LEMMA SendKeepsPlan ==
  ASSUME ClientInv, Send(client), UNCHANGED planned
  PROVE  PlanInv'
<1>1. /\ todo[client] # <<>> /\ queue' = Append(queue, Head(todo[client]))
      /\ todo' = [todo EXCEPT ![client] = Tail(todo[client])]
      /\ UNCHANGED <<vars, calls, wpc, wcmd>>
  BY DEF Send
<1>2. todo'[client] = Tail(todo[client])
  BY <1>1, ClientAssumption DEF ClientInv, PagerTypeOK
<1>3. queue \in Seq(Message) /\ todo[client] \in Seq(Message)
  BY PendingType DEF ClientInv
<1>4. queue' \o todo'[client] = queue \o todo[client]
  BY <1>1, <1>2, <1>3, MovesAlong
<1>5. Pending' = Pending
  BY <1>1, <1>4 DEF Pending, InHand
<1>6. QED  BY <1>1, <1>5, NoCommandDone DEF ClientInv

LEMMA RecvKeepsPlan ==
  ASSUME ClientInv, WorkerRecv, UNCHANGED planned
  PROVE  PlanInv'
<1> DEFINE x == Head(queue)
           rest == Tail(queue) \o todo[client]
<1>1. /\ wpc = "recv" /\ queue # <<>> /\ wcmd' = x /\ queue' = Tail(queue)
      /\ wpc' = IF x = Shutdown THEN "done" ELSE "check"
      /\ UNCHANGED <<vars, todo, calls>>
  BY DEF WorkerRecv
<1>2. queue \in Seq(Message) /\ todo[client] \in Seq(Message)
  BY PendingType DEF ClientInv
<1>3. x \in Message /\ Tail(queue) \in Seq(Message)
  BY <1>1, <1>2
<1>4. queue \o todo[client] = <<x>> \o rest
  BY <1>1, <1>2, MovesAlong
<1>5. rest \in Seq(Message) /\ <<x>> \o rest \in Seq(Message)
  <2>1. rest \in Seq(Message)
    BY <1>2, <1>3, ConcatProperties
  <2>2. <<x>> \in Seq(Message)
    BY <1>3
  <2> HIDE DEF rest, x
  <2>3. QED  BY <2>1, <2>2, ConcatProperties
<1>6. Pending = <<x>> \o rest
  <2>1. InHand = <<>>
    BY <1>1 DEF InHand
  <2>2. QED  BY <2>1, <1>4, <1>5, ConcatEmptySeq DEF Pending
<1>7. queue' \o todo'[client] = rest
  BY <1>1
<1> HIDE DEF x, rest
<1>8. CASE x = Shutdown
  <2>1. InHand' = <<>>
    BY <1>1, <1>8 DEF InHand
  <2>2. Pending' = rest
    BY <2>1, <1>5, <1>7, ConcatEmptySeq DEF Pending
  <2>3. Resident' = After(Resident, <<x>>, 1)
    BY <1>1, <1>8, AfterShutdown DEF vars, Resident
  <2>4. DOMAIN allocations' = DOMAIN allocations /\ allocations' = allocations
    BY <1>1 DEF vars
  <2>5. QED  BY <2>2, <2>3, <2>4, <1>1, <1>3, <1>5, <1>6, CommandDone DEF ClientInv
<1>9. CASE x # Shutdown
  <2>1. InHand' = <<x>>
    BY <1>1, <1>9 DEF InHand
  <2>2. Pending' = Pending
    BY <2>1, <1>6, <1>7 DEF Pending
  <2>3. QED  BY <2>2, <1>1, NoCommandDone DEF ClientInv
<1>10. QED  BY <1>8, <1>9

\* The command in hand is the first one pending.
LEMMA FirstInHand ==
  ASSUME ClientInv, wpc \in {"check", "migrate"}
  PROVE  LET rest == queue \o todo[client]
             a == wcmd.addr
         IN  /\ rest \in Seq(Message) /\ Pending = <<wcmd>> \o rest
             /\ a \in Layers /\ wcmd \in Message
             /\ \/ wcmd = Prefetch(a) /\ wcmd.op = "Prefetch" /\ a \in DOMAIN allocations
                \/ wcmd = Evict(a) /\ wcmd.op = "Evict"
             /\ wpc' = "recv" /\ UNCHANGED <<queue, todo>> => Pending' = rest
<1> DEFINE rest == queue \o todo[client]
           a == wcmd.addr
<1>1. rest \in Seq(Message)
  BY PendingType DEF ClientInv
<1>2. Pending = <<wcmd>> \o rest
  BY DEF Pending, InHand
<1>3. wcmd \in PageCommand /\ wcmd \in Message
  BY DEF ClientInv, PagerTypeOK, Message
<1>4. /\ a \in Layers
      /\ \/ wcmd = Prefetch(a) /\ wcmd.op = "Prefetch"
         \/ wcmd = Evict(a) /\ wcmd.op = "Evict"
  BY <1>3 DEF PageCommand, Evict, Prefetch
<1> HIDE DEF rest, a
<1>5. 1 \in 1..Len(Pending) /\ Pending[1] = wcmd
  <2> DEFINE one == <<wcmd>>
  <2>1. one \in Seq(Message) /\ Len(one) = 1 /\ one[1] = wcmd
    BY <1>3
  <2> HIDE DEF one
  <2>2. Pending = one \o rest /\ Len(rest) \in Nat
    BY <1>1, <1>2, LenProperties DEF one
  <2>3. /\ Len(one \o rest) = Len(one) + Len(rest)
        /\ \A i \in 1..(Len(one) + Len(rest)) :
              (one \o rest)[i] = IF i <= Len(one) THEN one[i] ELSE rest[i - Len(one)]
    BY <2>1, <1>1, ConcatProperties
  <2>4. QED  BY <2>1, <2>2, <2>3
<1>6. wcmd = Prefetch(a) => a \in DOMAIN allocations
  BY <1>4, <1>5 DEF ClientInv, PlanInv, PlanIsLoaded
<1>7. ASSUME wpc' = "recv", UNCHANGED <<queue, todo>> PROVE Pending' = rest
  <2>1. Pending' = <<>> \o rest
    BY <1>7 DEF Pending, InHand, rest
  <2>2. QED  BY <2>1, <1>1, ConcatEmptySeq
<1>8. QED  BY <1>1, <1>2, <1>3, <1>4, <1>6, <1>7 DEF rest, a

\* get_domain is consulted: a command that is skipped had no effect to have.
LEMMA CheckKeepsPlan ==
  ASSUME ClientInv, WorkerCheck, UNCHANGED planned
  PROVE  PlanInv'
<1> DEFINE rest == queue \o todo[client]
           a == wcmd.addr
<1>1. wpc = "check" /\ UNCHANGED <<vars, queue, todo, calls>>
  BY DEF WorkerCheck
<1>2. /\ rest \in Seq(Message) /\ Pending = <<wcmd>> \o rest /\ a \in Layers /\ wcmd \in Message
      /\ \/ wcmd = Prefetch(a) /\ wcmd.op = "Prefetch" /\ a \in DOMAIN allocations
         \/ wcmd = Evict(a) /\ wcmd.op = "Evict"
      /\ wpc' = "recv" /\ UNCHANGED <<queue, todo>> => Pending' = rest
  BY <1>1, FirstInHand
<1>3. CASE wpc' = "migrate" /\ UNCHANGED wcmd
  <2>1. Pending' = Pending
    BY <1>1, <1>3 DEF Pending, InHand
  <2>2. QED  BY <2>1, <1>1, NoCommandDone DEF ClientInv
<1>4. CASE ~NeedsMigration /\ wpc' = "recv"
  <2>1. wcmd.op = "Prefetch" => a \in Resident
    BY <1>4 DEF NeedsMigration, get_domain, Resident
  <2>2. wcmd.op = "Evict" => a \notin Resident
    BY <1>4 DEF NeedsMigration, get_domain, Resident
  <2> HIDE DEF rest, a
  <2>3. After(Resident, <<wcmd>>, 1) = Resident
    <3>0. /\ After(Resident, <<Prefetch(a)>>, 1) = Resident \cup {a}
          /\ After(Resident, <<Evict(a)>>, 1) = Resident \ {a}
      BY <1>2, AfterOne
    <3>1. CASE wcmd = Prefetch(a) /\ wcmd.op = "Prefetch"
      <4>1. Resident \cup {a} = Resident
        BY <2>1, <3>1
      <4>2. QED  BY <3>0, <3>1, <4>1
    <3>2. CASE wcmd = Evict(a) /\ wcmd.op = "Evict"
      <4>1. Resident \ {a} = Resident
        BY <2>2, <3>2
      <4>2. QED  BY <3>0, <3>2, <4>1
    <3>3. QED  BY <3>1, <3>2, <1>2
  <2>4. Resident' = Resident /\ allocations' = allocations
    BY <1>1 DEF vars, Resident
  <2>5. Pending' = rest
    BY <1>1, <1>2, <1>4
  <2>6. QED  BY <2>3, <2>4, <2>5, <1>1, <1>2, CommandDone DEF ClientInv
<1>5. QED  BY <1>3, <1>4 DEF WorkerCheck

\* migrate is where a command has its effect.
LEMMA MigrateKeepsPlan ==
  ASSUME ClientInv, WorkerMigrate, UNCHANGED planned
  PROVE  PlanInv'
<1> DEFINE rest == queue \o todo[client]
           a == wcmd.addr
<1>1. /\ wpc = "migrate" /\ wpc' = "recv" /\ UNCHANGED <<queue, todo, calls>>
      /\ Migrate(a, Target) \/ MigrateNothing(a, Target)
  BY DEF WorkerMigrate
<1>2. /\ rest \in Seq(Message) /\ Pending = <<wcmd>> \o rest /\ a \in Layers /\ wcmd \in Message
      /\ \/ wcmd = Prefetch(a) /\ wcmd.op = "Prefetch" /\ a \in DOMAIN allocations
         \/ wcmd = Evict(a) /\ wcmd.op = "Evict"
      /\ Pending' = rest
  BY <1>1, FirstInHand
<1> HIDE DEF rest, a
<1>3. /\ DOMAIN allocations' = DOMAIN allocations
      /\ \A b \in DOMAIN allocations : allocations'[b].size_bytes = allocations[b].size_bytes
      /\ \A b \in DOMAIN allocations : b # a => allocations'[b].domain = allocations[b].domain
      /\ a \in DOMAIN allocations => allocations'[a].domain = Target
  <2>0. \A b \in DOMAIN allocations :
           allocations[b] \in [size_bytes : Nat, domain : MemoryDomain, is_static : BOOLEAN]
    BY DEF ClientInv, IInv, TypeOK, MemoryBlock
  <2>1. CASE Migrate(a, Target)
    <3>1. allocations' = [allocations EXCEPT ![a].domain = Target]
      BY <2>1 DEF Migrate
    <3> HIDE DEF Target
    <3>2. QED  BY <2>0, <3>1
  <2>2. CASE MigrateNothing(a, Target)
    <3>1. allocations' = allocations /\ (a \in DOMAIN allocations => allocations[a].domain = Target)
      BY <2>2 DEF MigrateNothing, vars
    <3>2. QED  BY <3>1
  <2>3. QED  BY <2>1, <2>2, <1>1
<1>4. Resident' = After(Resident, <<wcmd>>, 1)
  <2>1. CASE wcmd = Prefetch(a) /\ wcmd.op = "Prefetch" /\ a \in DOMAIN allocations
    <3>1. Target = "LocalDevice"
      BY <2>1 DEF Target
    <3>2. Resident' = Resident \cup {a}
      BY <2>1, <3>1, <1>3 DEF Resident
    <3>3. QED  BY <2>1, <3>2, <1>2, AfterOne
  <2>2. CASE wcmd = Evict(a) /\ wcmd.op = "Evict"
    <3>1. Target = "Host"
      BY <2>2 DEF Target
    <3>2. Resident' = Resident \ {a}
      BY <3>1, <1>3 DEF Resident
    <3>3. QED  BY <2>2, <3>2, <1>2, AfterOne
  <2>3. QED  BY <2>1, <2>2, <1>2
<1>5. QED  BY <1>1, <1>2, <1>3, <1>4, CommandDone DEF ClientInv

\* Drop posts Shutdown behind the last command.
LEMMA DropKeepsPlan ==
  ASSUME ClientInv, Drop, UNCHANGED planned
  PROVE  PlanInv'
<1> DEFINE s == <<Shutdown>>
<1>1. /\ todo[client] = <<>> /\ todo' = todo /\ queue' = Append(queue, Shutdown)
      /\ UNCHANGED <<vars, calls, wpc, wcmd>>
  BY ClientAssumption DEF Drop
<1>2. s \in Seq(Message) /\ Len(s) = 1 /\ (\A i \in 1..1 : s[i] = Shutdown)
  BY DEF Message
<1>3. Pending \in Seq(Message) /\ InHand \in Seq(Message) /\ queue \in Seq(Message)
  BY PendingType DEF ClientInv
<1>4. Append(queue, Shutdown) = queue \o s
  BY <1>3
<1>5. \A n \in 0..1 : After(planned, s, n) = planned
  BY AfterShutdown
<1> HIDE DEF s
<1>6. Pending' = Pending \o s
  <2>1. Pending = InHand \o queue
    BY <1>1, <1>3, ConcatEmptySeq DEF Pending
  <2>2. queue \o s \in Seq(Message)
    BY <1>2, <1>3, ConcatProperties
  <2>3. InHand' = InHand
    BY <1>1 DEF InHand
  <2>4. Pending' = InHand \o (queue \o s)
    BY <2>2, <2>3, <1>1, <1>4, ConcatEmptySeq DEF Pending
  <2>5. QED  BY <2>1, <2>4, <1>2, <1>3, ConcatAssociative
<1>7. FitsPlan(planned) /\ planned \subseteq DOMAIN allocations
  <2>1. Len(Pending) \in 0..Len(Pending)
    BY <1>3, LenProperties
  <2>2. QED  BY <2>1 DEF ClientInv, PlanInv, LeadsToPlan, FitsOnTheWay, PlanIsLoaded
<1>8. /\ \A n \in 0..Len(s) : FitsPlan(After(planned, s, n))
      /\ planned' = After(planned, s, Len(s))
      /\ \A i \in 1..Len(s), a \in Layers : s[i] = Prefetch(a) => a \in DOMAIN allocations
  BY <1>2, <1>5, <1>7, CommandsDiffer
<1>9. QED  BY <1>1, <1>2, <1>3, <1>6, <1>7, <1>8, CommandsPosted DEF ClientInv

-----------------------------------------------------------------------------
(* The theorem.                                                            *)

LEMMA ClientInitInv == ClientInit => ClientInv
<1> SUFFICES ASSUME ClientInit PROVE ClientInv
  OBVIOUS
<1>1. IInv /\ PagerTypeOK
  BY InitInv, PagerInitInv DEF ClientInit, PagerInit
<1>2. Pending = <<>> /\ Resident = {} /\ planned = {}
  BY ClientAssumption DEF ClientInit, PagerInit, Init, Pending, InHand, Resident
<1>3. After(Resident, Pending, 0) = {} /\ Len(Pending) = 0
  BY <1>2, AfterNothing
<1>4. allocated_device_bytes <= device_capacity_bytes
  BY CapacityAssumption DEF ClientInit, PagerInit, Init
<1>5. FitsPlan({})
  BY <1>1, <1>2, <1>4, ResidentFits
<1>6. FitsOnTheWay
  <2>1. \A n \in 0..Len(Pending) : n = 0
    BY <1>3
  <2>2. QED  BY <2>1, <1>3, <1>5 DEF FitsOnTheWay
<1>7. LeadsToPlan
  BY <1>2, <1>3 DEF LeadsToPlan
<1>8. PlanIsLoaded
  <2>1. 1..Len(Pending) = {}
    BY <1>3
  <2>2. QED  BY <2>1, <1>2 DEF PlanIsLoaded
<1>9. QED  BY <1>1, <1>6, <1>7, <1>8 DEF ClientInv, PlanInv

LEMMA ClientNextInv ==
  ASSUME 0 \notin Sizes, ClientInv, [ClientNext]_clientVars
  PROVE  ClientInv'
<1>1. [PagerNext]_allVars
  BY ClientStepIsPagerStep
<1>2. IInv' /\ PagerTypeOK'
  BY <1>1, PagerStepIsAllocatorStep, PagerTypeInv DEF ClientInv
<1>3. PlanInv'
  <2>1. CASE Load
    BY <2>1, <1>2, LoadKeepsPlan
  <2>2. CASE Plan
    BY <2>2, PlanKeepsPlan
  <2>3. CASE (Send(client) \/ Worker \/ Drop) /\ UNCHANGED planned
    BY <2>3, SendKeepsPlan, RecvKeepsPlan, CheckKeepsPlan, MigrateKeepsPlan, DropKeepsPlan
       DEF Worker
  <2>4. CASE (Join /\ UNCHANGED planned) \/ UNCHANGED clientVars
    <3>1. UNCHANGED <<vars, calls, planned>> /\ UNCHANGED <<queue, todo, wpc, wcmd>>
      BY <2>4 DEF Join, clientVars, allVars, pagerVars
    <3>2. Pending' = Pending
      BY <3>1 DEF Pending, InHand
    <3>3. QED  BY <3>1, <3>2, NoCommandDone DEF ClientInv
  <2>5. QED  BY <2>1, <2>2, <2>3, <2>4 DEF ClientNext
<1>4. QED  BY <1>2, <1>3 DEF ClientInv

\* What the invariant is for.
LEMMA ClientInvImplies ==
  ASSUME ClientInv
  PROVE  DeviceWithinCapacity /\ PlanReached
<1>1. Pending \in Seq(Message) /\ Len(Pending) \in Nat
  BY PendingType, LenProperties DEF ClientInv
<1>2. 0 \in 0..Len(Pending)
  BY <1>1
<1>3. DeviceWithinCapacity
  <2>1. FitsPlan(Resident)
    BY <1>2, AfterNothing DEF ClientInv, PlanInv, FitsOnTheWay
  <2>2. QED  BY <2>1, ResidentFits DEF ClientInv, DeviceWithinCapacity
<1>4. ASSUME Quiet PROVE Resident = planned
  <2>1. todo[client] = <<>> /\ InHand = <<>> /\ queue \in {<<>>, <<Shutdown>>}
    BY <1>4 DEF Quiet, InHand
  <2>2. Pending = queue
    <3>1. queue \in Seq(Message)
      BY PendingType DEF ClientInv
    <3>2. QED  BY <2>1, <3>1, ConcatEmptySeq DEF Pending
  <2>3. CASE queue = <<>>
    <3>1. Len(Pending) = 0
      BY <2>2, <2>3
    <3>2. QED  BY <3>1, AfterNothing DEF ClientInv, PlanInv, LeadsToPlan
  <2>4. CASE queue = <<Shutdown>>
    <3>1. Len(Pending) = 1 /\ Pending = <<Shutdown>>
      BY <2>2, <2>4
    <3>2. QED  BY <3>1, AfterShutdown DEF ClientInv, PlanInv, LeadsToPlan
  <2>5. QED  BY <2>1, <2>3, <2>4
<1>5. QED  BY <1>3, <1>4 DEF PlanReached

(* A thread that plans windows that fit, and posts them with slide_window  *)
(* without ever waiting for the worker, never overfills the device: not    *)
(* when a plan is made, and not between two migrations of the worker.      *)
THEOREM CapacityUnderPlan ==
  ASSUME 0 \notin Sizes
  PROVE  ClientSpec => []DeviceWithinCapacity
<1>1. ClientInv /\ [ClientNext]_clientVars => ClientInv'
  BY ClientNextInv
<1>2. ClientInv => DeviceWithinCapacity
  BY ClientInvImplies
<1>3. QED  BY ClientInitInv, <1>1, <1>2, PTL DEF ClientSpec

(* Whenever the worker has caught up, exactly the planned layers are on    *)
(* the device, however many windows were queued behind each other.         *)
THEOREM PlanTheorem ==
  ASSUME 0 \notin Sizes
  PROVE  ClientSpec => []PlanReached
<1>1. ClientInv /\ [ClientNext]_clientVars => ClientInv'
  BY ClientNextInv
<1>2. ClientInv => PlanReached
  BY ClientInvImplies
<1>3. QED  BY ClientInitInv, <1>1, <1>2, PTL DEF ClientSpec
=============================================================================
