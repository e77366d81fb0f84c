---------------------------- MODULE AddressSpace ----------------------------
(***************************************************************************)
(* What a unified address space promises its callers, without saying how:  *)
(* a block is granted on bytes that were never granted before, it keeps    *)
(* its size and its flag while it lives, and it is either released or      *)
(* moved, alone, to another physical domain.  DuvasAllocator implements    *)
(* this specification when no caller asks for zero bytes.                  *)
(***************************************************************************)
EXTENDS Integers, Functions

CONSTANT Domain     \* the physical domains a block can reside in

VARIABLES
    live,           \* start address -> [size_bytes, domain, is_static]
    granted         \* every byte ever handed out, released ones included

Bytes(addr, size_bytes) == addr..(addr + size_bytes - 1)

Init == live = [a \in {} |-> 0] /\ granted = {}

\* Some caller receives a block of at least one byte on fresh bytes.
Grant ==
    \E addr \in DOMAIN live' :
        LET fresh == Bytes(addr, live'[addr].size_bytes)
        IN  /\ fresh # {}
            /\ fresh \cap granted = {}
            /\ granted' = granted \cup fresh
            /\ DOMAIN live' = DOMAIN live \cup {addr}
            /\ \A a \in DOMAIN live : a # addr /\ live'[a] = live[a]

\* A released block disappears; its bytes stay granted for ever.
Release ==
    /\ \E addr \in DOMAIN live :
          live' = Restrict(live, DOMAIN live \ {addr})
    /\ UNCHANGED granted

Move ==
    /\ \E addr \in DOMAIN live, d \in Domain :
          live' = [live EXCEPT ![addr].domain = d]
    /\ UNCHANGED granted

Next == Grant \/ Release \/ Move

Spec == Init /\ [][Next]_<<live, granted>>
=============================================================================
