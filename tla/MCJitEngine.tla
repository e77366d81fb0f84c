---------------------------- MODULE MCJitEngine ----------------------------
(***************************************************************************)
(* JitEngine with the hash function of jit.rs, scaled down from 64 bits    *)
(* and the 64-bit FNV constants to Width bits and an odd PRIME.            *)
(***************************************************************************)
EXTENDS JitEngine, Bitwise, SequencesExt

CONSTANTS Width, OFFSET, PRIME, Bytes, KernelIds, MaxPtx

Wrap(x) == x % 2^Width

\* mutant: the kernel id is left out
hash_without_id(r) ==
    FoldLeft(LAMBDA h, b : Wrap(h * PRIME) ^^ b, Wrap(OFFSET * PRIME), r.ptx)

\* JitEngine::hash_ptx
hash_ptx(r) ==
    FoldLeft(LAMBDA h, b : Wrap(h * PRIME) ^^ b,
             Wrap(OFFSET * PRIME) ^^ r.id, r.ptx)

\* DashMap takes the shard from some bits of the key.
TwoShards(k) == k % 2

MCRequests ==
    {[ptx |-> p, id |-> i] : p \in BoundedSeq(Bytes, MaxPtx) \ {<<>>}, i \in KernelIds}

\* The kernel generated for a request, or the error of an unsupported one.
MCCompiled ==
    [r \in MCRequests |-> IF r.id = 0 /\ Head(r.ptx) = 0 THEN Err ELSE r]
=============================================================================
