----------------------------- MODULE TiledMatMul -----------------------------
(***************************************************************************)
(* The matrix multiplication kernel that the code generators of            *)
(* omni-core/src/codegen emit, as one thread block of it runs: the threads *)
(* load a tile of A and of B into shared memory, wait at a barrier, add    *)
(* the products of the tile, and wait again before the next phase.         *)
(* The tile sizes come from run_loop_tiling, the block size from the       *)
(* generator.  Matrix elements are symbolic; a sum is the bag of products  *)
(* added so far.                                                           *)
(***************************************************************************)
EXTENDS Naturals, FiniteSets, Bags

CONSTANTS
    tile,           \* tile_m and tile_n, which are equal
    tile_k,
    block,          \* threads of the block in each dimension
    Sizes           \* the values M, N and K take

ASSUME TiledAssumption ==
    /\ {tile, tile_k, block} \subseteq Nat \ {0}
    /\ Sizes \subseteq Nat \ {0}

VARIABLES
    M, N, K,        \* kernel arguments
    bx, by,         \* blockIdx of the block that runs
    sA, sB,         \* shared memory
    pc,             \* pc[t]: barriers thread t has passed (twice per phase)
    sum,            \* sum[t]: bag of products
    C               \* the cells of the result this block has written

vars == <<M, N, K, bx, by, sA, sB, pc, sum, C>>

Threads == [tx : 0..(block - 1), ty : 0..(block - 1)]

row(t) == by * tile + t.ty
col(t) == bx * tile + t.tx

Undef == [of |-> "undef"]
Zero == [of |-> "zero"]
ElemA(r, k) == [of |-> "A", row |-> r, col |-> k]
ElemB(k, c) == [of |-> "B", row |-> k, col |-> c]

CeilDiv(a, b) == (a + b - 1) \div b
Phases == CeilDiv(K, tile_k)

\* The launch (external): one block for each tile of the result.
Init ==
    /\ M \in Sizes /\ N \in Sizes /\ K \in Sizes
    /\ bx \in 0..(CeilDiv(N, tile) - 1)
    /\ by \in 0..(CeilDiv(M, tile) - 1)
    /\ sA = [i \in (0..(tile - 1)) \X (0..(tile_k - 1)) |-> Undef]
    /\ sB = [i \in (0..(tile_k - 1)) \X (0..(tile - 1)) |-> Undef]
    /\ pc = [t \in Threads |-> 0]
    /\ sum = [t \in Threads |-> EmptyBag]
    /\ C = [c \in {} |-> EmptyBag]

\* barrier(): a thread goes on when every thread has arrived.
\* mutant: the barrier after the products is left out
OneBarrier(t) == pc[t] % 2 = 0 \/ \A u \in Threads : pc[u] >= pc[t]

\* mutant: the threads meet at the barrier and never leave it one by one
BarrierInStep(t) == \A u \in Threads : pc[u] = pc[t]

Barrier(t) == \A u \in Threads : pc[u] >= pc[t]

\* A store outside the array is undefined behaviour: it is dropped, and what
\* is read there is Undef, which stands for any value.
Store(array, i, v) == IF i \in DOMAIN array THEN [array EXCEPT ![i] = v] ELSE array

\* Cooperative load of phase ph.
Load(t) ==
    LET ph == pc[t] \div 2
    IN  /\ pc[t] % 2 = 0 /\ ph < Phases
        /\ Barrier(t)
        /\ sA' = Store(sA, <<t.ty, t.tx>>,
                       IF row(t) < M /\ ph * tile_k + t.tx < K
                       THEN ElemA(row(t), ph * tile_k + t.tx) ELSE Zero)
        /\ sB' = Store(sB, <<t.ty, t.tx>>,
                       IF ph * tile_k + t.ty < K /\ col(t) < N
                       THEN ElemB(ph * tile_k + t.ty, col(t)) ELSE Zero)
        /\ pc' = [pc EXCEPT ![t] = @ + 1]
        /\ UNCHANGED <<M, N, K, bx, by, sum, C>>

\* sum += sA[ty][k] * sB[k][tx], for k below tile_k.
Read(array, i) == IF i \in DOMAIN array THEN array[i] ELSE Undef

Products(t) ==
    LET product(k) == <<Read(sA, <<t.ty, k>>), Read(sB, <<k, t.tx>>)>>
        terms == {k \in 0..(tile_k - 1) : Zero \notin {product(k)[1], product(k)[2]}}
    IN  [p \in {product(k) : k \in terms} |->
            Cardinality({k \in terms : product(k) = p})]

Multiply(t) ==
    /\ pc[t] % 2 = 1 /\ pc[t] < 2 * Phases
    /\ Barrier(t)
    /\ sum' = [sum EXCEPT ![t] = @ (+) Products(t)]
    /\ pc' = [pc EXCEPT ![t] = @ + 1]
    /\ UNCHANGED <<M, N, K, bx, by, sA, sB, C>>

\* mutant: the last row is taken to be outside
WriteShort(t) ==
    /\ pc[t] = 2 * Phases
    /\ C' = IF row(t) + 1 < M /\ col(t) < N
            THEN [c \in DOMAIN C \cup {<<row(t), col(t)>>} |->
                    IF c = <<row(t), col(t)>> THEN sum[t] ELSE C[c]]
            ELSE C
    /\ pc' = [pc EXCEPT ![t] = @ + 1]
    /\ UNCHANGED <<M, N, K, bx, by, sA, sB, sum>>

\* After the last phase: C[row * N + col] = sum, inside the matrix.
Write(t) ==
    /\ pc[t] = 2 * Phases
    /\ C' = IF row(t) < M /\ col(t) < N
            THEN [c \in DOMAIN C \cup {<<row(t), col(t)>>} |->
                    IF c = <<row(t), col(t)>> THEN sum[t] ELSE C[c]]
            ELSE C
    /\ pc' = [pc EXCEPT ![t] = @ + 1]
    /\ UNCHANGED <<M, N, K, bx, by, sA, sB, sum>>

Finished == \A t \in Threads : pc[t] > 2 * Phases

Next == \E t \in Threads : Load(t) \/ Multiply(t) \/ Write(t)

Spec == Init /\ [][Next]_vars

\* The hardware makes progress on every thread of a block.
FairSpec ==
    Spec /\ \A t \in Threads : WF_vars(Load(t)) /\ WF_vars(Multiply(t)) /\ WF_vars(Write(t))

-----------------------------------------------------------------------------
\* Row r of A times column c of B.
DotProduct(r, c) == SetToBag({<<ElemA(r, k), ElemB(k, c)>> : k \in 0..(K - 1)})

(* Whatever order the threads of a block run in, what it writes is the     *)
(* dot product: every product once, none of an element that another phase  *)
(* left in, or wrote early into, shared memory.                            *)
WrittenCorrectly == \A c \in DOMAIN C : C[c] = DotProduct(c[1], c[2])

(* When the block has finished it has written every cell of its tile that  *)
(* lies inside the matrix.                                                 *)
TileCovered ==
    Finished => \A r \in (by * tile)..(by * tile + tile - 1),
                   c \in (bx * tile)..(bx * tile + tile - 1) :
                   r < M /\ c < N => <<r, c>> \in DOMAIN C

(* The barriers do not deadlock: the block finishes.                       *)
Terminates == <>Finished
=============================================================================
