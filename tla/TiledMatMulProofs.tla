------------------------- MODULE TiledMatMulProofs -------------------------
(***************************************************************************)
(* For any matrix sizes, any tile size and any block of the grid: when the *)
(* block has as many threads in each dimension as the tile has cells       *)
(* (block = tile) and the inner tile is no larger (tile_k <= block), what  *)
(* a block writes is right and complete, in whatever order its threads     *)
(* run.  Both hypotheses are needed, and only the pairing of VulkanGeneric *)
(* in run_loop_tiling with spirv.rs meets them.                            *)
(***************************************************************************)
EXTENDS TiledMatMul, FiniteSetTheorems, TLAPS

-----------------------------------------------------------------------------
\* Arithmetic of phases.

LEMMA DivBounds ==
    ASSUME NEW a \in Nat, NEW b \in Nat \ {0}
    PROVE  a \div b \in Nat /\ a < (a \div b + 1) * b
  OBVIOUS

\* The phases cover K.
LEMMA CeilDivCovers ==
    ASSUME NEW a \in Nat \ {0}, NEW b \in Nat \ {0}
    PROVE  CeilDiv(a, b) \in Nat /\ a <= CeilDiv(a, b) * b
  <1> DEFINE q == (a + b - 1) \div b
  <1>1. a + b - 1 \in Nat
    OBVIOUS
  <1>2. q \in Nat /\ a + b - 1 < (q + 1) * b
    BY <1>1, DivBounds
  <1> HIDE DEF q
  <1>3. (q + 1) * b = q * b + b /\ q * b \in Nat
    BY <1>2
  <1>4. a <= q * b
    BY <1>2, <1>3
  <1> QED BY <1>2, <1>4 DEF CeilDiv, q

\* Bags with one copy of everything.
LEMMA DisjointBags ==
    ASSUME NEW S, NEW T, S \cap T = {}
    PROVE  SetToBag(S) (+) SetToBag(T) = SetToBag(S \cup T)
  BY DEF SetToBag, (+)

-----------------------------------------------------------------------------
\* The inductive invariant.

Sized == block = tile /\ tile_k <= block

Types ==
    /\ {M, N, K} \subseteq Nat \ {0} /\ {bx, by} \subseteq Nat
    /\ sA = [i \in (0..(tile - 1)) \X (0..(tile_k - 1)) |-> sA[i]]
    /\ sB = [i \in (0..(tile_k - 1)) \X (0..(tile - 1)) |-> sB[i]]
    /\ pc \in [Threads -> Nat]
    /\ sum = [t \in Threads |-> sum[t]]

\* No thread is more than one barrier ahead of another, except that those
\* that have written leave the others behind in the last phase.
InStep ==
    \A t, u \in Threads :
        /\ pc[t] <= 2 * Phases + 1
        /\ pc[t] <= pc[u] + 1 \/ (pc[t] = 2 * Phases + 1 /\ pc[u] + 1 >= 2 * Phases)

\* The load of phase ph is the latest load of t.
LatestLoad(t, ph) ==
    /\ ph < Phases /\ 2 * ph + 1 <= pc[t]
    /\ pc[t] <= 2 * ph + 2 \/ ph + 1 = Phases

\* What t loads in phase ph.
ValueA(t, ph) ==
    IF row(t) < M /\ ph * tile_k + t.tx < K THEN ElemA(row(t), ph * tile_k + t.tx) ELSE Zero
ValueB(t, ph) ==
    IF ph * tile_k + t.ty < K /\ col(t) < N THEN ElemB(ph * tile_k + t.ty, col(t)) ELSE Zero

\* Shared memory holds what was loaded last.
Loaded ==
    \A t \in Threads, ph \in Nat :
        LatestLoad(t, ph) =>
            /\ t.tx < tile_k => sA[<<t.ty, t.tx>>] = ValueA(t, ph)
            /\ t.ty < tile_k => sB[<<t.ty, t.tx>>] = ValueB(t, ph)

\* The first n products of row r and column c.
ProductsUpTo(r, c, n) == {<<ElemA(r, k), ElemB(k, c)>> : k \in {j \in 0..(K - 1) : j < n}}

\* A thread inside the matrix has added the products of its finished phases.
Summed ==
    \A t \in Threads, ph \in Nat :
        row(t) < M /\ col(t) < N /\ pc[t] \in {2 * ph, 2 * ph + 1} =>
            sum[t] = SetToBag(ProductsUpTo(row(t), col(t), ph * tile_k))

\* A thread that is through has written its cell, if there is one.
Written ==
    \A t \in Threads :
        pc[t] > 2 * Phases /\ row(t) < M /\ col(t) < N => <<row(t), col(t)>> \in DOMAIN C

IInv == Types /\ InStep /\ Loaded /\ Summed /\ Written /\ WrittenCorrectly

\* A thread is its two coordinates; where it is, and how many phases there are.
LEMMA ThreadFacts ==
    ASSUME Types, NEW t \in Threads
    PROVE  /\ t.tx \in 0..(block - 1) /\ t.ty \in 0..(block - 1)
           /\ t = [tx |-> t.tx, ty |-> t.ty]
           /\ row(t) \in Nat /\ col(t) \in Nat /\ pc[t] \in Nat
  <1>1. t.tx \in 0..(block - 1) /\ t.ty \in 0..(block - 1) /\ t = [tx |-> t.tx, ty |-> t.ty]
    BY DEF Threads
  <1>2. tile \in Nat /\ block \in Nat /\ bx \in Nat /\ by \in Nat
    BY TiledAssumption DEF Types
  <1>3. by * tile \in Nat /\ bx * tile \in Nat
    BY <1>2
  <1> QED BY <1>1, <1>2, <1>3 DEF Types, row, col

LEMMA PhaseFacts ==
    ASSUME Types
    PROVE  Phases \in Nat /\ K <= Phases * tile_k
  BY TiledAssumption, CeilDivCovers DEF Types, Phases

LEMMA InitIInv == Init => IInv
  <1> SUFFICES ASSUME Init PROVE IInv
    OBVIOUS
  <1>1. {M, N, K} \subseteq Nat \ {0} /\ {bx, by} \subseteq Nat
    <2>1. {M, N, K} \subseteq Nat \ {0}
      BY TiledAssumption DEF Init
    <2>2. bx \in 0..(CeilDiv(N, tile) - 1) /\ by \in 0..(CeilDiv(M, tile) - 1)
      BY DEF Init
    <2>3. CeilDiv(N, tile) \in Nat /\ CeilDiv(M, tile) \in Nat
      BY <2>1, CeilDivCovers, TiledAssumption
    <2> QED BY <2>1, <2>2, <2>3
  <1>2. Types
    BY <1>1 DEF Init, Types
  <1>3. \A t \in Threads : pc[t] = 0 /\ sum[t] = EmptyBag
    BY DEF Init
  <1>4. Phases \in Nat
    BY <1>2, PhaseFacts
  <1>5. InStep /\ Loaded /\ Written
    BY <1>3, <1>4 DEF InStep, Loaded, LatestLoad, Written
  <1>6. Summed
    <2> SUFFICES ASSUME NEW t \in Threads, NEW ph \in Nat, pc[t] \in {2 * ph, 2 * ph + 1}
                 PROVE  sum[t] = SetToBag(ProductsUpTo(row(t), col(t), ph * tile_k))
      BY DEF Summed
    <2>1. ph = 0 /\ ph * tile_k = 0
      BY <1>3, TiledAssumption
    <2>2. K \in Nat
      BY <1>1
    <2>3. ProductsUpTo(row(t), col(t), 0) = {}
      BY <2>2 DEF ProductsUpTo
    <2> QED BY <1>3, <2>1, <2>3 DEF EmptyBag
  <1>7. WrittenCorrectly
    BY DEF Init, WrittenCorrectly
  <1> QED BY <1>2, <1>5, <1>6, <1>7 DEF IInv

-----------------------------------------------------------------------------
\* What every step of a thread does.

\* Arguments and block do not change, nor what is said in terms of them.
LEMMA Frame ==
    ASSUME UNCHANGED <<M, N, K, bx, by>>
    PROVE  /\ Phases' = Phases
           /\ \A u : row(u)' = row(u) /\ col(u)' = col(u)
           /\ \A u, ph : ValueA(u, ph)' = ValueA(u, ph) /\ ValueB(u, ph)' = ValueB(u, ph)
           /\ \A r, c, n : ProductsUpTo(r, c, n)' = ProductsUpTo(r, c, n)
           /\ \A r, c : DotProduct(r, c)' = DotProduct(r, c)
  BY DEF Phases, row, col, ValueA, ValueB, ProductsUpTo, DotProduct

LEMMA StepsMove ==
    ASSUME NEW t \in Threads, Load(t) \/ Multiply(t) \/ Write(t)
    PROVE  /\ UNCHANGED <<M, N, K, bx, by>>
           /\ pc' = [pc EXCEPT ![t] = @ + 1]
           /\ \/ Barrier(t) /\ pc[t] \div 2 < Phases /\ pc[t] % 2 = 0
              \/ Barrier(t) /\ pc[t] < 2 * Phases /\ pc[t] % 2 = 1
              \/ pc[t] = 2 * Phases
  BY DEF Load, Multiply, Write

\* The barrier keeps the threads in step.
LEMMA MoveInStep ==
    ASSUME Types, InStep, NEW t \in Threads, Load(t) \/ Multiply(t) \/ Write(t)
    PROVE  InStep' /\ pc' \in [Threads -> Nat]
  <1>1. Phases' = Phases /\ Phases \in Nat /\ pc' = [pc EXCEPT ![t] = @ + 1]
    BY StepsMove, Frame, PhaseFacts
  <1>2. \A u \in Threads : pc[u] \in Nat
    BY DEF Types
  <1>3. (pc[t] < 2 * Phases /\ \A u \in Threads : pc[u] >= pc[t]) \/ pc[t] = 2 * Phases
    BY <1>1, <1>2, StepsMove DEF Barrier
  <1>4. \A u \in Threads : pc'[u] = IF u = t THEN pc[t] + 1 ELSE pc[u]
    BY <1>1 DEF Types
  <1>5. \A u \in Threads : pc'[u] <= 2 * Phases + 1
    BY <1>1, <1>2, <1>3, <1>4 DEF InStep
  <1>6. ASSUME NEW u \in Threads, NEW v \in Threads
        PROVE  pc'[u] <= pc'[v] + 1 \/ (pc'[u] = 2 * Phases + 1 /\ pc'[v] + 1 >= 2 * Phases)
    <2>1. pc[u] <= pc[v] + 1 \/ (pc[u] = 2 * Phases + 1 /\ pc[v] + 1 >= 2 * Phases)
      BY <1>6 DEF InStep
    <2>2. pc[u] \in Nat /\ pc[v] \in Nat /\ pc[t] \in Nat
      BY <1>2
    <2>3. CASE u = t /\ v # t
      BY <2>1, <2>2, <2>3, <1>1, <1>3, <1>4
    <2>4. CASE u = t /\ v = t
      BY <2>2, <2>4, <1>1, <1>4
    <2>5. CASE u # t
      BY <2>1, <2>2, <2>5, <1>1, <1>4
    <2> QED BY <2>3, <2>4, <2>5
  <1>7. InStep'
    BY <1>1, <1>5, <1>6 DEF InStep
  <1>8. pc' \in [Threads -> Nat]
    BY <1>1, <1>2 DEF Types
  <1> QED BY <1>7, <1>8

\* The threads of a block write different cells of shared memory.
LEMMA OwnCell ==
    ASSUME NEW t \in Threads, NEW u \in Threads, <<t.ty, t.tx>> = <<u.ty, u.tx>>
    PROVE  t = u
  <1>1. t.ty = u.ty /\ t.tx = u.tx
    OBVIOUS
  <1>2. t = [tx |-> t.tx, ty |-> t.ty] /\ u = [tx |-> u.tx, ty |-> u.ty]
    BY DEF Threads
  <1> QED BY <1>1, <1>2

\* A load leaves the thread's values in its cells, and the other cells alone.
LEMMA StoreFacts ==
    ASSUME NEW S, NEW f, f = [i \in S |-> f[i]], NEW i, NEW v
    PROVE  /\ DOMAIN f = S
           /\ Store(f, i, v) = [j \in S |-> Store(f, i, v)[j]]
           /\ i \in S => Store(f, i, v)[i] = v
           /\ \A j \in S : j # i => Store(f, i, v)[j] = f[j]
  <1>1. DOMAIN f = S
    OBVIOUS
  <1>2. CASE i \in S
    <2>1. Store(f, i, v) = [f EXCEPT ![i] = v]
      BY <1>1, <1>2 DEF Store
    <2> QED BY <1>1, <1>2, <2>1
  <1>3. CASE i \notin S
    <2>1. Store(f, i, v) = f
      BY <1>1, <1>3 DEF Store
    <2> QED BY <1>1, <1>3, <2>1
  <1> QED BY <1>2, <1>3

LEMMA LoadInv ==
    ASSUME Sized, IInv, NEW t \in Threads, Load(t)
    PROVE  IInv'
  <1> DEFINE ph == pc[t] \div 2
             DA == (0..(tile - 1)) \X (0..(tile_k - 1))
             DB == (0..(tile_k - 1)) \X (0..(tile - 1))
  <1>0. Types
    BY DEF IInv
  <1>1. Phases' = Phases /\ Phases \in Nat /\ pc' = [pc EXCEPT ![t] = @ + 1]
    BY <1>0, StepsMove, Frame, PhaseFacts
  <1>2. pc[t] = 2 * ph /\ ph \in Nat /\ ph < Phases
    <2>1. pc[t] \in Nat /\ pc[t] % 2 = 0 /\ ph < Phases
      BY <1>0 DEF Load, Types
    <2> QED BY <2>1
  <1>3. \A u \in Threads : pc[u] \in Nat /\ pc'[u] = IF u = t THEN pc[t] + 1 ELSE pc[u]
    BY <1>0, <1>1 DEF Types
  <1>4. UNCHANGED <<M, N, K, bx, by, sum, C>>
    BY DEF Load
  <1>5. sA' = Store(sA, <<t.ty, t.tx>>, ValueA(t, ph)) /\ sB' = Store(sB, <<t.ty, t.tx>>, ValueB(t, ph))
    BY DEF Load, ValueA, ValueB
  <1>6. sA = [i \in DA |-> sA[i]] /\ sB = [i \in DB |-> sB[i]]
    BY <1>0 DEF Types
  <1> HIDE DEF ph, DA, DB
  <1>7. /\ sA' = [i \in DA |-> sA'[i]]
        /\ <<t.ty, t.tx>> \in DA => sA'[<<t.ty, t.tx>>] = ValueA(t, ph)
        /\ \A j \in DA : j # <<t.ty, t.tx>> => sA'[j] = sA[j]
    <2> DEFINE i == <<t.ty, t.tx>>
               new == Store(sA, i, ValueA(t, ph))
    <2>1. sA = [j \in DA |-> sA[j]] /\ sA' = new
      BY <1>5, <1>6
    <2> HIDE DEF i
    <2>2. /\ new = [j \in DA |-> new[j]]
          /\ i \in DA => new[i] = ValueA(t, ph)
          /\ \A j \in DA : j # i => new[j] = sA[j]
      BY <2>1, StoreFacts
    <2> HIDE DEF new
    <2>3. /\ sA' = [j \in DA |-> sA'[j]]
          /\ i \in DA => sA'[i] = ValueA(t, ph)
          /\ \A j \in DA : j # i => sA'[j] = sA[j]
      BY <2>1, <2>2
    <2> QED BY <2>3 DEF i
  <1>8. /\ sB' = [i \in DB |-> sB'[i]]
        /\ <<t.ty, t.tx>> \in DB => sB'[<<t.ty, t.tx>>] = ValueB(t, ph)
        /\ \A j \in DB : j # <<t.ty, t.tx>> => sB'[j] = sB[j]
    <2> DEFINE i == <<t.ty, t.tx>>
               new == Store(sB, i, ValueB(t, ph))
    <2>1. sB = [j \in DB |-> sB[j]] /\ sB' = new
      BY <1>5, <1>6
    <2> HIDE DEF i
    <2>2. /\ new = [j \in DB |-> new[j]]
          /\ i \in DB => new[i] = ValueB(t, ph)
          /\ \A j \in DB : j # i => new[j] = sB[j]
      BY <2>1, StoreFacts
    <2> HIDE DEF new
    <2>3. /\ sB' = [j \in DB |-> sB'[j]]
          /\ i \in DB => sB'[i] = ValueB(t, ph)
          /\ \A j \in DB : j # i => sB'[j] = sB[j]
      BY <2>1, <2>2
    <2> QED BY <2>3 DEF i
  <1>9. InStep' /\ pc' \in [Threads -> Nat]
    BY <1>0, MoveInStep DEF IInv
  <1>10. Types'
    BY <1>0, <1>4, <1>7, <1>8, <1>9 DEF Types, DA, DB
  <1>11. Loaded'
    <2> SUFFICES ASSUME NEW u \in Threads, NEW p \in Nat, LatestLoad(u, p)'
                 PROVE  /\ u.tx < tile_k => sA'[<<u.ty, u.tx>>] = ValueA(u, p)
                        /\ u.ty < tile_k => sB'[<<u.ty, u.tx>>] = ValueB(u, p)
      BY <1>4, Frame DEF Loaded
    <2>1. u.tx \in 0..(block - 1) /\ u.ty \in 0..(block - 1)
      BY <1>0, ThreadFacts
    <2>2. u.tx < tile_k => <<u.ty, u.tx>> \in DA
      BY <2>1, TiledAssumption DEF Sized, DA
    <2>3. u.ty < tile_k => <<u.ty, u.tx>> \in DB
      BY <2>1, TiledAssumption DEF Sized, DB
    <2>4. CASE u = t
      <3>1. p < Phases /\ 2 * p + 1 <= pc[t] + 1 /\ (pc[t] + 1 <= 2 * p + 2 \/ p + 1 = Phases)
        BY <2>4, <1>1, <1>3 DEF LatestLoad
      <3>2. p = ph
        BY <3>1, <1>1, <1>2
      <3> QED BY <2>2, <2>3, <2>4, <3>2, <1>7, <1>8
    <2>5. CASE u # t
      <3>1. <<u.ty, u.tx>> # <<t.ty, t.tx>>
        BY <2>5, OwnCell
      <3>2. LatestLoad(u, p)
        BY <2>5, <1>1, <1>3 DEF LatestLoad
      <3>3. /\ u.tx < tile_k => sA[<<u.ty, u.tx>>] = ValueA(u, p)
            /\ u.ty < tile_k => sB[<<u.ty, u.tx>>] = ValueB(u, p)
        BY <3>2 DEF IInv, Loaded
      <3> QED BY <2>2, <2>3, <3>1, <3>3, <1>7, <1>8
    <2> QED BY <2>4, <2>5
  <1>12. Summed'
    <2> SUFFICES ASSUME NEW u \in Threads, NEW p \in Nat, row(u) < M, col(u) < N,
                        pc'[u] \in {2 * p, 2 * p + 1}
                 PROVE  sum[u] = SetToBag(ProductsUpTo(row(u), col(u), p * tile_k))
      BY <1>4, Frame DEF Summed
    <2>1. pc[u] \in {2 * p, 2 * p + 1}
      BY <1>2, <1>3
    <2> QED BY <2>1 DEF IInv, Summed
  <1>13. Written'
    <2> SUFFICES ASSUME NEW u \in Threads, pc'[u] > 2 * Phases, row(u) < M, col(u) < N
                 PROVE  <<row(u), col(u)>> \in DOMAIN C
      BY <1>1, <1>4, Frame DEF Written
    <2>1. pc[u] > 2 * Phases
      BY <1>1, <1>2, <1>3
    <2> QED BY <2>1 DEF IInv, Written
  <1>14. WrittenCorrectly'
    BY <1>4, Frame DEF IInv, WrittenCorrectly
  <1> QED BY <1>9, <1>10, <1>11, <1>12, <1>13, <1>14 DEF IInv

-----------------------------------------------------------------------------
\* The products of a phase.

\* The barrier between load and products: nobody's load is missing, and
\* nobody has loaded for the next phase.
LEMMA EverythingLoaded ==
    ASSUME Types, InStep, NEW t \in Threads, NEW ph \in Nat,
           Barrier(t), pc[t] = 2 * ph + 1, pc[t] < 2 * Phases, NEW u \in Threads
    PROVE  LatestLoad(u, ph)
  <1>1. Phases \in Nat /\ pc[u] \in Nat
    BY PhaseFacts DEF Types
  <1>2. pc[u] >= 2 * ph + 1
    BY DEF Barrier
  <1>3. pc[u] <= pc[t] + 1 \/ (pc[u] = 2 * Phases + 1 /\ pc[t] + 1 >= 2 * Phases)
    BY DEF InStep
  <1> QED BY <1>1, <1>2, <1>3 DEF LatestLoad

\* What t finds in shared memory for its k-th product.
LEMMA CellsRead ==
    ASSUME Sized, Types, InStep, Loaded, NEW t \in Threads, NEW ph \in Nat,
           Barrier(t), pc[t] = 2 * ph + 1, pc[t] < 2 * Phases,
           row(t) < M, col(t) < N, NEW k \in 0..(tile_k - 1)
    PROVE  /\ Read(sA, <<t.ty, k>>) =
                  IF ph * tile_k + k < K THEN ElemA(row(t), ph * tile_k + k) ELSE Zero
           /\ Read(sB, <<k, t.tx>>) =
                  IF ph * tile_k + k < K THEN ElemB(ph * tile_k + k, col(t)) ELSE Zero
  <1> DEFINE u == [tx |-> k, ty |-> t.ty]
             v == [tx |-> t.tx, ty |-> k]
  <1>1. t.tx \in 0..(block - 1) /\ t.ty \in 0..(block - 1)
    BY ThreadFacts
  <1>2. k \in Nat /\ k < tile_k /\ k \in 0..(block - 1) /\ tile = block
    BY TiledAssumption DEF Sized
  <1>3. u \in Threads /\ v \in Threads
    BY <1>1, <1>2 DEF Threads
  <1>4. LatestLoad(u, ph) /\ LatestLoad(v, ph)
    BY <1>3, EverythingLoaded
  <1>5. u.tx = k /\ u.ty = t.ty /\ v.tx = t.tx /\ v.ty = k
    OBVIOUS
  <1> HIDE DEF u, v
  <1>6. sA[<<t.ty, k>>] = ValueA(u, ph) /\ sB[<<k, t.tx>>] = ValueB(v, ph)
    <2>1. /\ u.tx < tile_k => sA[<<u.ty, u.tx>>] = ValueA(u, ph)
          /\ v.ty < tile_k => sB[<<v.ty, v.tx>>] = ValueB(v, ph)
      BY <1>3, <1>4 DEF Loaded
    <2> QED BY <2>1, <1>2, <1>5
  <1>7. row(u) = row(t) /\ col(v) = col(t)
    BY <1>5 DEF row, col
  <1>8. ValueA(u, ph) = IF ph * tile_k + k < K THEN ElemA(row(t), ph * tile_k + k) ELSE Zero
    BY <1>5, <1>7 DEF ValueA
  <1>9. ValueB(v, ph) = IF ph * tile_k + k < K THEN ElemB(ph * tile_k + k, col(t)) ELSE Zero
    BY <1>5, <1>7 DEF ValueB
  <1>10. Read(sA, <<t.ty, k>>) = sA[<<t.ty, k>>]
    <2>1. DOMAIN sA = (0..(tile - 1)) \X (0..(tile_k - 1))
      BY DEF Types
    <2> QED BY <2>1, <1>1, <1>2 DEF Read
  <1>11. Read(sB, <<k, t.tx>>) = sB[<<k, t.tx>>]
    <2>1. DOMAIN sB = (0..(tile_k - 1)) \X (0..(tile - 1))
      BY DEF Types
    <2> QED BY <2>1, <1>1, <1>2 DEF Read
  <1> QED BY <1>6, <1>8, <1>9, <1>10, <1>11

LEMMA ElementsDiffer ==
    /\ \A r, k : ElemA(r, k) # Zero /\ ElemB(k, r) # Zero
    /\ \A r, j, k : ElemA(r, j) = ElemA(r, k) => j = k
  <1>1. ASSUME NEW r, NEW k
        PROVE  ElemA(r, k) # Zero /\ ElemB(k, r) # Zero
    <2>1. ElemA(r, k).of = "A" /\ ElemB(k, r).of = "B" /\ Zero.of = "zero"
      BY DEF ElemA, ElemB, Zero
    <2> QED BY <2>1
  <1>2. ASSUME NEW r, NEW j, NEW k, ElemA(r, j) = ElemA(r, k)
        PROVE  j = k
    <2>1. ElemA(r, j).col = j /\ ElemA(r, k).col = k
      BY DEF ElemA
    <2> QED BY <2>1, <1>2
  <1> QED BY <1>1, <1>2

\* The products that a phase adds.
PhaseProducts(r, c, ph) ==
    {<<ElemA(r, ph * tile_k + k), ElemB(ph * tile_k + k, c)>> :
        k \in {j \in 0..(tile_k - 1) : ph * tile_k + j < K}}

LEMMA ProductsOfPhase ==
    ASSUME Sized, Types, InStep, Loaded, NEW t \in Threads, NEW ph \in Nat,
           Barrier(t), pc[t] = 2 * ph + 1, pc[t] < 2 * Phases, row(t) < M, col(t) < N
    PROVE  Products(t) = SetToBag(PhaseProducts(row(t), col(t), ph))
  <1> DEFINE n == ph * tile_k
             D == 0..(tile_k - 1)
             product(k) == <<Read(sA, <<t.ty, k>>), Read(sB, <<k, t.tx>>)>>
             terms == {k \in D : Zero \notin {product(k)[1], product(k)[2]}}
             right(k) == <<ElemA(row(t), n + k), ElemB(n + k, col(t))>>
             inside == {k \in D : n + k < K}
  <1>1. n \in Nat /\ D \subseteq Nat
    BY TiledAssumption
  <1>2. Products(t) = [p \in {product(k) : k \in terms} |-> Cardinality({k \in terms : product(k) = p})]
    BY DEF Products
  <1>3. \A k \in D : product(k) = IF n + k < K THEN right(k) ELSE <<Zero, Zero>>
    BY CellsRead
  <1>4. PhaseProducts(row(t), col(t), ph) = {right(k) : k \in inside}
    BY DEF PhaseProducts
  <1>5. \A k \in D : right(k)[1] # Zero /\ right(k)[2] # Zero
    BY ElementsDiffer
  <1>6. \A j, k \in D : right(j) = right(k) => j = k
    <2> SUFFICES ASSUME NEW j \in D, NEW k \in D, right(j) = right(k) PROVE j = k
      OBVIOUS
    <2>1. ElemA(row(t), n + j) = ElemA(row(t), n + k)
      OBVIOUS
    <2>2. n + j = n + k
      BY <2>1, ElementsDiffer
    <2> QED BY <2>2, <1>1
  <1> HIDE DEF product, right, n, D
  <1>7. terms = inside
    <2>1. ASSUME NEW k \in D, n + k < K PROVE Zero \notin {product(k)[1], product(k)[2]}
      BY <2>1, <1>3, <1>5
    <2>2. ASSUME NEW k \in D, ~ (n + k < K) PROVE Zero \in {product(k)[1], product(k)[2]}
      <3>1. product(k) = <<Zero, Zero>>
        BY <2>2, <1>3
      <3> QED BY <3>1
    <2> QED BY <2>1, <2>2
  <1>8. \A k \in inside : product(k) = right(k)
    BY <1>3
  <1>9. inside \subseteq D
    OBVIOUS
  <1> HIDE DEF terms, inside
  <1>10. {product(k) : k \in terms} = {right(k) : k \in inside}
    BY <1>7, <1>8
  <1>11. ASSUME NEW p \in {right(k) : k \in inside}
         PROVE  Cardinality({k \in terms : product(k) = p}) = 1
    <2>1. PICK j \in inside : p = right(j)
      BY <1>11
    <2>2. {k \in terms : product(k) = p} = {j}
      BY <2>1, <1>6, <1>7, <1>8, <1>9
    <2> QED BY <2>2, FS_Singleton
  <1>12. Products(t) = [p \in {right(k) : k \in inside} |-> 1]
    BY <1>2, <1>10, <1>11
  <1> QED BY <1>4, <1>12 DEF SetToBag

\* A phase adds the next tile_k products, none of them a second time.
LEMMA NextProducts ==
    ASSUME Types, NEW ph \in Nat, NEW r, NEW c
    PROVE  /\ ProductsUpTo(r, c, ph * tile_k) \cap PhaseProducts(r, c, ph) = {}
           /\ ProductsUpTo(r, c, ph * tile_k) \cup PhaseProducts(r, c, ph)
                = ProductsUpTo(r, c, (ph + 1) * tile_k)
  <1> DEFINE n == ph * tile_k
             pair(k) == <<ElemA(r, k), ElemB(k, c)>>
             before == {j \in 0..(K - 1) : j < n}
             after == {j \in 0..(K - 1) : j < n + tile_k}
             inside == {j \in 0..(tile_k - 1) : n + j < K}
  <1>1. n \in Nat /\ tile_k \in Nat /\ K \in Nat /\ (ph + 1) * tile_k = n + tile_k
    BY TiledAssumption DEF Types
  <1>2. ProductsUpTo(r, c, n) = {pair(k) : k \in before}
    BY DEF ProductsUpTo
  <1>3. ProductsUpTo(r, c, n + tile_k) = {pair(k) : k \in after}
    BY DEF ProductsUpTo
  <1>4. PhaseProducts(r, c, ph) = {pair(n + k) : k \in inside}
    BY DEF PhaseProducts
  <1>5. \A j, k : pair(j) = pair(k) => j = k
    <2> SUFFICES ASSUME NEW j, NEW k, pair(j) = pair(k) PROVE j = k
      OBVIOUS
    <2>1. ElemA(r, j) = ElemA(r, k)
      OBVIOUS
    <2> QED BY <2>1, ElementsDiffer
  <1> HIDE DEF pair, n
  <1>6. \A j \in before, k \in inside : j # n + k
    BY <1>1
  <1>7. before \subseteq after /\ \A k \in inside : n + k \in after
    BY <1>1
  <1>8. \A j \in after : j \in before \/ \E k \in inside : j = n + k
    <2> SUFFICES ASSUME NEW j \in after, j \notin before PROVE j - n \in inside /\ j = n + (j - n)
      OBVIOUS
    <2> QED BY <1>1
  <1> HIDE DEF before, after, inside
  <1>9. ProductsUpTo(r, c, n) \cap PhaseProducts(r, c, ph) = {}
    BY <1>2, <1>4, <1>5, <1>6
  <1>10. ProductsUpTo(r, c, n) \cup PhaseProducts(r, c, ph) = ProductsUpTo(r, c, n + tile_k)
    BY <1>2, <1>3, <1>4, <1>7, <1>8
  <1> QED BY <1>1, <1>9, <1>10 DEF n

\* A step that loads nothing leaves the latest loads what they were.
LEMMA StillLoaded ==
    ASSUME Types, Loaded, NEW t \in Threads, Multiply(t) \/ Write(t)
    PROVE  Loaded'
  <1>1. UNCHANGED <<M, N, K, bx, by, sA, sB>>
    BY DEF Multiply, Write
  <1>2. Phases' = Phases /\ Phases \in Nat /\ pc' = [pc EXCEPT ![t] = @ + 1]
    BY StepsMove, Frame, PhaseFacts
  <1>3. pc[t] = 2 * Phases \/ (pc[t] % 2 = 1 /\ pc[t] < 2 * Phases)
    BY DEF Multiply, Write
  <1>4. \A u \in Threads : pc[u] \in Nat /\ pc'[u] = IF u = t THEN pc[t] + 1 ELSE pc[u]
    BY <1>2 DEF Types
  <1>5. ASSUME NEW u \in Threads, NEW p \in Nat, LatestLoad(u, p)'
        PROVE  LatestLoad(u, p)
    <2>1. p < Phases /\ 2 * p + 1 <= pc'[u] /\ (pc'[u] <= 2 * p + 2 \/ p + 1 = Phases)
      BY <1>2, <1>5 DEF LatestLoad
    <2>2. CASE u = t
      <3>1. 2 * p + 1 <= pc[t] + 1 /\ (pc[t] + 1 <= 2 * p + 2 \/ p + 1 = Phases) /\ pc[t] \in Nat
        BY <2>1, <2>2, <1>4
      <3>2. CASE pc[t] = 2 * Phases
        BY <2>1, <2>2, <3>1, <3>2, <1>2 DEF LatestLoad
      <3>3. CASE pc[t] % 2 = 1 /\ pc[t] < 2 * Phases
        <4>1. 2 * p + 1 <= pc[t]
          BY <3>1, <3>3
        <4> QED BY <2>1, <2>2, <3>1, <3>3, <4>1, <1>2 DEF LatestLoad
      <3> QED BY <3>2, <3>3, <1>3
    <2>3. CASE u # t
      BY <2>1, <2>3, <1>4 DEF LatestLoad
    <2> QED BY <2>2, <2>3
  <1> QED BY <1>1, <1>5, Frame DEF Loaded

LEMMA MultiplyInv ==
    ASSUME Sized, IInv, NEW t \in Threads, Multiply(t)
    PROVE  IInv'
  <1>0. Types /\ InStep /\ Loaded
    BY DEF IInv
  <1>1. Phases' = Phases /\ Phases \in Nat /\ pc' = [pc EXCEPT ![t] = @ + 1]
    BY <1>0, StepsMove, Frame, PhaseFacts
  <1>2. \A u \in Threads : pc[u] \in Nat /\ pc'[u] = IF u = t THEN pc[t] + 1 ELSE pc[u]
    BY <1>0, <1>1 DEF Types
  <1>3. /\ UNCHANGED <<M, N, K, bx, by, sA, sB, C>>
        /\ Barrier(t) /\ pc[t] % 2 = 1 /\ pc[t] < 2 * Phases
        /\ sum' = [sum EXCEPT ![t] = @ (+) Products(t)]
    BY DEF Multiply
  <1>4. sum' = [u \in Threads |-> sum'[u]] /\ sum'[t] = sum[t] (+) Products(t)
        /\ \A u \in Threads : u # t => sum'[u] = sum[u]
    <2>1. sum = [u \in Threads |-> sum[u]]
      BY <1>0 DEF Types
    <2> QED BY <2>1, <1>3
  <1>5. InStep' /\ pc' \in [Threads -> Nat]
    BY <1>0, MoveInStep
  <1>6. Types'
    BY <1>0, <1>3, <1>4, <1>5 DEF Types
  <1>7. Loaded'
    BY <1>0, StillLoaded
  <1>8. Summed'
    <2> SUFFICES ASSUME NEW u \in Threads, NEW p \in Nat, row(u) < M, col(u) < N,
                        pc'[u] \in {2 * p, 2 * p + 1}
                 PROVE  sum'[u] = SetToBag(ProductsUpTo(row(u), col(u), p * tile_k))
      BY <1>3, Frame DEF Summed
    <2>1. CASE u = t
      <3> DEFINE ph == pc[t] \div 2
      <3>1. ph \in Nat /\ pc[t] = 2 * ph + 1
        BY <1>2, <1>3
      <3> HIDE DEF ph
      <3>2. p = ph + 1
        BY <2>1, <3>1, <1>2
      <3>3. sum[t] = SetToBag(ProductsUpTo(row(t), col(t), ph * tile_k))
        BY <2>1, <3>1 DEF IInv, Summed
      <3>4. Products(t) = SetToBag(PhaseProducts(row(t), col(t), ph))
        BY <2>1, <3>1, <1>0, <1>3, ProductsOfPhase
      <3>5. sum'[t] = SetToBag(ProductsUpTo(row(t), col(t), (ph + 1) * tile_k))
        BY <3>1, <3>3, <3>4, <1>0, <1>4, NextProducts, DisjointBags
      <3> QED BY <2>1, <3>2, <3>5
    <2>2. CASE u # t
      <3>1. pc[u] \in {2 * p, 2 * p + 1}
        BY <2>2, <1>2
      <3> QED BY <2>2, <3>1, <1>4 DEF IInv, Summed
    <2> QED BY <2>1, <2>2
  <1>9. Written'
    <2> SUFFICES ASSUME NEW u \in Threads, pc'[u] > 2 * Phases, row(u) < M, col(u) < N
                 PROVE  <<row(u), col(u)>> \in DOMAIN C
      BY <1>1, <1>3, Frame DEF Written
    <2>1. pc[u] > 2 * Phases
      BY <1>1, <1>2, <1>3
    <2> QED BY <2>1 DEF IInv, Written
  <1>10. WrittenCorrectly'
    BY <1>3, Frame DEF IInv, WrittenCorrectly
  <1> QED BY <1>5, <1>6, <1>7, <1>8, <1>9, <1>10 DEF IInv

LEMMA WriteInv ==
    ASSUME Sized, IInv, NEW t \in Threads, Write(t)
    PROVE  IInv'
  <1> DEFINE cell == <<row(t), col(t)>>
  <1>0. Types /\ InStep /\ Loaded
    BY DEF IInv
  <1>1. Phases' = Phases /\ Phases \in Nat /\ pc' = [pc EXCEPT ![t] = @ + 1]
    BY <1>0, StepsMove, Frame, PhaseFacts
  <1>2. \A u \in Threads : pc[u] \in Nat /\ pc'[u] = IF u = t THEN pc[t] + 1 ELSE pc[u]
    BY <1>0, <1>1 DEF Types
  <1>3. UNCHANGED <<M, N, K, bx, by, sA, sB, sum>> /\ pc[t] = 2 * Phases
    BY DEF Write
  <1>4. /\ row(t) < M /\ col(t) < N =>
              C' = [c \in DOMAIN C \cup {cell} |-> IF c = cell THEN sum[t] ELSE C[c]]
        /\ ~ (row(t) < M /\ col(t) < N) => C' = C
    BY DEF Write
  <1> HIDE DEF cell
  <1>5. InStep' /\ pc' \in [Threads -> Nat]
    BY <1>0, MoveInStep
  <1>6. Types'
    BY <1>0, <1>3, <1>5 DEF Types
  <1>7. Loaded'
    BY <1>0, StillLoaded
  <1>8. Summed'
    <2> SUFFICES ASSUME NEW u \in Threads, NEW p \in Nat, row(u) < M, col(u) < N,
                        pc'[u] \in {2 * p, 2 * p + 1}
                 PROVE  sum[u] = SetToBag(ProductsUpTo(row(u), col(u), p * tile_k))
      BY <1>3, Frame DEF Summed
    <2>1. pc[u] \in {2 * p, 2 * p + 1}
      BY <1>1, <1>2, <1>3
    <2> QED BY <2>1 DEF IInv, Summed
  <1>9. DOMAIN C \subseteq DOMAIN C' /\ (row(t) < M /\ col(t) < N => cell \in DOMAIN C')
    BY <1>4
  <1>10. Written'
    <2> SUFFICES ASSUME NEW u \in Threads, pc'[u] > 2 * Phases, row(u) < M, col(u) < N
                 PROVE  <<row(u), col(u)>> \in DOMAIN C'
      BY <1>1, <1>3, Frame DEF Written
    <2>1. CASE u = t
      BY <2>1, <1>9 DEF cell
    <2>2. CASE u # t
      <3>1. <<row(u), col(u)>> \in DOMAIN C
        BY <2>2, <1>2 DEF IInv, Written
      <3> QED BY <3>1, <1>9
    <2> QED BY <2>1, <2>2
  <1>11. WrittenCorrectly'
    <2> SUFFICES ASSUME NEW c \in DOMAIN C' PROVE C'[c] = DotProduct(c[1], c[2])
      BY <1>3, Frame DEF WrittenCorrectly
    <2>1. \A d \in DOMAIN C : C[d] = DotProduct(d[1], d[2])
      BY DEF IInv, WrittenCorrectly
    <2>2. CASE ~ (row(t) < M /\ col(t) < N)
      BY <2>1, <2>2, <1>4
    <2>3. CASE row(t) < M /\ col(t) < N
      <3>1. sum[t] = SetToBag(ProductsUpTo(row(t), col(t), Phases * tile_k))
        BY <2>3, <1>1, <1>3 DEF IInv, Summed
      <3>2. {j \in 0..(K - 1) : j < Phases * tile_k} = 0..(K - 1)
        <4>1. K \in Nat /\ K <= Phases * tile_k /\ Phases * tile_k \in Nat
          BY <1>0, <1>1, PhaseFacts, TiledAssumption DEF Types
        <4> QED BY <4>1
      <3>3. ProductsUpTo(row(t), col(t), Phases * tile_k)
              = {<<ElemA(row(t), k), ElemB(k, col(t))>> : k \in 0..(K - 1)}
        BY <3>2 DEF ProductsUpTo
      <3>4. sum[t] = DotProduct(row(t), col(t))
        BY <3>1, <3>3 DEF DotProduct
      <3>5. cell[1] = row(t) /\ cell[2] = col(t)
        BY DEF cell
      <3> QED BY <2>1, <2>3, <3>4, <3>5, <1>4
    <2> QED BY <2>2, <2>3
  <1> QED BY <1>5, <1>6, <1>7, <1>8, <1>10, <1>11 DEF IInv

-----------------------------------------------------------------------------
\* The theorem.

LEMMA NextIInv ==
    ASSUME Sized, IInv, [Next]_vars
    PROVE  IInv'
  <1>1. CASE UNCHANGED vars
    <2>1. UNCHANGED <<M, N, K, bx, by>> /\ UNCHANGED <<sA, sB>> /\ pc' = pc /\ sum' = sum /\ C' = C
      BY <1>1 DEF vars
    <2>2. Types' /\ InStep'
      BY <2>1, Frame DEF IInv, Types, InStep
    <2>3. Loaded'
      BY <2>1, Frame DEF IInv, Loaded, LatestLoad
    <2>4. Summed'
      BY <2>1, Frame DEF IInv, Summed
    <2>5. Written'
      BY <2>1, Frame DEF IInv, Written
    <2>6. WrittenCorrectly'
      BY <2>1, Frame DEF IInv, WrittenCorrectly
    <2> QED BY <2>2, <2>3, <2>4, <2>5, <2>6 DEF IInv
  <1>2. ASSUME NEW t \in Threads, Load(t) \/ Multiply(t) \/ Write(t)
        PROVE  IInv'
    BY <1>2, LoadInv, MultiplyInv, WriteInv
  <1> QED BY <1>1, <1>2 DEF Next

\* Every cell of the tile has its thread.
LEMMA Covered ==
    ASSUME Sized, IInv
    PROVE  TileCovered
  <1> SUFFICES ASSUME Finished,
                      NEW r \in (by * tile)..(by * tile + tile - 1),
                      NEW c \in (bx * tile)..(bx * tile + tile - 1),
                      r < M, c < N
               PROVE  <<r, c>> \in DOMAIN C
    BY DEF TileCovered
  <1> DEFINE y == by * tile
             x == bx * tile
             t == [tx |-> c - x, ty |-> r - y]
  <1>1. y \in Nat /\ x \in Nat /\ tile \in Nat /\ block = tile
    BY TiledAssumption DEF IInv, Types, Sized
  <1> HIDE DEF x, y
  <1>2. r \in y..(y + tile - 1) /\ c \in x..(x + tile - 1)
    BY DEF x, y
  <1>3. c - x \in 0..(block - 1) /\ r - y \in 0..(block - 1) /\ x + (c - x) = c /\ y + (r - y) = r
    BY <1>1, <1>2
  <1>4. t \in Threads /\ row(t) = r /\ col(t) = c
    BY <1>3 DEF Threads, row, col, x, y
  <1> HIDE DEF t
  <1>5. pc[t] > 2 * Phases
    BY <1>4 DEF Finished
  <1> QED BY <1>4, <1>5 DEF IInv, Written

(* The matrix kernel that the generators of codegen emit: whatever the     *)
(* matrix sizes, the tile and the block of the grid, and whatever order    *)
(* the barriers leave to the threads, each cell a block writes is the dot  *)
(* product of its row and column, and a block that has finished has        *)
(* written every cell of its tile inside the matrix, provided the block is *)
(* as large as the tile and the inner tile no larger.                      *)
THEOREM KernelCorrect ==
    ASSUME block = tile, tile_k <= block
    PROVE  Spec => [](WrittenCorrectly /\ TileCovered)
  <1>1. Sized
    BY DEF Sized
  <1>2. Init => IInv
    BY InitIInv
  <1>3. IInv /\ [Next]_vars => IInv'
    BY <1>1, NextIInv
  <1>4. IInv => WrittenCorrectly /\ TileCovered
    BY <1>1, Covered DEF IInv
  <1> QED BY <1>2, <1>3, <1>4, PTL DEF Spec

(* In particular the guard of the kernel's final store drops no cell: the  *)
(* tile of a block that has finished is complete.                          *)
THEOREM TileTheorem ==
    ASSUME block = tile, tile_k <= block
    PROVE  Spec => []TileCovered
  <1>1. Spec => [](WrittenCorrectly /\ TileCovered)
    BY KernelCorrect
  <1> QED BY <1>1, PTL
=============================================================================
