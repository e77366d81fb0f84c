-------------------------- MODULE JitEngineProofs --------------------------
(***************************************************************************)
(* For any number of threads, requests and calls, any sharding of the map  *)
(* and any compilation pipeline: the cache is consistent with its readers, *)
(* a flush is complete, and, when no two requests have the same key, every *)
(* call returns the outcome of its own request.                            *)
(***************************************************************************)
EXTENDS JitEngine, TLAPS

\* A flush leaves only shards still to be emptied and keys newer than itself.
FlushProgress ==
    \A t \in Threads :
        call[t].op = "clear" =>
            \A k \in DOMAIN kernel_cache :
                k \in call[t].fresh \/ shard(k) \in call[t].todo

\* A thread that is about to insert compiled without an error.
EmitsKernels ==
    \A t \in Threads : call[t].op = "emit" => Compiled[call[t].req] # Err

IInv == TypeOK /\ HitsBacked /\ FlushProgress /\ EmitsKernels

\* What the shapes of the records say, once for all steps.
LEMMA Shapes ==
    ASSUME TypeOK, NEW t \in Threads
    PROVE  /\ call[t].op \in {"lookup", "hit", "compile", "emit"} =>
                 call[t].req \in Requests /\ call[t] = Compiling(call[t].op, call[t].req)
           /\ call[t].op = "clear" =>
                 /\ call[t].todo \subseteq Shards
                 /\ call[t].fresh \subseteq Keys
                 /\ call[t] = Clearing(call[t].todo, call[t].fresh)
           /\ call[t].op = "idle" => call[t] = Idle
           /\ call[t].op \in {"idle", "lookup", "hit", "compile", "emit", "clear"}
  BY DEF TypeOK, CallStates, Idle, Compiling, Clearing

\* The parts of the invariant hold initially.
LEMMA InitIInv == Init => IInv
  BY JitBounds DEF Init, IInv, TypeOK, HitsBacked, FlushProgress, EmitsKernels,
                   CallStates, Idle, JitBounds

\* A call begins: the cache is as before, and a flush has all shards to do.
LEMMA BeginIInv ==
    ASSUME IInv, NEW t \in Threads,
           NEW c \in {Compiling("lookup", r) : r \in Requests} \cup {Clearing(Shards, {})},
           Begin(t, c)
    PROVE  IInv'
  <1>1. TypeOK'
    BY JitBounds DEF IInv, TypeOK, Begin, JitBounds, CallStates, Keys, Kernels, Shards, Idle, Compiling, Clearing
  <1>2. DOMAIN kernel_cache \subseteq Keys /\ \A k \in DOMAIN kernel_cache : shard(k) \in Shards
    BY DEF IInv, TypeOK, Shards
  <1>3. \A u \in Threads : u # t => call'[u] = call[u]
    BY DEF IInv, TypeOK, Begin
  <1>4. call'[t] = c
    BY DEF IInv, TypeOK, Begin
  <1>5. c.op \in {"lookup", "clear"} /\ (c.op = "clear" => c.todo = Shards)
    BY DEF Compiling, Clearing
  <1> QED BY <1>1, <1>2, <1>3, <1>4, <1>5
          DEF IInv, Begin, HitsBacked, FlushProgress, EmitsKernels

\* A call returns and leaves the cache alone.
LEMMA ReturnIInv ==
    ASSUME IInv, NEW t \in Threads, call' = [call EXCEPT ![t] = Idle],
           UNCHANGED <<kernel_cache, calls>>,
           returned' \subseteq Requests \X (Kernels \cup {Err})
    PROVE  IInv'
  <1>1. call \in [Threads -> CallStates]
    BY DEF IInv, TypeOK
  <1>2. call' \in [Threads -> CallStates]
    BY <1>1 DEF CallStates
  <1>3. TypeOK'
    BY <1>2 DEF IInv, TypeOK
  <1>4. \A u \in Threads : call'[u] = IF u = t THEN Idle ELSE call[u]
    BY <1>1
  <1>5. \A u \in Threads : call'[u].op # "idle" => call'[u] = call[u]
    BY <1>4 DEF Idle
  <1> QED BY <1>3, <1>5 DEF IInv, HitsBacked, FlushProgress, EmitsKernels

\* A step of a thread inside a call.
LEMMA StepIInv ==
    ASSUME IInv, NEW t \in Threads, Step(t)
    PROVE  IInv'
  <1>0. TypeOK /\ HitsBacked /\ FlushProgress /\ EmitsKernels
    BY DEF IInv
  <1>a. call \in [Threads -> CallStates]
    BY <1>0 DEF TypeOK
  <1>1. CASE Lookup(t)
    <2>1. PICK op \in {"hit", "compile"} :
             /\ call' = [call EXCEPT ![t] = Compiling(op, call[t].req)]
             /\ op = "hit" => hash(call[t].req) \in DOMAIN kernel_cache
      BY <1>0, <1>1, <1>a, Shapes DEF Lookup, Compiling
    <2>2. call[t].req \in Requests
      BY <1>0, <1>1, Shapes DEF Lookup
    <2> HIDE <1>a
    <2>3. TypeOK'
      BY <1>0, <1>1, <2>1, <2>2 DEF TypeOK, Lookup, CallStates, Keys, Kernels, Shards
    <2>4. \A u \in Threads : u # t => call'[u] = call[u]
      BY <1>a, <2>1
    <2>5. call'[t] = Compiling(op, call[t].req)
      BY <1>a, <2>1
    <2> QED BY <1>0, <1>1, <2>1, <2>3, <2>4, <2>5
            DEF IInv, Lookup, HitsBacked, FlushProgress, EmitsKernels, Compiling
  <1>2. CASE ReturnCached(t)
    <2>1. call[t].req \in Requests /\ kernel_cache[hash(call[t].req)] \in Kernels
      BY <1>0, <1>2, Shapes DEF ReturnCached, HitsBacked, TypeOK
    <2>2. returned' \subseteq Requests \X (Kernels \cup {Err})
      BY <1>0, <1>2, <2>1 DEF ReturnCached, Return, TypeOK
    <2> QED BY <1>2, <2>2, ReturnIInv DEF ReturnCached, Return
  <1>3. CASE CompileFails(t)
    <2>1. call[t].req \in Requests
      BY <1>0, <1>3, Shapes DEF CompileFails
    <2>2. returned' \subseteq Requests \X (Kernels \cup {Err})
      BY <1>0, <1>3, <2>1 DEF CompileFails, Return, TypeOK
    <2> QED BY <1>3, <2>2, ReturnIInv DEF CompileFails, Return
  <1>4. CASE CompileEmits(t)
    <2>1. call' = [call EXCEPT ![t] = Compiling("emit", call[t].req)]
      BY <1>0, <1>4, <1>a, Shapes DEF CompileEmits, Compiling
    <2>2. call[t].req \in Requests /\ Compiled[call[t].req] # Err
      BY <1>0, <1>4, Shapes DEF CompileEmits
    <2>3. TypeOK'
      BY <1>0, <1>4, <2>1, <2>2 DEF TypeOK, CompileEmits, CallStates, Keys, Kernels, Shards
    <2>4. \A u \in Threads : u # t => call'[u] = call[u]
      BY <1>a, <2>1
    <2>5. call'[t] = Compiling("emit", call[t].req)
      BY <1>a, <2>1
    <2> QED BY <1>0, <1>4, <2>2, <2>3, <2>4, <2>5
            DEF IInv, CompileEmits, HitsBacked, FlushProgress, EmitsKernels, Compiling
  <1>5. CASE Insert(t)
    <2> DEFINE r == call[t].req
               k == hash(r)
    <2>1. r \in Requests /\ Compiled[r] \in Kernels /\ k \in Keys
      BY <1>0, <1>5, Shapes DEF Insert, EmitsKernels, Kernels, Keys
    <2>2. DOMAIN kernel_cache' = DOMAIN kernel_cache \cup {k}
      BY <1>5 DEF Insert
    <2>3. \A x \in DOMAIN kernel_cache' :
             kernel_cache'[x] = IF x = k THEN Compiled[r] ELSE kernel_cache[x]
      BY <1>5 DEF Insert
    <2>0. call' = [Note(k) EXCEPT ![t] = Idle] /\ DOMAIN Note(k) = Threads
      BY <1>5 DEF Insert, Note
    <2>a. call'[t] = Idle
      BY <2>0
    <2>b. \A u \in Threads : u # t /\ call[u].op # "clear" => call'[u] = call[u]
      BY <2>0 DEF Note
    <2>c. \A u \in Threads : u # t /\ call[u].op = "clear" =>
             call'[u] = Clearing(call[u].todo, call[u].fresh \cup {k})
      BY <2>0 DEF Note
    <2>d. call'[t].op = "idle" /\ \A u \in Threads : u # t => call'[u].op = call[u].op
      <3>1. call'[t].op = "idle"
        BY <2>a DEF Idle
      <3>2. \A u \in Threads : u # t /\ call[u].op = "clear" => call'[u].op = "clear"
        <4> SUFFICES ASSUME NEW u \in Threads, u # t, call[u].op = "clear"
                     PROVE  call'[u].op = "clear"
          OBVIOUS
        <4>1. call'[u] = Clearing(call[u].todo, call[u].fresh \cup {k})
          BY <2>c
        <4> HIDE DEF k, r
        <4> QED BY <4>1 DEF Clearing
      <3> QED BY <3>1, <3>2, <2>b
    <2>5. DOMAIN call' = Threads /\ call' = [u \in Threads |-> call'[u]]
      BY <1>5 DEF Insert, Note
    <2>6. \A u \in Threads : call[u].op = "clear" =>
             Clearing(call[u].todo, call[u].fresh \cup {k}) \in CallStates
      BY <1>0, <2>1, Shapes DEF CallStates
    <2>7. call' \in [Threads -> CallStates]
      <3> SUFFICES ASSUME NEW u \in Threads PROVE call'[u] \in CallStates
        BY <2>5
      <3>1. CASE u = t
        BY <2>a, <3>1 DEF CallStates
      <3>2. CASE u # t /\ call[u].op = "clear"
        BY <2>c, <2>6, <3>2
      <3>3. CASE u # t /\ call[u].op # "clear"
        BY <2>b, <1>a, <3>3
      <3> QED BY <3>1, <3>2, <3>3
    <2>8. TypeOK'
      <3>1. DOMAIN kernel_cache' \subseteq Keys
        BY <1>0, <2>1, <2>2 DEF TypeOK
      <3>2. \A x \in DOMAIN kernel_cache' : kernel_cache'[x] \in Kernels
        BY <1>0, <2>1, <2>2, <2>3 DEF TypeOK
      <3>3. returned' \subseteq Requests \X (Kernels \cup {Err}) /\ calls' \in 0..MaxCalls
        BY <1>0, <1>5, <2>1 DEF TypeOK, Insert
      <3> QED BY <3>1, <3>2, <3>3, <2>7 DEF TypeOK
    <2>9. HitsBacked' /\ EmitsKernels'
      <3>1. \A u \in Threads : call'[u].op \in {"hit", "emit"} => call'[u] = call[u]
        BY <2>b, <2>d, <1>0, Shapes
      <3> QED BY <1>0, <2>2, <3>1 DEF HitsBacked, EmitsKernels
    <2>10. FlushProgress'
      <3> SUFFICES ASSUME NEW u \in Threads, call'[u].op = "clear"
                   PROVE  \A x \in DOMAIN kernel_cache' :
                             x \in call'[u].fresh \/ shard(x) \in call'[u].todo
        BY DEF FlushProgress
      <3>1. u # t
        BY <2>d
      <3>2. call[u].op = "clear" /\ call'[u] = Clearing(call[u].todo, call[u].fresh \cup {k})
        BY <2>c, <2>d, <3>1
      <3>3. call'[u].fresh = call[u].fresh \cup {k} /\ call'[u].todo = call[u].todo
        BY <3>2 DEF Clearing
      <3>4. \A x \in DOMAIN kernel_cache : x \in call[u].fresh \/ shard(x) \in call[u].todo
        BY <1>0, <3>2 DEF FlushProgress
      <3> QED BY <2>2, <3>3, <3>4
    <2> QED BY <2>8, <2>9, <2>10 DEF IInv
  <1>6. CASE \E s \in Shards : ClearShard(t, s)
    <2>1. PICK s \in Shards : ClearShard(t, s)
      BY <1>6
    <2>2. kernel_cache' = [k \in {x \in DOMAIN kernel_cache : shard(x) # s} |-> kernel_cache[k]]
      BY <2>1 DEF ClearShard, Restrict
    <2>3. call' = [call EXCEPT ![t] = Clearing(call[t].todo \ {s}, call[t].fresh)]
      BY <1>0, <1>a, <2>1, Shapes DEF ClearShard, Clearing
    <2>4. \A u \in Threads : call'[u] = IF u = t THEN Clearing(call[t].todo \ {s}, call[t].fresh)
                                        ELSE call[u]
      BY <1>a, <2>3
    <2>5. Clearing(call[t].todo \ {s}, call[t].fresh) \in CallStates
      BY <1>0, <2>1, Shapes DEF ClearShard, CallStates
    <2>6. TypeOK'
      <3>1. call' \in [Threads -> CallStates]
        BY <1>a, <2>3, <2>5
      <3>2. DOMAIN kernel_cache' \subseteq Keys
               /\ \A x \in DOMAIN kernel_cache' : kernel_cache'[x] \in Kernels
        BY <1>0, <2>2 DEF TypeOK
      <3> QED BY <1>0, <2>1, <3>1, <3>2 DEF TypeOK, ClearShard
    <2>7. HitsBacked'
      <3> SUFFICES ASSUME NEW u \in Threads, call'[u].op = "hit"
                   PROVE  hash(call'[u].req) \in DOMAIN kernel_cache'
        BY DEF HitsBacked
      <3>1. u # t /\ call'[u] = call[u]
        BY <2>4 DEF Clearing
      <3>2. shard(hash(call[u].req)) # s
        BY <2>1, <3>1 DEF ClearShard, Unlocked, ReadGuard
      <3> QED BY <1>0, <2>2, <3>1, <3>2 DEF HitsBacked
    <2>8. FlushProgress' /\ EmitsKernels'
      <3>1. EmitsKernels'
        BY <1>0, <2>4 DEF EmitsKernels, Clearing
      <3>2. call[t].op = "clear"
        BY <2>1 DEF ClearShard
      <3>3. FlushProgress'
        BY <1>0, <2>2, <2>4, <3>2 DEF FlushProgress, Clearing
      <3> QED BY <3>1, <3>3
    <2> QED BY <2>6, <2>7, <2>8 DEF IInv
  <1>7. CASE ClearReturns(t)
    BY <1>0, <1>7, ReturnIInv DEF ClearReturns, TypeOK
  <1> QED BY <1>1, <1>2, <1>3, <1>4, <1>5, <1>6, <1>7 DEF Step

LEMMA NextIInv == IInv /\ [Next]_vars => IInv'
  <1> SUFFICES ASSUME IInv, [Next]_vars PROVE IInv'
    OBVIOUS
  <1>1. CASE UNCHANGED vars
    BY <1>1 DEF IInv, TypeOK, HitsBacked, FlushProgress, EmitsKernels, vars, CallStates, Keys, Kernels, Shards
  <1>2. CASE Next
    <2>1. PICK t \in Threads : \/ \E r \in Requests : compile_ptx(t, r)
                               \/ clear_cache(t)
                               \/ Step(t)
      BY <1>2 DEF Next
    <2> QED BY <2>1, BeginIInv, StepIInv DEF compile_ptx, clear_cache
  <1> QED BY <1>1, <1>2

-----------------------------------------------------------------------------
(* For every instance: the cache is well formed, a hit is backed until it  *)
(* is copied, and a flush leaves nothing older than itself.                *)
THEOREM JitCacheSafety == Spec => [](TypeOK /\ HitsBacked /\ FlushComplete)
  <1>1. IInv => TypeOK /\ HitsBacked /\ FlushComplete
    BY DEF IInv, FlushProgress, FlushComplete
  <1> QED BY <1>1, InitIInv, NextIInv, PTL DEF Spec

(* In particular a thread that the lookup answered with a hit finds the    *)
(* kernel it copies, however many threads store and flush meanwhile.       *)
THEOREM HitsTheorem == Spec => []HitsBacked
  BY JitCacheSafety, PTL

-----------------------------------------------------------------------------
\* Distinct requests have distinct keys.
KeysUnique == \A r, q \in Requests : hash(r) = hash(q) => r = q

LEMMA NextRight ==
    ASSUME KeysUnique
    PROVE  IInv /\ CacheRight /\ ReturnsRight /\ [Next]_vars => CacheRight' /\ ReturnsRight'
  <1> SUFFICES ASSUME IInv, CacheRight, ReturnsRight, [Next]_vars
               PROVE  CacheRight' /\ ReturnsRight'
    OBVIOUS
  <1>0. TypeOK /\ HitsBacked
    BY DEF IInv
  <1>1. CASE UNCHANGED <<kernel_cache, returned>>
    BY <1>1 DEF CacheRight, ReturnsRight
  <1>2. ASSUME NEW t \in Threads, ReturnCached(t) PROVE CacheRight' /\ ReturnsRight'
    <2>1. call[t].req \in Requests /\ hash(call[t].req) \in DOMAIN kernel_cache
      BY <1>0, <1>2, Shapes DEF ReturnCached, HitsBacked
    <2> QED BY <1>2, <2>1 DEF ReturnCached, Return, CacheRight, ReturnsRight
  <1>3. ASSUME NEW t \in Threads, CompileFails(t) PROVE CacheRight' /\ ReturnsRight'
    BY <1>3 DEF CompileFails, Return, CacheRight, ReturnsRight
  <1>4. ASSUME NEW t \in Threads, Insert(t) PROVE CacheRight' /\ ReturnsRight'
    <2>1. call[t].req \in Requests
      BY <1>0, <1>4, Shapes DEF Insert
    <2>2. CacheRight'
      BY <1>4, <2>1, KeysUnique DEF Insert, CacheRight, KeysUnique
    <2>3. ReturnsRight'
      BY <1>4 DEF Insert, ReturnsRight
    <2> QED BY <2>2, <2>3
  <1>5. ASSUME NEW t \in Threads, NEW s \in Shards, ClearShard(t, s)
        PROVE CacheRight' /\ ReturnsRight'
    BY <1>5 DEF ClearShard, Restrict, CacheRight, ReturnsRight
  <1> QED BY <1>1, <1>2, <1>3, <1>4, <1>5
          DEF Next, Step, compile_ptx, clear_cache, Begin, Lookup, CompileEmits, ClearReturns, vars

(* For every instance in which no two requests share a key, every call     *)
(* returns the outcome of compiling its own request, and the cache holds   *)
(* that outcome or nothing.                                                *)
THEOREM JitResults ==
    ASSUME KeysUnique
    PROVE  Spec => []ResultsRight
  <1>1. Init => CacheRight /\ ReturnsRight
    BY DEF Init, CacheRight, ReturnsRight
  <1>2. IInv /\ CacheRight /\ ReturnsRight => ResultsRight
    BY DEF IInv, TypeOK, Kernels, ResultsRight
  <1> QED BY <1>1, <1>2, InitIInv, NextIInv, NextRight, PTL DEF Spec
=============================================================================
