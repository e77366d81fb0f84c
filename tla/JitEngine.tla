------------------------------ MODULE JitEngine ------------------------------
(***************************************************************************)
(* The compilation cache of omni-core/src/jit.rs, shared by the threads    *)
(* that call compile_ptx and clear_cache.  The lookup and the insertion    *)
(* are two operations on the DashMap: other threads run between them, and  *)
(* the map locks one shard at a time, so clear_cache is not atomic either. *)
(* A request is what the caller passes (PTX bytes and kernel id); the      *)
(* pipeline from IR lifting to code generation is a function of it, since  *)
(* the engine's hardware profile never changes.                            *)
(***************************************************************************)
EXTENDS Naturals, FiniteSets, Functions

CONSTANTS
    Threads,
    Requests,       \* <<ptx, kernel_id>> pairs
    hash(_),        \* the cache key of a request
    shard(_),       \* the DashMap shard of a key
    Compiled,       \* [Requests -> kernels and Err]: the pipeline's outcome
    Err,
    MaxCalls        \* bound: calls of the engine in a behaviour

ASSUME JitBounds == MaxCalls \in Nat

VARIABLES
    kernel_cache,   \* key -> kernel
    call,           \* call[t]: the call of t in progress
    returned,       \* <<request, outcome>> of the calls that returned
    calls           \* number of calls so far

vars == <<kernel_cache, call, returned, calls>>

Keys == {hash(r) : r \in Requests}
Kernels == {Compiled[r] : r \in Requests} \ {Err}
Shards == {shard(k) : k \in Keys}

Idle == [op |-> "idle"]
Compiling(op, r) == [op |-> op, req |-> r]
Clearing(todo, fresh) == [op |-> "clear", todo |-> todo, fresh |-> fresh]

CallStates ==
    {Idle}
    \cup {Compiling(op, r) : op \in {"lookup", "hit", "compile", "emit"}, r \in Requests}
    \cup {Clearing(todo, fresh) : todo \in SUBSET Shards, fresh \in SUBSET Keys}

Init ==
    /\ kernel_cache = [k \in {} |-> Err]
    /\ call = [t \in Threads |-> Idle]
    /\ returned = {}
    /\ calls = 0

Begin(t, c) ==
    /\ call[t] = Idle /\ calls < MaxCalls
    /\ calls' = calls + 1
    /\ call' = [call EXCEPT ![t] = c]
    /\ UNCHANGED <<kernel_cache, returned>>

\* The thread holds a guard of its key's shard only while it copies a hit:
\* the guard of a miss is gone before the kernel is compiled.
\* mutant: the guard of a miss lives until the end of the call
GuardOutlivesMiss(t, s) ==
    call[t].op \in {"hit", "emit"} /\ shard(hash(call[t].req)) = s

\* mutant: the entry is copied after its guard is gone
NoGuard(t, s) == FALSE

ReadGuard(t, s) == call[t].op = "hit" /\ shard(hash(call[t].req)) = s

Unlocked(s) == \A t \in Threads : ~ReadGuard(t, s)

compile_ptx(t, r) == Begin(t, Compiling("lookup", r))

\* kernel_cache.get(&kernel_hash)
Lookup(t) ==
    /\ call[t].op = "lookup"
    /\ call' = [call EXCEPT ![t] =
                  Compiling(IF hash(call[t].req) \in DOMAIN kernel_cache THEN "hit" ELSE "compile",
                            call[t].req)]
    /\ UNCHANGED <<kernel_cache, returned, calls>>

Return(t, out) ==
    /\ call' = [call EXCEPT ![t] = Idle]
    /\ returned' = returned \cup {<<call[t].req, out>>}

ReturnCached(t) ==
    /\ call[t].op = "hit"
    /\ Return(t, kernel_cache[hash(call[t].req)])
    /\ UNCHANGED <<kernel_cache, calls>>

\* mutant: the error is cached like a kernel
CompileFailureCached(t) ==
    /\ call[t].op = "compile" /\ Compiled[call[t].req] = Err
    /\ kernel_cache' = [x \in DOMAIN kernel_cache \cup {hash(call[t].req)} |->
                           IF x = hash(call[t].req) THEN Err ELSE kernel_cache[x]]
    /\ Return(t, Err)
    /\ UNCHANGED calls

\* The pipeline fails: `?` returns the error and nothing is cached.
CompileFails(t) ==
    /\ call[t].op = "compile" /\ Compiled[call[t].req] = Err
    /\ Return(t, Err)
    /\ UNCHANGED <<kernel_cache, calls>>

CompileEmits(t) ==
    /\ call[t].op = "compile" /\ Compiled[call[t].req] # Err
    /\ call' = [call EXCEPT ![t] = Compiling("emit", call[t].req)]
    /\ UNCHANGED <<kernel_cache, returned, calls>>

\* Every flush in progress takes note of the keys inserted since it began
\* (not state of the code).
Note(k) ==
    [t \in Threads |-> IF call[t].op = "clear"
                       THEN Clearing(call[t].todo, call[t].fresh \cup {k}) ELSE call[t]]

\* kernel_cache.insert(kernel_hash, kernel.clone()); Ok(kernel)
Insert(t) ==
    LET r == call[t].req
        k == hash(r)
    IN  /\ call[t].op = "emit"
        /\ Unlocked(shard(k))
        /\ kernel_cache' = [x \in DOMAIN kernel_cache \cup {k} |->
                               IF x = k THEN Compiled[r] ELSE kernel_cache[x]]
        /\ call' = [Note(k) EXCEPT ![t] = Idle]
        /\ returned' = returned \cup {<<r, Compiled[r]>>}
        /\ UNCHANGED calls

\* clear_cache empties the map shard by shard, each under its write lock.
clear_cache(t) == Begin(t, Clearing(Shards, {}))

\* mutant: the shard is passed over without being emptied
SkipShard(t, s) ==
    /\ call[t].op = "clear" /\ s \in call[t].todo
    /\ Unlocked(s)
    /\ call' = [call EXCEPT ![t] = Clearing(call[t].todo \ {s}, call[t].fresh)]
    /\ UNCHANGED <<kernel_cache, returned, calls>>

ClearShard(t, s) ==
    /\ call[t].op = "clear" /\ s \in call[t].todo
    /\ Unlocked(s)
    /\ kernel_cache' = Restrict(kernel_cache, {k \in DOMAIN kernel_cache : shard(k) # s})
    /\ call' = [call EXCEPT ![t] = Clearing(call[t].todo \ {s}, call[t].fresh)]
    /\ UNCHANGED <<returned, calls>>

ClearReturns(t) ==
    /\ call[t].op = "clear" /\ call[t].todo = {}
    /\ call' = [call EXCEPT ![t] = Idle]
    /\ UNCHANGED <<kernel_cache, returned, calls>>

Step(t) ==
    \/ Lookup(t)
    \/ ReturnCached(t)
    \/ CompileFails(t)
    \/ CompileEmits(t)
    \/ Insert(t)
    \/ \E s \in Shards : ClearShard(t, s)
    \/ ClearReturns(t)

Next ==
    \E t \in Threads :
        \/ \E r \in Requests : compile_ptx(t, r)
        \/ clear_cache(t)
        \/ Step(t)

Spec == Init /\ [][Next]_vars

\* Threads inside the engine are scheduled; callers need not call again.
FairSpec == Spec /\ \A t \in Threads : WF_vars(Step(t))

-----------------------------------------------------------------------------
(* Type correctness of the cache and of the calls in progress; the cache   *)
(* holds kernels, never an error.                                          *)
TypeOK ==
    /\ DOMAIN kernel_cache \subseteq Keys
    /\ \A k \in DOMAIN kernel_cache : kernel_cache[k] \in Kernels
    /\ call \in [Threads -> CallStates]
    /\ returned \subseteq Requests \X (Kernels \cup {Err})
    /\ calls \in 0..MaxCalls

\* What calls returned, and what the cache would return.
ReturnsRight == \A p \in returned : p[2] = Compiled[p[1]]
CacheRight ==
    \A r \in Requests : hash(r) \in DOMAIN kernel_cache => kernel_cache[hash(r)] = Compiled[r]

(* Whatever lookups, insertions and flushes interleave, a call returns the *)
(* outcome of compiling its own request, the cache has nothing else to     *)
(* offer it, and a failed compilation is tried anew.                       *)
ResultsRight ==
    /\ ReturnsRight /\ CacheRight
    /\ \A k \in DOMAIN kernel_cache : kernel_cache[k] # Err

(* A hit stays a hit until it is copied: the entry a caller found cannot   *)
(* be flushed from under its guard.                                        *)
HitsBacked ==
    \A t \in Threads :
        call[t].op = "hit" => hash(call[t].req) \in DOMAIN kernel_cache

(* When clear_cache returns, what the cache holds was inserted after the   *)
(* flush began: no older kernel survives it, although the shards are       *)
(* emptied one after another.                                              *)
FlushComplete ==
    \A t \in Threads :
        call[t].op = "clear" /\ call[t].todo = {}
            => DOMAIN kernel_cache \subseteq call[t].fresh

(* Every call returns: the guard of the lookup is never held when the      *)
(* same thread, or another one, waits to write the shard.                  *)
CallsReturn == \A t \in Threads : call[t] # Idle ~> call[t] = Idle
=============================================================================
