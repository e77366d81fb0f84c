----------------------------- MODULE TaskRouter -----------------------------
(***************************************************************************)
(* The task router of omni-net/src/scheduler/router.rs, which keeps no     *)
(* state: blind_split parts a module into operations that stay local and   *)
(* operations that may leave the machine, schedule_global_ops gives each   *)
(* of the latter to a worker.  Throughput, latency and load are natural    *)
(* numbers; the f32 score is the exact fraction num / den, compared by     *)
(* cross multiplication.                                                   *)
(***************************************************************************)
EXTENDS Integers, Sequences, Subsequences

\* mutant: what is not listed may leave the machine
OffloadableUnlessPinned(kind) == kind \notin {"Gather", "Scatter", "Softmax"}

Offloadable(kind) == kind \in {"MatMul", "BatchedMatMul", "Add", "Mul", "UnaryFunc"}

\* blind_split of a sequence of operations.
local_ops(ops) == Pick(ops, {i \in DOMAIN ops : ~Offloadable(ops[i].kind)})
global_ops(ops) == Pick(ops, {i \in DOMAIN ops : Offloadable(ops[i].kind)})

-----------------------------------------------------------------------------
\* tflops / load_factor * 1000 / (rtt_ms + 1), load_factor being 100 for an
\* overloaded worker and 1 + load / 100 otherwise (the factor 1000, common to
\* all scores, is left out).
Score(w) ==
    IF w.current_load >= 99
    THEN [num |-> w.fp16_tflops, den |-> 100 * (w.rtt_ms + 1)]
    ELSE [num |-> w.fp16_tflops * 100, den |-> (100 + w.current_load) * (w.rtt_ms + 1)]

Greater(a, b) == a.num * b.den > b.num * a.den

\* mutant: the comparison is the wrong way round
KeepWorse(best, w) == IF Greater(Score(best), Score(w)) THEN w ELSE best

\* One step of the inner loop: a later worker replaces the best only if its
\* score is greater.  (The first score always exceeds the -1 it starts from.)
KeepBetter(best, w) == IF Greater(Score(w), Score(best)) THEN w ELSE best

\* The best of the first n workers.
BestOf(workers) ==
    LET best_worker[n \in 1..Len(workers)] ==
            IF n = 1 THEN workers[1] ELSE KeepBetter(best_worker[n - 1], workers[n])
    IN  best_worker

\* schedule_global_ops, for at least one worker.
schedule_global_ops(ops, workers) ==
    [i \in DOMAIN ops |->
        LET best == BestOf(workers)[Len(workers)]
        IN  [op |-> ops[i], target_peer_id |-> best.peer_id,
             priority |-> [num |-> Score(best).num, den |-> Score(best).den * i]]]
=============================================================================
