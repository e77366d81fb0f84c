----------------------------- MODULE OmniCluster -----------------------------
(***************************************************************************)
(* The node (OmniNode) and the router (TaskRouter) used together.  A       *)
(* coordinator lists the workers with get_active_workers, splits a module  *)
(* with blind_split, schedules the global operations and offloads the      *)
(* dispatches one by one, while peers register, send heartbeats and crash. *)
(* The routing table is a DashMap: iterating over it locks one shard at a  *)
(* time, so that it changes while it is read.  Every peer is taken to be   *)
(* in a shard of its own, and the shards are visited in any order.         *)
(*                                                                         *)
(* The coordinator is not code of the repository, which offers the four    *)
(* calls and leaves it to the application to combine them.                 *)
(***************************************************************************)
EXTENDS OmniNode, TaskRouter, FiniteSets

CONSTANTS
    Coordinator,    \* the calling task
    Kinds,          \* operation kinds in use
    MaxOps          \* bound: operations of a module

ASSUME CoordinatorAssumption ==
    Coordinator \in Callers /\ Coordinator \notin Peers /\ MaxOps \in Nat

VARIABLES
    stage,          \* "idle", "reading", "listed", "offloading", "error"
    unread,         \* peers whose shard is still to be visited
    workers,        \* the list of get_active_workers
    ops,            \* the module
    dispatches,     \* the TaskDispatch values
    next,           \* the dispatch to offload next
    known,          \* the peers in the table when the list was begun
    since           \* since[p]: profiles p has had since the list was begun

coordinatorVars == <<stage, unread, workers, ops, dispatches, next, known, since>>
vars == <<nodeVars, coordinatorVars>>

Init ==
    /\ NodeInit
    /\ stage = "idle" /\ unread = {} /\ workers = <<>>
    /\ ops = <<>> /\ dispatches = <<>> /\ next = 1
    /\ known = {} /\ since = [p \in Peers |-> {}]

\* get_active_workers: an iterator over the shards...
BeginList ==
    /\ open /\ stage = "idle"
    /\ stage' = "reading"
    /\ unread' = Peers
    /\ known' = DOMAIN routing_table
    /\ since' = [p \in Peers |-> IF p \in DOMAIN routing_table THEN {routing_table[p]} ELSE {}]
    /\ UNCHANGED <<nodeVars, workers, ops, dispatches, next>>

\* ...one shard of which is visited...
ReadShard(p) ==
    /\ stage = "reading" /\ p \in unread
    /\ workers' = IF p \in DOMAIN routing_table THEN Append(workers, routing_table[p]) ELSE workers
    /\ unread' = unread \ {p}
    /\ UNCHANGED <<nodeVars, stage, ops, dispatches, next, known, since>>

\* ...until none is left, and the list is returned.
EndList ==
    /\ stage = "reading" /\ unread = {}
    /\ stage' = "listed"
    /\ UNCHANGED <<nodeVars, unread, workers, ops, dispatches, next, known, since>>

Module(kinds) == [i \in DOMAIN kinds |-> [id |-> i, kind |-> kinds[i]]]

\* No worker: an error, and nothing is dispatched.
ScheduleFails ==
    /\ stage = "listed" /\ workers = <<>>
    /\ stage' = "error"
    /\ UNCHANGED <<nodeVars, unread, workers, ops, dispatches, next, known, since>>

\* blind_split and schedule_global_ops.
Schedule(kinds) ==
    /\ stage = "listed" /\ workers # <<>>
    /\ ops' = Module(kinds)
    /\ dispatches' = schedule_global_ops(global_ops(ops'), workers)
    /\ stage' = "offloading"
    /\ known' = {} /\ since' = [p \in Peers |-> {}]
    /\ UNCHANGED <<nodeVars, unread, workers, next>>

\* The next dispatch is offloaded once the call before it has returned.
OffloadNext ==
    /\ stage = "offloading" /\ next <= Len(dispatches)
    /\ offload_task(Coordinator, TaskRequest(dispatches[next]))
    /\ next' = next + 1
    /\ UNCHANGED <<beats, stage, unread, workers, ops, dispatches, known, since>>

\* What the coordinator's state sees of a step of the node.
Meanwhile ==
    /\ since' = [p \in Peers |->
                    IF stage = "reading" /\ p \in DOMAIN routing_table'
                    THEN since[p] \cup {routing_table'[p]} ELSE since[p]]
    /\ UNCHANGED <<stage, unread, workers, ops, dispatches, next, known>>

\* The node outlives the list that borrows it.
Drop == stage # "reading" /\ DropNode /\ UNCHANGED coordinatorVars

Next ==
    \/ NodeNext /\ Meanwhile
    \/ Drop
    \/ BeginList
    \/ \E p \in Peers : ReadShard(p)
    \/ EndList
    \/ ScheduleFails
    \/ \E kinds \in BoundedSeq(Kinds, MaxOps) : Schedule(kinds)
    \/ OffloadNext

Spec == Init /\ [][Next]_vars

\* The runtime has threads of its own for the spawned event loop.
FairSpec ==
    Spec /\ WF_vars(Receive /\ Meanwhile) /\ WF_vars(LoopEnds /\ Meanwhile)

-----------------------------------------------------------------------------
(* The list need not show the table of any one moment, but it is complete: *)
(* every peer known when it was begun is in it, no peer twice, and each    *)
(* with a profile it had in the meantime, whoever registers and whichever  *)
(* heartbeats arrive while the shards are visited.                         *)
ListConsistent ==
    stage = "listed" =>
        /\ \A p \in known : \E i \in DOMAIN workers : workers[i].peer_id = p
        /\ \A i \in DOMAIN workers :
              /\ workers[i] \in since[workers[i].peer_id]
              /\ \A j \in DOMAIN workers : workers[j].peer_id = workers[i].peer_id => i = j

(* The operations that hold user tokens (Gather, Scatter, Softmax), and    *)
(* those the router does not know, never enter the network queue; every    *)
(* other operation enters it once, in the order of the module.             *)
SplitSound ==
    LET Sent == {i \in DOMAIN accepted : accepted[i].type = "TaskRequest"}
        Id(i) == accepted[i].task.op.id
        MayLeave == {i \in DOMAIN ops :
                        ops[i].kind \in {"MatMul", "BatchedMatMul", "Add", "Mul", "UnaryFunc"}}
    IN  /\ \A i, j \in Sent : i < j => Id(i) < Id(j)
        /\ \A i \in Sent : Id(i) \in MayLeave
        /\ stage = "offloading" /\ next > Len(dispatches) /\ pending[Coordinator] = None
              => \A k \in MayLeave : \E i \in Sent : Id(i) = k

(* Every operation goes to the first of the listed workers with the best   *)
(* score, which the scan finds although it starts from worker 0 and -1.    *)
BestWorkerChosen ==
    \A k \in DOMAIN dispatches :
        \E i \in DOMAIN workers :
            /\ workers[i].peer_id = dispatches[k].target_peer_id
            /\ \A j \in DOMAIN workers :
                  /\ ~Greater(Score(workers[j]), Score(workers[i]))
                  /\ j < i => Greater(Score(workers[i]), Score(workers[j]))

(* A message the channel took is dealt with eventually, even when the node *)
(* is dropped or the sender crashes in the meantime.                       *)
MessagesHandled ==
    \A n \in 1..(MaxBeats * Cardinality(Peers) + MaxOps) :
        Len(accepted) >= n ~> Len(handled) >= n
=============================================================================
