------------------------------ MODULE OmniNode ------------------------------
(***************************************************************************)
(* The P2P node of omni-net/src/p2p/node.rs and the worker loop of omni-   *)
(* cli/src/commands.rs: callers, of which several may share the node, put  *)
(* messages into a bounded channel and wait when it is full; a background  *)
(* task takes them out and records the sender of every heartbeat in the    *)
(* routing table; register_peer writes the table directly.  A peer stands  *)
(* for a worker and the task that sends its heartbeats.                    *)
(***************************************************************************)
EXTENDS Naturals, Sequences, HardwareProbe

CONSTANTS
    Peers,
    Callers,        \* other tasks that use the node
    Machine,        \* Machine[p]: the machine of peer p
    Discovered,     \* profiles others report: [fp16_tflops, rtt_ms, current_load]
    Capacity,       \* of the channel (1024 in the code)
    MaxBeats,       \* bound: heartbeats of one peer
    MaxRegistered   \* bound: calls of register_peer

ASSUME NodeBounds == Capacity \in Nat \ {0} /\ MaxBeats \in Nat /\ MaxRegistered \in Nat
ASSUME MachinesAssumption == Machine \in [Peers -> Machines]
ASSUME ProfilesAssumption ==
    Discovered \subseteq [fp16_tflops : Nat, rtt_ms : Nat, current_load : Nat]

VARIABLES
    routing_table,  \* peer -> profile
    tx_channel,     \* the messages in the channel
    pending,        \* pending[c]: the message c waits to send
    beats,          \* beats[p]: heartbeats p has begun to send
    registered,     \* calls of register_peer
    open,           \* the node, and with it the sender, exists
    event_loop,     \* "running" or "ended"
    accepted,       \* every message the channel took, in order
    handled         \* every message the event loop has dealt with, in order

nodeVars == <<routing_table, tx_channel, pending, beats, registered, open, event_loop,
              accepted, handled>>

None == [type |-> "none"]
Heartbeat(profile) == [type |-> "Heartbeat", profile |-> profile]
TaskRequest(task) == [type |-> "TaskRequest", task |-> task]

WorkerNode(p, w) == [peer_id |-> p, fp16_tflops |-> w.fp16_tflops, rtt_ms |-> w.rtt_ms,
                     current_load |-> w.current_load]

\* worker-join: the profile a worker advertises, made once, from the kind of
\* its backend.
worker_profile(p) ==
    LET backend == probe(Machine[p]).target_backend
    IN  WorkerNode(p, [rtt_ms |-> 0, current_load |-> 0,
                       fp16_tflops |-> CASE backend = "AmdRocm" -> 80
                                         [] backend = "AppleMetal" -> 35
                                         [] OTHER -> 12])

NodeInit ==
    /\ routing_table = [p \in {} |-> None]
    /\ tx_channel = <<>>
    /\ pending = [c \in Peers \cup Callers |-> None]
    /\ beats = [p \in Peers |-> 0]
    /\ registered = 0
    /\ open = TRUE
    /\ event_loop = "running"
    /\ accepted = <<>>
    /\ handled = <<>>

-----------------------------------------------------------------------------
\* offload_task: send(message).await begins.
offload_task(c, m) ==
    /\ open /\ pending[c] = None
    /\ pending' = [pending EXCEPT ![c] = m]
    /\ UNCHANGED <<routing_table, tx_channel, registered, open, event_loop, accepted, handled>>

\* One turn of the worker loop sends a clone of the one heartbeat.
Beat(p) ==
    /\ beats[p] < MaxBeats
    /\ beats' = [beats EXCEPT ![p] = @ + 1]
    /\ offload_task(p, Heartbeat(worker_profile(p)))

\* The channel has room and takes the message; the call returns Ok.
SendAccepted(c) ==
    /\ pending[c] # None
    /\ Len(tx_channel) < Capacity
    /\ tx_channel' = Append(tx_channel, pending[c])
    /\ accepted' = Append(accepted, pending[c])
    /\ pending' = [pending EXCEPT ![c] = None]
    /\ UNCHANGED <<routing_table, beats, registered, open, event_loop, handled>>

\* The peer crashes: a message it has not yet sent is lost, and it sends no
\* more of them.
Crash(p) ==
    /\ pending[p] # None
    /\ pending' = [pending EXCEPT ![p] = None]
    /\ beats' = [beats EXCEPT ![p] = MaxBeats]
    /\ UNCHANGED <<routing_table, tx_channel, registered, open, event_loop, accepted, handled>>

PutProfile(w) ==
    [q \in DOMAIN routing_table \cup {w.peer_id} |->
        IF q = w.peer_id THEN w ELSE routing_table[q]]

register_peer(p, w) ==
    /\ open /\ registered < MaxRegistered
    /\ registered' = registered + 1
    /\ routing_table' = PutProfile(WorkerNode(p, w))
    /\ UNCHANGED <<tx_channel, pending, beats, open, event_loop, accepted, handled>>

-----------------------------------------------------------------------------
\* mutant: the newest message is taken first
ReceiveNewest ==
    LET m == tx_channel[Len(tx_channel)]
    IN  /\ event_loop = "running" /\ tx_channel # <<>>
        /\ routing_table' = IF m.type = "Heartbeat" THEN PutProfile(m.profile) ELSE routing_table
        /\ handled' = Append(handled, m)
        /\ tx_channel' = SubSeq(tx_channel, 1, Len(tx_channel) - 1)
        /\ UNCHANGED <<pending, beats, registered, open, event_loop, accepted>>

\* mutant: a message that is not a heartbeat is put back
ReceivePutsBack ==
    LET m == Head(tx_channel)
    IN  /\ event_loop = "running" /\ tx_channel # <<>>
        /\ IF m.type = "Heartbeat"
           THEN /\ routing_table' = PutProfile(m.profile)
                /\ handled' = Append(handled, m)
                /\ tx_channel' = Tail(tx_channel)
           ELSE tx_channel' = Append(Tail(tx_channel), m) /\ UNCHANGED <<routing_table, handled>>
        /\ UNCHANGED <<pending, beats, registered, open, event_loop, accepted>>

\* mutant: an entry is removed and then inserted again, in two steps
ReceiveReplaces ==
    LET m == Head(tx_channel)
    IN  /\ event_loop = "running" /\ tx_channel # <<>>
        /\ IF m.type = "Heartbeat" /\ m.profile.peer_id \in DOMAIN routing_table
           THEN /\ routing_table' = [q \in DOMAIN routing_table \ {m.profile.peer_id} |->
                                        routing_table[q]]
                /\ UNCHANGED <<tx_channel, handled>>
           ELSE /\ routing_table' = IF m.type = "Heartbeat" THEN PutProfile(m.profile)
                                    ELSE routing_table
                /\ handled' = Append(handled, m)
                /\ tx_channel' = Tail(tx_channel)
        /\ UNCHANGED <<pending, beats, registered, open, event_loop, accepted>>

\* swarm_event_loop: one message.  A task request is only logged, and the
\* remaining kinds (Ping, Pong, TaskResponse) are ignored in the same way.
Receive ==
    LET m == Head(tx_channel)
    IN  /\ event_loop = "running" /\ tx_channel # <<>>
        /\ routing_table' = IF m.type = "Heartbeat" THEN PutProfile(m.profile) ELSE routing_table
        /\ handled' = Append(handled, m)
        /\ tx_channel' = Tail(tx_channel)
        /\ UNCHANGED <<pending, beats, registered, open, event_loop, accepted>>

\* The node is dropped, once no call borrows it.
DropNode ==
    /\ open /\ \A c \in DOMAIN pending : pending[c] = None
    /\ open' = FALSE
    /\ UNCHANGED <<routing_table, tx_channel, pending, beats, registered, event_loop,
                   accepted, handled>>

\* mutant: the loop owns a sender, so that the channel never closes
EndNever == FALSE /\ UNCHANGED nodeVars

\* recv() is None: no sender left and nothing in the channel.
LoopEnds ==
    /\ event_loop = "running" /\ ~open /\ tx_channel = <<>>
    /\ event_loop' = "ended"
    /\ UNCHANGED <<routing_table, tx_channel, pending, beats, registered, open, accepted, handled>>

\* What the peers, the network and the event loop do.
NodeNext ==
    \/ \E p \in Peers : \/ Beat(p)
                        \/ Crash(p)
                        \/ \E w \in Discovered : register_peer(p, w)
    \/ \E c \in DOMAIN pending : SendAccepted(c)
    \/ Receive
    \/ LoopEnds

-----------------------------------------------------------------------------
(* No message is lost, doubled or overtaken between the channel and the    *)
(* event loop: what the channel took is what the loop has dealt with and   *)
(* what is still queued, in that order, and the loop ends with an empty    *)
(* queue, also when the node is dropped with messages in it.               *)
DeliveryExact ==
    /\ accepted = handled \o tx_channel
    /\ event_loop = "ended" => tx_channel = <<>>
    /\ \A i \in DOMAIN handled :
          handled[i].type = "Heartbeat" => handled[i].profile.peer_id \in DOMAIN routing_table

(* Dropping the node ends its background task.                             *)
LoopTerminates == ~open ~> event_loop = "ended"
=============================================================================
